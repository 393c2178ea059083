----------------------------- MODULE CronIntervals -----------------------------
(***************************************************************************)
(* The intervals of the AI News jobs (ainews-scheduler.util.ts).  An       *)
(* interval in minutes is read from the environment and turned into a cron *)
(* expression, which has no intervals: it names minutes of the hour or     *)
(* hours of the day, and starts over with every hour or day.  The module   *)
(* follows a job from one firing to the next.                              *)
(***************************************************************************)
EXTENDS Integers, FiniteSetsExt

CONSTANTS
    Configured,     \* values of the environment; 0 stands for none, for one
                    \* that is no number, and for all that are less than 1
    Fallbacks       \* the intervals without one: 5 and 15 minutes

ASSUME CronAssumption ==
    /\ Configured \subseteq Nat
    /\ Fallbacks \subseteq 1 .. 59

VARIABLES
    configured, fallback,   \* of this job
    at,                     \* the minute of the day of its last firing
    waited                  \* the minutes before that firing

cronVars == <<configured, fallback, at, waited>>

Day == 24 * 60

\* parseIntervalMinutes
Minutes ==
    IF configured < 1 THEN fallback ELSE Min({configured, Day})

\* Every minute of the day at which the expression */every, or 0 */hours, fires.
EveryMinutes(every) == {t \in 0 .. Day - 1 : (t % 60) % every = 0}
EveryHours(hours) == {t \in 0 .. Day - 1 : t % 60 = 0 /\ (t \div 60) % hours = 0}

\* A wrong Firings: an expression without hours.
FiringsInTheHour == EveryMinutes(Min({59, Minutes}))

\* cronEveryMinutes: hours only for whole hours, 59 minutes for all the others.
Firings ==
    IF Minutes >= 60 /\ Minutes % 60 = 0 THEN EveryHours(Minutes \div 60)
    ELSE EveryMinutes(Min({59, Minutes}))

CronTypeOK ==
    /\ configured \in Configured /\ fallback \in Fallbacks
    /\ at \in 0 .. Day - 1 /\ waited \in 0 .. Day

CronInit ==
    /\ configured \in Configured /\ fallback \in Fallbacks
    /\ at = 0 /\ waited = 0

\* The next firing, today or tomorrow.
Fire ==
    LET today == {t \in Firings : t > at}
        next == IF today # {} THEN Min(today) ELSE Day + Min(Firings)
    IN  /\ at' = next % Day
        /\ waited' = next - at
        /\ UNCHANGED <<configured, fallback>>

CronSpec == CronInit /\ [][Fire]_cronVars

-------------------------------------------------------------------------------
\* A job never waits longer than the interval that was asked for, or a day: not
\* for an interval that does not divide an hour or a day, for which the last
\* gap of the hour or day is shorter, nor for one that cron cannot express,
\* which becomes 59 minutes.  An interval that divides the hour, or the day in
\* whole hours, is kept to the minute (the comment of cronEveryMinutes).
IntervalsAreKept ==
    [][ /\ waited' <= Minutes
        /\ 60 % Minutes = 0 \/ (Minutes % 60 = 0 /\ Day % Minutes = 0)
              => waited' = Minutes]_cronVars
===============================================================================
