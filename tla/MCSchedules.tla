------------------------------ MODULE MCSchedules ------------------------------
(***************************************************************************)
(* What runs by the clock: the jobs of AI News and their intervals, its    *)
(* articles, and the calendar of the billing cycle, each on its own.  A    *)
(* behaviour picks one part and takes only its steps.  Payments fall on    *)
(* every day of a common year, a leap year, and the years before and of a  *)
(* century that is not a leap year.                                        *)
(***************************************************************************)
EXTENDS AinewsJobs, AinewsArticles, BillingDates, CronIntervals

VARIABLE part

SomeYears == {2023, 2024, 2099, 2100}

\* Divisors of an hour, of a day, of neither, and values that are cut.
SomeIntervals == {0, 1, 7, 45, 59, 60, 61, 90, 119, 120, 300, 1440, 2000}

vars == <<part, jobVars, newsVars, cycleVars, cronVars>>

Init ==
    /\ part \in {"jobs", "news", "cycle", "cron"}
    /\ JobsInit /\ NewsInit /\ CycleInit /\ CronInit
    /\ part # "cron" => configured = 1 /\ fallback = 5
    /\ part # "cycle" => paidAt = [year |-> 2024, month |-> 1, day |-> 1]

NextOf(p) ==
    /\ part = p /\ UNCHANGED part
    /\ IF p = "jobs" THEN JobsNext ELSE UNCHANGED jobVars
    /\ IF p = "news" THEN NewsNext ELSE UNCHANGED newsVars
    /\ IF p = "cycle" THEN Roll ELSE UNCHANGED cycleVars
    /\ IF p = "cron" THEN Fire ELSE UNCHANGED cronVars

Next == NextOf("jobs") \/ NextOf("news") \/ NextOf("cycle") \/ NextOf("cron")

\* The fairness of the articles, for the behaviours that are about them.
Spec ==
    /\ Init /\ [][Next]_vars
    /\ \A w \in Workers : WF_newsVars(part = "news" /\ BatchStep(w))
    /\ WF_newsVars(part = "news" /\ Lapse)
=============================================================================
