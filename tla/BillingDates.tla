---------------------------- MODULE BillingDates ----------------------------
(***************************************************************************)
(* The calendar of a monthly subscription (credit-billing-dates.util.ts):  *)
(* its first period ends a month and a day after the payment, and each     *)
(* time the credits of a period have expired the end moves on by a month.  *)
(* All dates are UTC days at 0:00.  Module CreditScheduler has what the    *)
(* scheduler does on these days; there a month has a fixed length.         *)
(***************************************************************************)
EXTENDS Integers

CONSTANTS
    PaidYears,          \* years in which a payment is made
    MaxRolls            \* bound on the periods of a subscription

ASSUME BillingAssumption ==
    /\ PaidYears \subseteq Nat \ {0}
    /\ MaxRolls \in Nat

VARIABLES
    paidAt,             \* the day of the payment
    periodEnd,          \* currentPeriodEnd
    rolls               \* periods that ended

cycleVars == <<paidAt, periodEnd, rolls>>

-----------------------------------------------------------------------------
\* The Gregorian calendar, with months 1 to 12.
Leap(y) == y % 4 = 0 /\ (y % 100 # 0 \/ y % 400 = 0)

DaysIn(y, m) ==
    IF m = 2 THEN IF Leap(y) THEN 29 ELSE 28
    ELSE IF m \in {4, 6, 9, 11} THEN 30 ELSE 31

Dates == {d \in [year : Nat \ {0}, month : 1..12, day : 1..31] :
            d.day <= DaysIn(d.year, d.month)}

\* The month m of year y, where m is at most one past December.
MonthOf(y, m) ==
    IF m > 12 THEN [year |-> y + 1, month |-> m - 12] ELSE [year |-> y, month |-> m]

\* Date.UTC: days beyond the end of a month are days of the next one.
Utc(y, m, d) ==
    LET at   == MonthOf(y, m)
        next == MonthOf(at.year, at.month + 1)
        over == d - DaysIn(at.year, at.month)
    IN  IF over > 0
        THEN [year |-> next.year, month |-> next.month, day |-> over]
        ELSE [year |-> at.year, month |-> at.month, day |-> d]

\* firstSubscriptionMonthlyExpireUtc
FirstExpire(paid) == Utc(paid.year, paid.month + 1, paid.day + 1)

\* A wrong NextExpire: an end that is cut to the end of a short month.
NextExpireClamped(prev) ==
    LET at == MonthOf(prev.year, prev.month + 1)
        n  == DaysIn(at.year, at.month)
    IN  Utc(at.year, at.month, IF prev.day > n THEN n ELSE prev.day)

\* nextSubscriptionMonthlyExpireUtc
NextExpire(prev) == Utc(prev.year, prev.month + 1, prev.day)

-----------------------------------------------------------------------------
CycleInit ==
    /\ paidAt \in {d \in [year : PaidYears, month : 1..12, day : 1..31] :
                     d.day <= DaysIn(d.year, d.month)}
    /\ periodEnd = FirstExpire(paidAt)
    /\ rolls = 0

\* processSubscriptionPeriodRoll moves the period on.
Roll ==
    /\ rolls < MaxRolls
    /\ periodEnd' = NextExpire(periodEnd)
    /\ rolls' = rolls + 1
    /\ UNCHANGED paidAt

CycleSpec == CycleInit /\ [][Roll]_cycleVars

-----------------------------------------------------------------------------
CycleTypeOK ==
    /\ paidAt \in Dates
    /\ periodEnd \in Dates
    /\ rolls \in Nat

\* Months since the year 0.
MonthIndex(d) == 12 * d.year + d.month

\* The months without an expiry between the payment and periodEnd.
Skipped == MonthIndex(periodEnd) - MonthIndex(paidAt) - 1 - rolls

(***************************************************************************)
(* What the comment on nextSubscriptionMonthlyExpireUtc, line 17, says of  *)
(* it: every period ends on the day of the first expiry.  The code does    *)
(* not keep it: a payment of 30 April expires on 31 May, then on 1 July,   *)
(* and on the first of every month from then on.                           *)
(***************************************************************************)
DayIsKept == periodEnd.day = FirstExpire(paidAt).day

(***************************************************************************)
(* What the code does keep.  A subscriber is spared the expiry of one      *)
(* month at most, however long the subscription lasts: the day after the   *)
(* day of the payment is the day of every expiry until a month does not    *)
(* have it; that month is skipped, and from then on every month has an     *)
(* expiry, on one of its first four days.                                  *)
(***************************************************************************)
OneMonthSparedAtMost ==
    \/ Skipped = 0 /\ periodEnd.day = paidAt.day + 1
    \/ Skipped = 1 /\ periodEnd.day <= 4

\* Days since the year 0.
LeapsBefore(y) == (y - 1) \div 4 - (y - 1) \div 100 + (y - 1) \div 400

MonthStart == <<0, 31, 59, 90, 120, 151, 181, 212, 243, 273, 304, 334>>

DayNumber(d) ==
    365 * d.year + LeapsBefore(d.year) + MonthStart[d.month]
      + (IF d.month > 2 /\ Leap(d.year) THEN 1 ELSE 0) + d.day

(***************************************************************************)
(* Whatever the day and the month, a period that follows another one lasts *)
(* as many days as the month it starts in: never less than 28, and never   *)
(* more than 31 even where a month is skipped.                             *)
(***************************************************************************)
PeriodLasts == DayNumber(periodEnd') = DayNumber(periodEnd)
                                         + DaysIn(periodEnd.year, periodEnd.month)

PeriodsAreMonths == [][PeriodLasts]_cycleVars
=============================================================================
