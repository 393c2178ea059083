-------------------------- MODULE CreditScheduler --------------------------
(***************************************************************************)
(* The job that CreditSchedulerService runs every day at 0:00 UTC: for     *)
(* every active user the promo pool is set to the daily target, then the   *)
(* subscription pool of every subscription whose period has ended is       *)
(* emptied and the period moved on by a month.                             *)
(*                                                                         *)
(* Each user and each subscription is handled in a transaction of its own, *)
(* which reads the rows and then writes values computed from the reading.  *)
(* PostgreSQL runs it at READ COMMITTED, so other transactions may commit  *)
(* between the two: the reading and the writing are two steps here.        *)
(*                                                                         *)
(* Time is a count of UTC days, and a month is Month days long; the        *)
(* calendar itself is in module BillingDates.                              *)
(***************************************************************************)
EXTENDS CreditStore

CONSTANTS
    DailyPromo,         \* DAILY_PROMO_CREDITS
    Month,              \* days in a billing period
    MaxBatches,         \* maxBatches of expireMonthlySubscriptionCredits
    MaxDay              \* bound on the days the model runs for

ASSUME SchedulerAssumption ==
    /\ DailyPromo \in Nat
    /\ Month \in Nat \ {0}
    /\ MaxBatches \in Nat
    /\ MaxDay \in Nat

VARIABLES
    day,                \* the UTC day
    lastReset,          \* lastReset[u]: lastDailyPromoResetDate; 0 is null
    subscription,       \* subscription[u]: status and currentPeriodEnd
    active,             \* active[u]: the status of user u is 'active'
    job                 \* the run in progress

schedulerVars == <<day, lastReset, subscription, active, job>>

\* job.pc: "idle" when the flag 'running' is off; "resets" between users and
\* "reset" between reading and writing one; "batch" before a query for ended
\* periods, "rolls" between subscriptions, "found" and "roll" within one,
\* before and after its account is read.  listed is the list of users the run
\* began with, todo what is left of the loop.
Idle == [pc |-> "idle", today |-> 0, listed |-> {}, todo |-> {}, user |-> CHOOSE u \in Users : TRUE,
         found |-> FALSE, row |-> Nothing, mark |-> 0, batch |-> 0]

JobRecords ==
    [pc : {"idle", "resets", "reset", "batch", "rolls", "found", "roll"}, today : Nat,
     listed : SUBSET Users, todo : SUBSET Users, user : Users,
     found : BOOLEAN, row : Amounts, mark : Nat, batch : Nat]

Subscriptions == [status : {"none", "active", "cancelled"}, periodEnd : Nat]

SchedulerTypeOK ==
    /\ day \in Nat
    /\ lastReset \in [Users -> Nat]
    /\ subscription \in [Users -> Subscriptions]
    /\ active \in [Users -> BOOLEAN]
    /\ job \in JobRecords

SchedulerInit ==
    /\ day = 1
    /\ lastReset = [u \in Users |-> 0]
    /\ subscription = [u \in Users |-> [status |-> "none", periodEnd |-> 0]]
    /\ active = [u \in Users |-> TRUE]
    /\ job = Idle

Due(u, now) ==
    subscription[u].status = "active" /\ subscription[u].periodEnd <= now

-----------------------------------------------------------------------------
\* Midnight, with the cron timer firing: the users then active are listed.
\* A run that is still going makes the new one skip; 'missed' says that the
\* process was down.
Midnight(missed) ==
    LET users == {u \in Users : active[u]}
    IN  /\ day < MaxDay
        /\ day' = day + 1
        /\ job' = IF job.pc = "idle" /\ ~missed
                  THEN [Idle EXCEPT !.pc = "resets", !.today = day',
                                    !.listed = users, !.todo = users]
                  ELSE job
        /\ UNCHANGED <<storeVars, lastReset, subscription, active>>

\* resetDailyPromoForUser reads the account.
ResetRead(u) ==
    /\ job.pc = "resets"
    /\ u \in job.todo
    /\ job' = [job EXCEPT !.pc = "reset", !.user = u, !.todo = @ \ {u},
                          !.found = hasRow[u], !.row = balance[u],
                          !.mark = lastReset[u]]
    /\ UNCHANGED <<storeVars, day, lastReset, subscription, active>>

NextUser == job' = [job EXCEPT !.pc = "resets", !.found = FALSE,
                               !.row = Nothing, !.mark = 0]

\* Two ways to get SetPromo wrong: an expiry that lowers totalEarned, and an
\* early return, when the pool is at the target, that forgets the date.
SetPromoUnearning(u, delta) ==
    /\ balance' = [balance EXCEPT ![u].promo = DailyPromo]
    /\ totalEarned' = [totalEarned EXCEPT ![u] = @ + delta]
    /\ Record(u, IF delta > 0 THEN "grant" ELSE "expire", Only("promo", delta))
    /\ lastReset' = [lastReset EXCEPT ![u] = job.today]

SetPromoWithoutDate(u, delta) ==
    IF delta = 0 THEN UNCHANGED <<balance, totalEarned, ledger, lastReset>>
    ELSE /\ balance' = [balance EXCEPT ![u].promo = DailyPromo]
         /\ totalEarned' = [totalEarned EXCEPT ![u] = @ + IF delta > 0 THEN delta ELSE 0]
         /\ Record(u, IF delta > 0 THEN "grant" ELSE "expire", Only("promo", delta))
         /\ lastReset' = [lastReset EXCEPT ![u] = job.today]

\* The promo pool is set to the target, and the difference to the balance
\* READ is recorded as granted or expired; a pool that was read at the
\* target is not written.
SetPromo(u, delta) ==
    /\ balance' = IF delta = 0 THEN balance
                  ELSE [balance EXCEPT ![u].promo = DailyPromo]
    /\ totalEarned' = [totalEarned EXCEPT ![u] = @ + IF delta > 0 THEN delta ELSE 0]
    /\ Record(u, IF delta > 0 THEN "grant" ELSE "expire", Only("promo", delta))
    /\ lastReset' = [lastReset EXCEPT ![u] = job.today]

\* An account already reset today is left alone, any other one set.
ResetWrite ==
    /\ job.pc = "reset"
    /\ job.found
    /\ IF job.mark = job.today
       THEN UNCHANGED <<balance, totalEarned, ledger, lastReset>>
       ELSE SetPromo(job.user, DailyPromo - job.row.promo)
    /\ NextUser
    /\ UNCHANGED <<hasRow, totalSpent, day, subscription, active>>

\* A user without a row gets one that holds the target.
ResetCreate ==
    LET u == job.user
    IN  /\ job.pc = "reset"
        /\ ~job.found
        /\ ~hasRow[u]
        /\ Grant(u, Only("promo", DailyPromo))
        /\ lastReset' = [lastReset EXCEPT ![u] = job.today]
        /\ NextUser
        /\ UNCHANGED <<day, subscription, active>>

\* A run that fails and forgets to clear the flag 'running'.
ResetConflictKeepsFlag ==
    /\ job.pc = "reset"
    /\ ~job.found
    /\ hasRow[job.user]
    /\ UNCHANGED <<storeVars, schedulerVars>>

\* A request created the row since it was looked for: the unique key makes
\* the transaction fail, and the exception ends the whole run.
ResetConflict ==
    /\ job.pc = "reset"
    /\ ~job.found
    /\ hasRow[job.user]
    /\ job' = Idle
    /\ UNCHANGED <<storeVars, day, lastReset, subscription, active>>

ResetsDone ==
    /\ job.pc = "resets"
    /\ job.todo = {}
    /\ job' = [job EXCEPT !.pc = "batch"]
    /\ UNCHANGED <<storeVars, day, lastReset, subscription, active>>

\* One query for the periods that have ended; the run ends when there are
\* none, or after MaxBatches queries.
Batch ==
    LET due == {u \in Users : Due(u, day)}
    IN  /\ job.pc = "batch"
        /\ job' = IF due = {} \/ job.batch = MaxBatches
                  THEN Idle
                  ELSE [job EXCEPT !.pc = "rolls", !.listed = {}, !.todo = due,
                                   !.today = day, !.batch = @ + 1]
        /\ UNCHANGED <<storeVars, day, lastReset, subscription, active>>

BatchDone ==
    /\ job.pc = "rolls"
    /\ job.todo = {}
    /\ job' = [job EXCEPT !.pc = "batch"]
    /\ UNCHANGED <<storeVars, day, lastReset, subscription, active>>

\* processSubscriptionPeriodRoll finds the subscription again, if it is
\* still due,
RollFind(u) ==
    /\ job.pc = "rolls"
    /\ u \in job.todo
    /\ job' = IF Due(u, job.today)
              THEN [job EXCEPT !.pc = "found", !.user = u, !.todo = @ \ {u},
                               !.mark = subscription[u].periodEnd]
              ELSE [job EXCEPT !.todo = @ \ {u}]
    /\ UNCHANGED <<storeVars, day, lastReset, subscription, active>>

\* and then reads the account.
RollRead ==
    /\ job.pc = "found"
    /\ job' = [job EXCEPT !.pc = "roll", !.found = hasRow[job.user],
                          !.row = balance[job.user]]
    /\ UNCHANGED <<storeVars, day, lastReset, subscription, active>>

\* An expiry without a transaction row.
EmptyUnrecorded(u, expired) ==
    /\ balance' = IF expired > 0 THEN [balance EXCEPT ![u].subscription = 0]
                  ELSE balance
    /\ UNCHANGED ledger

\* The subscription pool is emptied if it was READ positive, and what was
\* read is recorded as expired.
Empty(u, expired) ==
    IF expired > 0
    THEN /\ balance' = [balance EXCEPT ![u].subscription = 0]
         /\ Record(u, "expire", Only("subscription", -expired))
    ELSE UNCHANGED <<balance, ledger>>

NextPeriodEnd(periodEnd) == periodEnd + Month

\* The account is created if it was missing, the pool emptied, and the
\* period that was read followed by the next one.
RollWrite ==
    LET u == job.user
    IN  /\ job.pc = "roll"
        /\ job.found \/ ~hasRow[u]
        /\ EnsureRow(u)
        /\ Empty(u, job.row.subscription)
        /\ subscription' =
             [subscription EXCEPT ![u].periodEnd = NextPeriodEnd(job.mark)]
        /\ job' = [job EXCEPT !.pc = "rolls", !.found = FALSE,
                              !.row = Nothing, !.mark = 0]
        /\ UNCHANGED <<totalEarned, totalSpent, day, lastReset, active>>

\* The row was created by another request in between: the run ends.
RollConflict ==
    /\ job.pc = "roll"
    /\ ~job.found
    /\ hasRow[job.user]
    /\ job' = Idle
    /\ UNCHANGED <<storeVars, day, lastReset, subscription, active>>

\* An error of the database in any step throws, and the run ends with the
\* remaining users and subscriptions untouched.  (Its bound is the caller's.)
JobError ==
    /\ job.pc # "idle"
    /\ job' = Idle
    /\ UNCHANGED <<storeVars, day, lastReset, subscription, active>>

JobStep ==
    \/ \E u \in Users : ResetRead(u) \/ RollFind(u)
    \/ ResetWrite \/ ResetCreate \/ ResetConflict
    \/ ResetsDone \/ Batch \/ BatchDone
    \/ RollRead \/ RollWrite \/ RollConflict

-----------------------------------------------------------------------------
\* A payment of a subscription commits: a period is opened and the credits
\* of its plan, if any, granted in one transaction (GumroadService.handlePing and
\* LinkmepayService.handleCollectNotify; their idempotence is in module
\* PaymentOrders).
PaySubscription(u, n) ==
    /\ IF n > 0 THEN Grant(u, Only("subscription", n)) ELSE UNCHANGED storeVars
    /\ subscription' =
         [subscription EXCEPT ![u] = [status |-> "active", periodEnd |-> day + Month]]
    /\ UNCHANGED <<day, lastReset, active, job>>

\* Gumroad reports that the subscription was cancelled.
CancelSubscription(u) ==
    /\ subscription[u].status = "active"
    /\ subscription' = [subscription EXCEPT ![u].status = "cancelled"]
    /\ UNCHANGED <<storeVars, day, lastReset, active, job>>

\* An administrator bans, deletes or reinstates an end user: only the status
\* changes, the account and the subscription stay.
SetActive(u) ==
    /\ active' = [active EXCEPT ![u] = ~@]
    /\ UNCHANGED <<storeVars, day, lastReset, subscription, job>>
=============================================================================
