---------------------------- MODULE CreditSystem ----------------------------
(***************************************************************************)
(* The credit accounts with everything that changes them at the same time: *)
(* calls that spend (CreditGateway), the midnight job and subscription     *)
(* payments (CreditScheduler), grants by administrators, and crashes of    *)
(* the one server process, which loses what is in memory and keeps what    *)
(* was committed.                                                          *)
(***************************************************************************)
EXTENDS CreditGateway, CreditScheduler, Functions

CONSTANTS
    GrantAmounts,       \* amounts granted or bought
    MaxGrants           \* bound on grants and subscription events

ASSUME SystemAssumption == GrantAmounts \subseteq Nat /\ MaxGrants \in Nat

VARIABLE grants         \* grants and subscription events so far

vars == <<storeVars, gatewayVars, schedulerVars, grants>>

TypeOK ==
    /\ StoreTypeOK
    /\ GatewayTypeOK
    /\ SchedulerTypeOK
    /\ grants \in 0..MaxGrants

Init == StoreInit /\ GatewayInit /\ SchedulerInit /\ grants = 0

Counted == grants < MaxGrants /\ grants' = grants + 1

-----------------------------------------------------------------------------
\* CreditService.grant; also the one-time purchases of the payment gateways
\* and the signup bonus, which go to the payg pool the same way.
AdminGrant(u, pool, n) ==
    /\ Counted
    /\ n > 0
    /\ Grant(u, Only(pool, n))
    /\ UNCHANGED <<gatewayVars, schedulerVars>>

Pay(u, n) == Counted /\ PaySubscription(u, n) /\ UNCHANGED gatewayVars

Cancel(u) == Counted /\ CancelSubscription(u) /\ UNCHANGED gatewayVars

ChangeStatus(u) == Counted /\ SetActive(u) /\ UNCHANGED gatewayVars

Cron(missed) ==
    /\ Midnight(missed)
    /\ IF missed THEN Fault ELSE UNCHANGED faults
    /\ UNCHANGED <<req, grants>>

Job == JobStep /\ UNCHANGED <<gatewayVars, grants>>

JobFails == JobError /\ Fault /\ UNCHANGED <<req, grants>>

\* The process dies and is started again: calls in flight are never
\* answered nor refunded, the run of the job is not resumed.
Crash ==
    /\ Fault
    /\ req' = [r \in Requests |->
                 IF InFlight(r) THEN [req[r] EXCEPT !.pc = "lost", !.row = Nothing]
                 ELSE req[r]]
    /\ job' = Idle
    /\ UNCHANGED <<storeVars, day, lastReset, subscription, active, grants>>

Next ==
    \/ GatewayNext({u \in Users : active[u]}) /\ UNCHANGED <<schedulerVars, grants>>
    \/ \E u \in Users, pool \in Pools, n \in GrantAmounts : AdminGrant(u, pool, n)
    \/ \E u \in Users, n \in GrantAmounts : Pay(u, n)
    \/ \E u \in Users : Cancel(u) \/ ChangeStatus(u)
    \/ \E missed \in BOOLEAN : Cron(missed)
    \/ Job
    \/ JobFails
    \/ Crash

Spec == Init /\ [][Next]_vars

\* A handler that has started goes on: its promises are settled by the
\* database or by the image service, whose clients have timeouts.  The same
\* holds of the run of the job.  Arrivals, grants and faults are not fair.
FairSpec ==
    /\ Spec
    /\ \A r \in Requests : WF_vars(RequestStep(r) /\ UNCHANGED <<schedulerVars, grants>>)
    /\ WF_vars(Job)

-----------------------------------------------------------------------------
\* What one call made for u holds in one pool, over its stages: charged and
\* not given back; and what all of them do.
HeldBy(c, u, pool) ==
    IF c.user = u THEN c.held[1][pool] + c.held[2][pool] + c.held[3][pool] ELSE 0

Held(u, pool) == SumFunction([r \in Requests |-> HeldBy(req[r], u, pool)])

(***************************************************************************)
(* Every credit deducted is held by a call or was refunded, pool by pool:  *)
(* whatever the interleaving, a charge is refunded at most once, to the    *)
(* pool it came from, and nothing else is charged (the pairs deduct... and *)
(* refund... of credit.service.ts).                                        *)
(***************************************************************************)
ChargesAreHeld ==
    \A u \in Users, pool \in Pools :
        -(ledger[u]["deduct"][pool] + ledger[u]["refund"][pool]) = Held(u, pool)

(***************************************************************************)
(* totalEarned and totalSpent agree with the transaction rows: every path  *)
(* that moves credits writes both, the scheduler's included.               *)
(***************************************************************************)
TotalsMatchLedger ==
    \A u \in Users :
        /\ totalEarned[u] = Total(ledger[u]["grant"])
        /\ totalSpent[u] + Total(ledger[u]["deduct"]) + Total(ledger[u]["refund"]) = 0

(***************************************************************************)
(* The permanent pool is exactly what its transaction rows add up to, even *)
(* while calls race each other: all its updates are relative.              *)
(***************************************************************************)
PaygMatchesLedger ==
    \A u \in Users : balance[u].payg = LedgerBalance(u).payg

\* The columns of an account are explained by its transaction rows.
AccountsMatchLedger == TotalsMatchLedger /\ PaygMatchesLedger

(***************************************************************************)
(* A successful call has paid the full price of each of its stages, also   *)
(* when a pool was driven below zero meanwhile and the cut was made from   *)
(* the others (lines 138 and 667: nothing remains to be taken).            *)
(***************************************************************************)
SuccessIsPaidInFull ==
    \A r \in Requests : req[r].pc = "ok" =>
        \A k \in 1..Len(req[r].prices) : Total(req[r].held[k]) = req[r].prices[k]

\* What a call knows while it runs, from which the above follows: its price
\* list fits its stage, a cut about to be made is of a row that covered the
\* price, and the stages behind it are paid.
PaidStages(c) ==
    IF c.pc \in {"read", "create", "debit"} THEN 1..(c.stage - 1)
    ELSE IF c.pc \in {"upstream", "ok"} THEN 1..c.stage
    ELSE {}

CallOK(c) ==
    /\ c.pc = "free" => c.stage = 1 /\ c.kind = "api"
    /\ c.pc # "free" => c.stage <= Len(c.prices)
    /\ c.kind = "admin" => Len(c.prices) = 1
    /\ c.pc = "debit" => Total(c.row) >= c.prices[c.stage]
    /\ c.pc = "ok" => c.stage = Len(c.prices)
    /\ \A k \in PaidStages(c) : Total(c.held[k]) = c.prices[k]

CallsOK == \A r \in Requests : CallOK(req[r])

(***************************************************************************)
(* A failed call costs nothing, unless the database or the process failed; *)
(* the one exception is a scratch repair that was done before the face     *)
(* remastering of the same pipeline failed.                                *)
(***************************************************************************)
FailureIsFree ==
    \A r \in Requests : req[r].pc = "failed" /\ faults = 0 =>
        \A k \in Stages : req[r].held[k] # Nothing => k = 2 /\ req[r].stage = 3

\* What a call holds while it runs, from which the above follows: a stage not
\* yet charged holds nothing, and without faults a catch has left no more
\* behind than the stages in front of it.
HoldsOK(c) ==
    /\ c.pc \in {"free", "read", "create", "debit"} =>
         \A k \in c.stage..3 : c.held[k] = Nothing
    /\ c.pc \in {"upstream", "refund"} =>
         \A k \in (c.stage + 1)..3 : c.held[k] = Nothing

CaughtOK(c) ==
    /\ c.pc = "refundBase" => c.stage # 1 /\ \A k \in c.stage..3 : c.held[k] = Nothing
    /\ c.pc = "failed" => \A k \in Stages : c.held[k] # Nothing => k = 2 /\ c.stage = 3

HoldingsOK ==
    \A r \in Requests : HoldsOK(req[r]) /\ (faults = 0 => CaughtOK(req[r]))

(***************************************************************************)
(* When the resets of a run are done, every user who was active when it    *)
(* began has had the reset of that run's day: no user is left out of the   *)
(* loop, also when the account was created or changed meanwhile.           *)
(***************************************************************************)
RunResetsEveryone ==
    job.pc = "batch" /\ job.batch = 0 =>
        \A u \in job.listed : lastReset[u] = job.today

\* What the run knows in its loop, from which the above follows: the users
\* behind it have had their reset, and nobody else writes the date it read.
ResetsOK ==
    /\ job.pc = "resets" =>
         \A u \in job.listed \ job.todo : lastReset[u] = job.today
    /\ job.pc = "reset" =>
         /\ job.mark = lastReset[job.user]
         /\ \A u \in job.listed \ (job.todo \cup {job.user}) : lastReset[u] = job.today
    /\ job.pc \in {"rolls", "found", "roll"} => job.batch > 0
    /\ RunResetsEveryone

(***************************************************************************)
(* A pool is only driven below zero by a deduction whose reading of the    *)
(* account was out of date: one that reads the current row never is.       *)
(***************************************************************************)
OverdraftIsStale ==
    \A u \in Users, pool \in Pools :
        balance[u][pool] >= 0 /\ balance'[u][pool] < 0 =>
            \E r \in Requests : /\ req[r].pc = "debit"
                                /\ req[r].user = u
                                /\ req[r].row # balance[u]

OverdraftNeedsStaleRow == [][OverdraftIsStale]_vars

(***************************************************************************)
(* Balances and transaction rows only come apart in a step of the midnight *)
(* job that writes over a balance that changed after the job read it.      *)
(***************************************************************************)
DriftNeedsStaleJob ==
    [][\A u \in Users : Drift(u)' # Drift(u) =>
            /\ job.pc \in {"reset", "roll"}
            /\ job.user = u
            /\ job.row # balance[u]]_vars

(***************************************************************************)
(* A period that has ended when the run queries for such periods is moved  *)
(* on by that run, if nothing fails and every user has an account row: the *)
(* batches catch up with midnights that were missed.                       *)
(***************************************************************************)
EndedPeriodsRoll ==
    \A u \in Users :
        job.pc = "batch" /\ Due(u, day) /\ (\A v \in Users : hasRow[v])
            ~> ~Due(u, day) \/ faults > 0

\* Every run of the midnight job ends, whatever fails in it, so the flag
\* 'running' (line 63) is cleared and the next midnight finds it so.
RunsEnd == job.pc # "idle" ~> job.pc = "idle"

(***************************************************************************)
(* A night settles: its run ends, and if nothing failed no period that had *)
(* ended is left behind.                                                   *)
(***************************************************************************)
NightsSettle == RunsEnd /\ EndedPeriodsRoll

(***************************************************************************)
(* What credit.service.ts says of a deduction (line 179: with insufficient *)
(* balance it throws): it is made only when the account covers the price.  *)
(* Not so when two calls have read the same last credit.                   *)
(***************************************************************************)
DeductionIsCovered ==
    [][\A r \in Requests :
         req[r].pc = "debit" /\ req'[r].pc \in {"upstream", "ok"} =>
            Total(balance[req[r].user]) >= Price(r)]_vars

(***************************************************************************)
(* What credit-scheduler.service.ts says of the monthly expiry (line 216:  *)
(* it empties the pool when currentPeriodEnd is reached).  Not so when the *)
(* renewal is paid between the job's reading and its writing.              *)
(***************************************************************************)
ExpiresOnlyEndedPeriods ==
    [][\A u \in Users :
         ledger'[u]["expire"].subscription # ledger[u]["expire"].subscription
            => subscription[u].periodEnd <= day]_vars
=============================================================================
