--------------------------- MODULE CreditGateway ---------------------------
(***************************************************************************)
(* The calls that spend credits: the public API calls of a registered end  *)
(* user (the with...PublicCredits wrappers of remove-background.service.ts *)
(* around the deduct... and refund... pairs of credit.service.ts) and an   *)
(* administrator's manual deduction (CreditService.deduct).                *)
(*                                                                         *)
(* A call reads the account, decides the cut from that reading, and only   *)
(* then commits the deduction: the reading may be stale.  A public call    *)
(* then waits for the image service, and puts the charge back when it      *)
(* fails.  The colorize pipeline charges up to three stages one after the  *)
(* other, each before its step is called (the comment at line 669 of       *)
(* remove-background.service.ts has the add-ons charged after it); every   *)
(* other endpoint is a pipeline of one stage.                              *)
(***************************************************************************)
EXTENDS CreditStore, Sequences, FiniteSets

CONSTANTS
    Requests,           \* calls in the life of the model, each made once
    Plans,              \* price of each stage of the endpoints called
    AdminAmounts,       \* amounts administrators deduct
    MaxFaults           \* bound on failed database calls, crashes and
                        \* missed midnights together

\* One credit for ClearBG, Kling and DDColor; 1 to 100 for upscaling (the
\* strong setting costs 3); 1 to 4 room themes; and for colorizing one
\* credit, one more for scratch repair, two more for face remastering.
EndpointPlans ==
    {<<n>> : n \in 1..100} \cup {<<1, 1>>, <<1, 2>>, <<1, 1, 2>>}

ASSUME GatewayAssumption ==
    /\ IsFiniteSet(Requests)
    /\ Plans \subseteq EndpointPlans
    /\ AdminAmounts \subseteq Nat \ {0}
    /\ MaxFaults \in Nat

VARIABLES
    req,                \* req[r]: the state of call r
    faults              \* faults so far

gatewayVars == <<req, faults>>

Stages == 1..3

PCs == {"free", "read", "create", "debit", "upstream", "refund",
        "refundBase", "ok", "failed", "lost"}

\* A call that still has a step of its own to take.
InFlight(r) == req[r].pc \notin {"free", "ok", "failed", "lost"}

\* held[k] is the charge of stage k the call has taken and not given back:
\* the wrapper's local variables debitedPool, debitBreakdown, colorizeDebit,
\* scratchDebit and remasterDebit.  row is the balance getAccount returned.
RequestRecords ==
    [pc : PCs, kind : {"api", "admin"}, user : Users, stage : Stages,
     prices : {<<>>} \cup EndpointPlans \cup {<<n>> : n \in AdminAmounts},
     row : Amounts, held : [Stages -> Charges]]

GatewayTypeOK ==
    /\ req \in [Requests -> RequestRecords]
    /\ faults \in 0..MaxFaults

GatewayInit ==
    /\ req = [r \in Requests |->
                [pc |-> "free", kind |-> "api", user |-> CHOOSE u \in Users : TRUE,
                 stage |-> 1, prices |-> <<>>, row |-> Nothing,
                 held |-> [k \in Stages |-> Nothing]]]
    /\ faults = 0

Price(r) == req[r].prices[req[r].stage]

Fault == faults < MaxFaults /\ faults' = faults + 1

Goto(r, pc) == req' = [req EXCEPT ![r].pc = pc]

\* An error of an add-on stage that forgets the base charge.
CaughtByStageOnly(r) == "failed"

\* Where an error goes that is thrown while the current stage holds nothing:
\* out of the call, or to the outer catch, which refunds the base charge.
Caught(r) == IF req[r].stage = 1 THEN "failed" ELSE "refundBase"

-----------------------------------------------------------------------------
\* A public call by a registered end user arrives.
Arrive(r, u, prices) ==
    /\ req[r].pc = "free"
    /\ req' = [req EXCEPT ![r] =
                 [@ EXCEPT !.pc = "read", !.user = u, !.prices = prices]]
    /\ UNCHANGED <<storeVars, faults>>

\* An administrator deducts n credits.
ArriveAdmin(r, u, n) ==
    /\ req[r].pc = "free"
    /\ req' = [req EXCEPT ![r] = [@ EXCEPT !.pc = "read", !.kind = "admin",
                                           !.user = u, !.prices = <<n>>]]
    /\ UNCHANGED <<storeVars, faults>>

\* getAccount finds the row, and the total is compared with the price.
ReadAccount(r) ==
    LET u == req[r].user
    IN  /\ req[r].pc = "read"
        /\ hasRow[u]
        /\ IF Total(balance[u]) < Price(r)
           THEN Goto(r, Caught(r))
           ELSE req' = [req EXCEPT ![r] =
                          [@ EXCEPT !.pc = "debit", !.row = balance[u]]]
        /\ UNCHANGED <<storeVars, faults>>

\* getAccount finds no row ...
ReadNoAccount(r) ==
    /\ req[r].pc = "read"
    /\ ~hasRow[req[r].user]
    /\ Goto(r, "create")
    /\ UNCHANGED <<storeVars, faults>>

\* ... and creates one.  The unique key makes it fail when another request
\* was first; a new row is empty and so refuses every price.  Both throw.
CreateAccount(r) ==
    /\ req[r].pc = "create"
    /\ EnsureRow(req[r].user)
    /\ Goto(r, Caught(r))
    /\ UNCHANGED <<balance, totalEarned, totalSpent, ledger, faults>>

\* The deduction commits: the cut is of the row read before, the decrement
\* applies to the row as it is now.
Debit(r) ==
    LET cut == Split(req[r].row, Price(r))
    IN  /\ req[r].pc = "debit"
        /\ Deduct(req[r].user, cut, Price(r))
        /\ req' = [req EXCEPT ![r] =
                     [@ EXCEPT !.pc = IF req[r].kind = "admin" THEN "ok"
                                      ELSE "upstream",
                               !.row = Nothing,
                               !.held[req[r].stage] = cut]]
        /\ UNCHANGED faults

\* The read or the deduction fails in the database: nothing was taken.
DatabaseError(r) ==
    /\ req[r].pc \in {"read", "create", "debit"}
    /\ Fault
    /\ req' = [req EXCEPT ![r] =
                 [@ EXCEPT !.pc = Caught(r), !.row = Nothing]]
    /\ UNCHANGED storeVars

\* The image service answers: the next stage, or the result to the caller.
UpstreamOk(r) ==
    /\ req[r].pc = "upstream"
    /\ IF req[r].stage < Len(req[r].prices)
       THEN req' = [req EXCEPT ![r] =
                      [@ EXCEPT !.pc = "read", !.stage = req[r].stage + 1]]
       ELSE Goto(r, "ok")
    /\ UNCHANGED <<storeVars, faults>>

\* The image service fails, refuses or times out.
UpstreamFail(r) ==
    /\ req[r].pc = "upstream"
    /\ Goto(r, "refund")
    /\ UNCHANGED <<storeVars, faults>>

\* The catch of the current stage puts its charge back.
RefundStage(r) ==
    LET k == req[r].stage
    IN  /\ req[r].pc = "refund"
        /\ Refund(req[r].user, req[r].held[k])
        /\ req' = [req EXCEPT ![r] =
                     [@ EXCEPT !.pc = Caught(r), !.held[k] = Nothing]]
        /\ UNCHANGED faults

\* The outer catch of the colorize pipeline puts the base charge back, and
\* only that: a scratch repair that was done stays charged.
RefundBase(r) ==
    /\ req[r].pc = "refundBase"
    /\ Refund(req[r].user, req[r].held[1])
    /\ req' = [req EXCEPT ![r] =
                 [@ EXCEPT !.pc = "failed", !.held[1] = Nothing]]
    /\ UNCHANGED faults

\* A refund that fails is swallowed (.catch(() => undefined)).
RefundError(r) ==
    /\ req[r].pc \in {"refund", "refundBase"}
    /\ Fault
    /\ Goto(r, IF req[r].pc = "refund" THEN Caught(r) ELSE "failed")
    /\ UNCHANGED storeVars

\* The steps of a call that are the program's own.
RequestStep(r) ==
    \/ ReadAccount(r) \/ ReadNoAccount(r) \/ CreateAccount(r) \/ Debit(r)
    \/ UpstreamOk(r) \/ UpstreamFail(r)
    \/ RefundStage(r) \/ RefundBase(r)

\* callers: the users resolveRegisteredEndUser accepts.
GatewayNext(callers) ==
    \E r \in Requests :
        \/ \E u \in callers, prices \in Plans : Arrive(r, u, prices)
        \/ \E u \in Users, n \in AdminAmounts : ArriveAdmin(r, u, n)
        \/ RequestStep(r)
        \/ DatabaseError(r) \/ RefundError(r)
=============================================================================
