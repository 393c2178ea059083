--------------------------- MODULE AnonymousQuota ---------------------------
(***************************************************************************)
(* The free calls of callers who are not signed in: one a UTC day for each *)
(* application and address, shared by all image endpoints (the second half *)
(* of every with...PublicCredits wrapper of remove-background.service.ts). *)
(*                                                                         *)
(* A call inserts the row of its slot, whose unique key is the only guard, *)
(* runs the operation, and deletes the row by that key when the operation  *)
(* fails.  Nothing else links a row to the call that inserted it.          *)
(***************************************************************************)
EXTENDS Integers

CONSTANTS
    Ips,                \* pairs of an application and a client address
    Requests,           \* calls in the life of the model, each made once
    MaxDay,             \* bound on the days the model runs for
    MaxFaults           \* bound on failed database calls and crashes

ASSUME QuotaAssumption ==
    /\ Ips # {}
    /\ MaxDay \in Nat \ {0}
    /\ MaxFaults \in Nat

VARIABLES
    usage,              \* clearbg_anonymous_daily_usage: the slots taken
    req,                \* req[r]: the state of call r
    today,              \* the UTC day
    faults              \* faults so far

vars == <<usage, req, today, faults>>

Slots == [ip : Ips, day : 1..MaxDay]

PCs == {"free", "reserve", "operate", "release",
        "ok", "refused", "failed", "lost"}

TypeOK ==
    /\ usage \subseteq Slots
    /\ req \in [Requests -> [pc : PCs, slot : Slots]]
    /\ today \in 1..MaxDay
    /\ faults \in 0..MaxFaults

Init ==
    /\ usage = {}
    /\ req = [r \in Requests |->
                [pc |-> "free", slot |-> [ip |-> CHOOSE i \in Ips : TRUE, day |-> 1]]]
    /\ today = 1
    /\ faults = 0

Fault == faults < MaxFaults /\ faults' = faults + 1

Goto(r, pc) == req' = [req EXCEPT ![r].pc = pc]

-----------------------------------------------------------------------------
\* A call without a key arrives; its day is taken before the row is written.
Arrive(r, ip) ==
    /\ req[r].pc = "free"
    /\ req' = [req EXCEPT ![r] = [pc |-> "reserve", slot |-> [ip |-> ip, day |-> today]]]
    /\ UNCHANGED <<usage, today, faults>>

\* The row is inserted, and 'reserved' set.
Reserve(r) ==
    /\ req[r].pc = "reserve"
    /\ req[r].slot \notin usage
    /\ usage' = usage \cup {req[r].slot}
    /\ Goto(r, "operate")
    /\ UNCHANGED <<today, faults>>

\* A wrong Refuse: a call that is refused and yet goes through the clean-up.
RefuseAndRelease(r) ==
    /\ req[r].pc = "reserve"
    /\ req[r].slot \in usage
    /\ Goto(r, "release")
    /\ UNCHANGED <<usage, today, faults>>

\* The unique key is violated: 429, with the row left to its owner.
Refuse(r) ==
    /\ req[r].pc = "reserve"
    /\ req[r].slot \in usage
    /\ Goto(r, "refused")
    /\ UNCHANGED <<usage, today, faults>>

\* The insert fails otherwise; it may have been committed all the same.
ReserveError(r) ==
    /\ req[r].pc = "reserve"
    /\ Fault
    /\ usage' \in {usage, usage \cup {req[r].slot}}
    /\ Goto(r, "failed")
    /\ UNCHANGED today

\* The operation succeeds: the row stays, the slot is used up.
OperationOk(r) ==
    /\ req[r].pc = "operate"
    /\ Goto(r, "ok")
    /\ UNCHANGED <<usage, today, faults>>

OperationFail(r) ==
    /\ req[r].pc = "operate"
    /\ Goto(r, "release")
    /\ UNCHANGED <<usage, today, faults>>

\* deleteMany by application, address and day.
Release(r) ==
    /\ req[r].pc = "release"
    /\ usage' = usage \ {req[r].slot}
    /\ Goto(r, "failed")
    /\ UNCHANGED <<today, faults>>

\* A delete that fails is swallowed, and the row stays.
ReleaseError(r) ==
    /\ req[r].pc = "release"
    /\ Fault
    /\ Goto(r, "failed")
    /\ UNCHANGED <<usage, today>>

InFlight(r) == req[r].pc \in {"reserve", "operate", "release"}

\* The process dies: calls in flight are not answered, their rows stay.
Crash ==
    /\ Fault
    /\ req' = [r \in Requests |->
                 IF InFlight(r) THEN [req[r] EXCEPT !.pc = "lost"] ELSE req[r]]
    /\ UNCHANGED <<usage, today>>

Midnight ==
    /\ today < MaxDay
    /\ today' = today + 1
    /\ UNCHANGED <<usage, req, faults>>

Next ==
    \/ \E r \in Requests :
          \/ \E ip \in Ips : Arrive(r, ip)
          \/ Reserve(r) \/ Refuse(r) \/ ReserveError(r)
          \/ OperationOk(r) \/ OperationFail(r)
          \/ Release(r) \/ ReleaseError(r)
    \/ Crash
    \/ Midnight

Spec == Init /\ [][Next]_vars

-----------------------------------------------------------------------------
\* The calls a slot was given to.
Holds(r) == req[r].pc \in {"operate", "release", "ok"}

(***************************************************************************)
(* One free call per address and day: a call is only served while no other *)
(* call of its slot runs or was served.  A failing call deletes by key and *)
(* not by row, and still never frees a slot another call was given.        *)
(***************************************************************************)
OneFreeCallPerSlot ==
    \A r, s \in Requests : Holds(r) /\ Holds(s) /\ req[r].slot = req[s].slot => r = s

\* A call that runs or was served has its row: no other call deleted it.
HoldersHaveRows ==
    \A r \in Requests : Holds(r) => req[r].slot \in usage

(***************************************************************************)
(* A failed call does not cost the caller the free call of the day: unless *)
(* the database or the process failed, every row belongs to a call that is *)
(* running or was served.                                                  *)
(***************************************************************************)
FailureFreesSlot ==
    faults = 0 => \A slot \in usage : \E r \in Requests : Holds(r) /\ req[r].slot = slot

\* The table and the calls fit together in all three ways.
SlotsFitCalls == OneFreeCallPerSlot /\ HoldersHaveRows /\ FailureFreesSlot
=============================================================================
