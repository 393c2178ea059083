----------------------------- MODULE ImagesProofs -----------------------------
(***************************************************************************)
(* Proofs about the public image API: the free calls of a day              *)
(* (AnonymousQuota), the tasks made at Kling (KlingImages) and the         *)
(* predictions of Replicate (ReplicateImages), for any number of addresses *)
(* and calls, of tasks, themes, keys and faults.                           *)
(***************************************************************************)
EXTENDS AnonymousQuota, KlingImages, ReplicateImages, FiniteSetTheorems, TLAPS

-----------------------------------------------------------------------------
(* The free calls of a day.                                                *)

\* That calls of one slot exclude each other is inductive only with the fact
\* that the one which has the slot has its row, which keeps the others out.
IInv == TypeOK /\ OneFreeCallPerSlot /\ HoldersHaveRows /\ FailureFreesSlot

Records == [pc : PCs, slot : Slots]

\* No call has a slot at first.
LEMMA InitEstablishes == Init => IInv
  <1> SUFFICES ASSUME Init PROVE IInv
    OBVIOUS
  <1> DEFINE slot == [ip |-> CHOOSE i \in Ips : TRUE, day |-> 1]
  <1>1. slot \in Slots
    <2>1. (CHOOSE i \in Ips : TRUE) \in Ips
      BY QuotaAssumption
    <2> QED BY <2>1, QuotaAssumption DEF Slots
  <1>4. req = [r \in Requests |-> [pc |-> "free", slot |-> slot]]
    BY DEF Init
  <1> HIDE DEF slot
  <1>2. TypeOK
    <2>1. [pc |-> "free", slot |-> slot] \in [pc : PCs, slot : Slots]
      BY <1>1 DEF PCs
    <2>2. req \in [Requests -> [pc : PCs, slot : Slots]]
      BY <1>4, <2>1
    <2>3. usage \subseteq Slots /\ today \in 1..MaxDay /\ faults \in 0..MaxFaults
      BY QuotaAssumption DEF Init
    <2> QED BY <2>2, <2>3 DEF TypeOK
  <1>3. \A r \in Requests : req[r].pc = "free"
    BY DEF Init
  <1> QED BY <1>2, <1>3
          DEF Init, IInv, OneFreeCallPerSlot, HoldersHaveRows, FailureFreesSlot, Holds

\* A call that goes on without the table keeps the invariant: it keeps the
\* slot it has, or had none and gets none.
LEMMA GotoKeeps ==
    ASSUME IInv, NEW r \in Requests, NEW pc \in PCs,
           Goto(r, pc), UNCHANGED <<usage, today>>,
           faults' \in 0..MaxFaults, faults' = 0 => faults = 0,
           \/ req[r].pc \in {"operate", "release"} /\ pc \in {"operate", "release", "ok"}
           \/ req[r].pc = "reserve" /\ pc \in {"refused", "failed"}
           \/ req[r].pc = "release" /\ pc = "failed" /\ faults' # 0
    PROVE  IInv'
  <1>1. req \in [Requests -> Records] /\ req' = [req EXCEPT ![r].pc = pc]
    BY DEF IInv, TypeOK, Goto, Records
  <1>2. \A s \in Requests : req'[s].slot = req[s].slot /\ (s # r => req'[s] = req[s])
    BY <1>1 DEF Records
  <1>3. req'[r].pc = pc
    BY <1>1 DEF Records
  <1>4. \A s \in Requests : Holds(s)' => Holds(s)
    BY <1>2, <1>3 DEF Holds
  <1>5. TypeOK'
    BY <1>1 DEF IInv, TypeOK, Records
  <1>6. OneFreeCallPerSlot' /\ HoldersHaveRows'
    BY <1>2, <1>4 DEF IInv, OneFreeCallPerSlot, HoldersHaveRows
  <1>7. ASSUME faults' = 0 PROVE \A s \in Requests : Holds(s) => Holds(s)'
    BY <1>2, <1>3, <1>7 DEF Holds
  <1>8. FailureFreesSlot'
    BY <1>2, <1>7 DEF IInv, FailureFreesSlot
  <1> QED BY <1>5, <1>6, <1>8 DEF IInv

\* Every step keeps the invariant.
LEMMA NextKeeps == IInv /\ [Next]_vars => IInv'
  <1> SUFFICES ASSUME IInv, [Next]_vars PROVE IInv'
    OBVIOUS
  <1>1. /\ req \in [Requests -> Records] /\ usage \subseteq Slots
        /\ today \in 1..MaxDay /\ faults \in 0..MaxFaults
    BY DEF IInv, TypeOK, Records
  <1>2. ASSUME NEW r \in Requests, NEW ip \in Ips, Arrive(r, ip) PROVE IInv'
    <2> DEFINE new == [pc |-> "reserve", slot |-> [ip |-> ip, day |-> today]]
    <2>1. new \in Records /\ new.pc = "reserve"
      BY <1>1 DEF Records, Slots, PCs
    <2>2. req' = [req EXCEPT ![r] = new] /\ UNCHANGED <<usage, today, faults>>
      BY <1>2 DEF Arrive
    <2>3. req[r].pc = "free"
      BY <1>2 DEF Arrive
    <2> HIDE DEF new
    <2>4. TypeOK'
      BY <1>1, <2>1, <2>2 DEF TypeOK, Records
    <2>5. \A s \in Requests : s # r => req'[s] = req[s]
      BY <1>1, <2>2
    <2>6. ~Holds(r) /\ ~Holds(r)'
      BY <1>1, <2>1, <2>2, <2>3 DEF Holds
    <2> QED BY <2>2, <2>4, <2>5, <2>6
            DEF IInv, OneFreeCallPerSlot, HoldersHaveRows, FailureFreesSlot, Holds
  <1>3. ASSUME NEW r \in Requests, Reserve(r) PROVE IInv'
    <2>1. /\ req' = [req EXCEPT ![r].pc = "operate"]
          /\ usage' = usage \cup {req[r].slot}
          /\ UNCHANGED <<today, faults>>
          /\ req[r].slot \notin usage
      BY <1>3 DEF Reserve, Goto
    <2>2. TypeOK'
      BY <1>1, <2>1 DEF TypeOK, Records, PCs
    <2>3. /\ \A s \in Requests : s # r => req'[s] = req[s]
          /\ req'[r].slot = req[r].slot /\ req'[r].pc = "operate"
      BY <1>1, <2>1 DEF Records
    <2>4. \A s \in Requests \ {r} : Holds(s)' => Holds(s) /\ req'[s].slot # req[r].slot
      BY <2>1, <2>3 DEF IInv, HoldersHaveRows, Holds
    <2>5. OneFreeCallPerSlot'
      BY <2>3, <2>4 DEF IInv, OneFreeCallPerSlot
    <2>6. HoldersHaveRows'
      BY <2>1, <2>3, <2>4 DEF IInv, HoldersHaveRows
    <2>7. \A s \in Requests : Holds(s) => Holds(s)' /\ req'[s].slot = req[s].slot
      BY <2>3 DEF Holds
    <2>8. FailureFreesSlot'
      BY <2>1, <2>3, <2>7 DEF IInv, FailureFreesSlot, Holds
    <2> QED BY <2>2, <2>5, <2>6, <2>8 DEF IInv
  <1>4. ASSUME NEW r \in Requests, Refuse(r) PROVE IInv'
    BY <1>1, <1>4, GotoKeeps DEF Refuse, PCs
  <1>5. ASSUME NEW r \in Requests, ReserveError(r) PROVE IInv'
    <2>1. /\ req' = [req EXCEPT ![r].pc = "failed"]
          /\ usage \subseteq usage' /\ usage' \subseteq usage \cup {req[r].slot}
          /\ today' = today /\ faults' = faults + 1 /\ faults < MaxFaults
          /\ req[r].pc = "reserve"
      BY <1>5 DEF ReserveError, Goto, Fault
    <2>2. TypeOK'
      <3>1. faults' \in 0..MaxFaults
        BY <1>1, <2>1, QuotaAssumption
      <3>2. req' \in [Requests -> Records]
        BY <1>1, <2>1 DEF Records, PCs
      <3>3. usage' \subseteq Slots
        BY <1>1, <2>1 DEF Records
      <3> QED BY <1>1, <2>1, <3>1, <3>2, <3>3 DEF TypeOK, Records
    <2>3. \A s \in Requests : /\ req'[s].slot = req[s].slot
                              /\ Holds(s)' => Holds(s)
      BY <1>1, <2>1 DEF Records, Holds
    <2>4. faults' # 0
      BY <1>1, <2>1
    <2> QED BY <2>1, <2>2, <2>3, <2>4
            DEF IInv, OneFreeCallPerSlot, HoldersHaveRows, FailureFreesSlot
  <1>6. ASSUME NEW r \in Requests, OperationOk(r) PROVE IInv'
    BY <1>1, <1>6, GotoKeeps DEF OperationOk, PCs
  <1>7. ASSUME NEW r \in Requests, OperationFail(r) PROVE IInv'
    BY <1>1, <1>7, GotoKeeps DEF OperationFail, PCs
  <1>8. ASSUME NEW r \in Requests, Release(r) PROVE IInv'
    <2>1. /\ req' = [req EXCEPT ![r].pc = "failed"]
          /\ usage' = usage \ {req[r].slot}
          /\ UNCHANGED <<today, faults>>
          /\ req[r].pc = "release"
      BY <1>8 DEF Release, Goto
    <2>2. TypeOK'
      BY <1>1, <2>1 DEF TypeOK, Records, PCs
    <2>3. /\ \A s \in Requests : s # r => req'[s] = req[s]
          /\ \A s \in Requests : req'[s].slot = req[s].slot
          /\ ~Holds(r)' /\ Holds(r)
      BY <1>1, <2>1 DEF Records, Holds
    <2>4. \A s \in Requests : Holds(s)' => /\ Holds(s)
                                           /\ s # r
                                           /\ req[s].slot # req[r].slot
      BY <2>3 DEF IInv, OneFreeCallPerSlot, Holds
    <2>5. OneFreeCallPerSlot' /\ HoldersHaveRows'
      BY <2>1, <2>3, <2>4 DEF IInv, OneFreeCallPerSlot, HoldersHaveRows
    <2>6. FailureFreesSlot'
      <3> SUFFICES ASSUME faults = 0, NEW slot \in usage, slot # req[r].slot
                   PROVE  \E s \in Requests : Holds(s)' /\ req'[s].slot = slot
        BY <2>1 DEF FailureFreesSlot
      <3>1. PICK s \in Requests : Holds(s) /\ req[s].slot = slot
        BY DEF IInv, FailureFreesSlot
      <3>2. s # r
        BY <3>1
      <3> QED BY <2>3, <3>1, <3>2 DEF Holds
    <2> QED BY <2>2, <2>5, <2>6 DEF IInv
  <1>9. ASSUME NEW r \in Requests, ReleaseError(r) PROVE IInv'
    <2>1. faults' \in 0..MaxFaults /\ faults' # 0
      BY <1>1, <1>9, QuotaAssumption DEF ReleaseError, Fault
    <2> QED BY <1>9, <2>1, GotoKeeps DEF ReleaseError, PCs
  <1>10. ASSUME Crash PROVE IInv'
    <2>1. faults' \in 0..MaxFaults /\ faults' # 0
      BY <1>1, <1>10, QuotaAssumption DEF Crash, Fault
    <2>2. /\ req' = [r \in Requests |->
                       IF InFlight(r) THEN [req[r] EXCEPT !.pc = "lost"] ELSE req[r]]
          /\ UNCHANGED <<usage, today>>
      BY <1>10 DEF Crash
    <2>3. TypeOK'
      BY <1>1, <2>1, <2>2 DEF TypeOK, Records, PCs
    <2>4. \A r \in Requests : /\ req'[r].slot = req[r].slot
                              /\ Holds(r)' => Holds(r)
      BY <1>1, <2>2 DEF Records, Holds
    <2> QED BY <2>1, <2>2, <2>3, <2>4
            DEF IInv, OneFreeCallPerSlot, HoldersHaveRows, FailureFreesSlot
  <1>11. ASSUME Midnight PROVE IInv'
    <2>1. TypeOK'
      BY <1>1, <1>11, QuotaAssumption DEF Midnight, TypeOK, Records
    <2> QED BY <1>11, <2>1
            DEF Midnight, IInv, OneFreeCallPerSlot, HoldersHaveRows, FailureFreesSlot, Holds
  <1>12. ASSUME UNCHANGED vars PROVE IInv'
    BY <1>12 DEF vars, IInv, TypeOK, OneFreeCallPerSlot, HoldersHaveRows,
                 FailureFreesSlot, Holds
  <1> QED BY <1>2, <1>3, <1>4, <1>5, <1>6, <1>7, <1>8, <1>9, <1>10, <1>11, <1>12 DEF Next

\* The strengthened invariant holds in every reachable state.
THEOREM InvariantHolds == Spec => []IInv
  BY InitEstablishes, NextKeeps, PTL DEF Spec

\* Rows and calls have their types.
THEOREM TypeCorrect == Spec => []TypeOK
  BY InvariantHolds, PTL DEF IInv

\* However many calls of one address overlap, fail or are lost in a crash,
\* at most one of a day runs or was served.
THEOREM OneFreeCall == Spec => []OneFreeCallPerSlot
  BY InvariantHolds, PTL DEF IInv

\* The deletion by key never takes the row of another call.
THEOREM RowsStayWithHolders == Spec => []HoldersHaveRows
  BY InvariantHolds, PTL DEF IInv

\* Without faults, a slot is only taken by a call that runs or was served.
THEOREM FailuresAreFree == Spec => []FailureFreesSlot
  BY InvariantHolds, PTL DEF IInv

\* The three together: the rows of the quota fit the calls they stand for.
THEOREM SlotsFit == Spec => []SlotsFitCalls
  BY OneFreeCall, RowsStayWithHolders, FailuresAreFree, PTL DEF SlotsFitCalls

-----------------------------------------------------------------------------
(* The services that wait for predictions.                                 *)
PredStates == Outcomes \cup {"running"}
Preds == UNION {[1..n -> PredStates] : n \in 0..4}

Runs == [pc : {"idle", "settings", "token", "detect", "start", "wait", "ok", "failed"},
         ask : RepAsks, token : BOOLEAN, model : Models \cup {"auto", "none"},
         preds : Preds, urls : SUBSET (1..4)]

\* There are predictions exactly from their start on, a call that fails before
\* has no token yet or no picture, and one that is over answered what its predictions made.
RunOK(r) ==
    /\ r.pc \in {"idle", "settings", "token", "detect", "start"} => r.preds = <<>>
    /\ r.pc \in {"wait", "ok"} => r.preds # <<>>
    /\ r.pc \in {"idle", "settings", "token"} => ~r.token
    /\ r.pc = "failed" /\ r.preds = <<>> =>
          ~r.token \/ ~r.ask.image \/ r.ask.service = "cutout"
    /\ r.pc = "failed" /\ r.preds # <<>> => MadeImages(r.preds) = {}
    /\ r.pc = "ok" => /\ r.urls = MadeImages(r.preds)
                      /\ r.urls # {} \/ r.ask.service = "cutout"

RepIInv ==
    /\ run \in [RepCalls -> Runs]
    /\ integration \in [enabled : BOOLEAN, token : BOOLEAN]
    /\ \A c \in RepCalls : RunOK(run[c])

LEMMA SomeOutputs ==
  ASSUME NEW ask \in RepAsks
  PROVE  Outputs(ask) \in 1..4
  <1>1. ask.outputs \in {1, 2, 4}
    BY DEF RepAsks
  <1>2. Max({ask.outputs, 1}) = ask.outputs
    BY <1>1 DEF Max
  <1>3. Min({ask.outputs, 4}) = ask.outputs
    BY <1>1 DEF Min
  <1> QED BY <1>1, <1>2, <1>3 DEF Outputs

LEMMA NoPreds == <<>> \in Preds /\ DOMAIN <<>> = {}
  <1>1. <<>> \in [1..0 -> PredStates]
    OBVIOUS
  <1> QED BY <1>1 DEF Preds

LEMMA RepInitOK == RepInit => RepIInv
  <1> SUFFICES ASSUME RepInit PROVE RepIInv
    OBVIOUS
  <1>1. [service |-> "colorize", outputs |-> 1, type |-> "none", image |-> TRUE] \in RepAsks
    BY DEF RepAsks
  <1>2. Unasked \in Runs
    BY <1>1, NoPreds DEF Unasked, Runs
  <1>3. RunOK(Unasked)
    BY DEF RunOK, Unasked
  <1>4. run = [c \in RepCalls |-> Unasked]
    BY DEF RepInit
  <1>5. integration \in [enabled : BOOLEAN, token : BOOLEAN]
    BY DEF RepInit
  <1> QED BY <1>2, <1>3, <1>4, <1>5 DEF RepIInv

\* A call moves on.
LEMMA RepMoves ==
  ASSUME RepIInv, NEW c \in RepCalls, NEW r \in Runs, RunOK(r), run' = [run EXCEPT ![c] = r],
         integration' = integration
  PROVE  RepIInv'
  <1>1. \A d \in RepCalls : run'[d] = IF d = c THEN r ELSE run[d]
    BY DEF RepIInv
  <1>2. run' \in [RepCalls -> Runs]
    BY DEF RepIInv
  <1>3. \A d \in RepCalls : RunOK(run'[d])
    BY <1>1 DEF RepIInv
  <1> QED BY <1>2, <1>3 DEF RepIInv

LEMMA RepSteps ==
  ASSUME RepIInv, NEW c \in RepCalls,
         \/ \E ask \in RepAsks : Request(c, ask)
         \/ RepStep(c)
         \/ \E k \in DOMAIN run[c].preds, o \in Outcomes : EndPrediction(c, k, o)
  PROVE  RepIInv'
  <1> PICK r : r = run[c]
    OBVIOUS
  <1>1. r \in Runs /\ RunOK(r) /\ integration \in [enabled : BOOLEAN, token : BOOLEAN]
    BY DEF RepIInv
  <1>2. \A pc \in {"idle", "settings", "token", "detect", "start", "wait", "ok", "failed"} :
           [r EXCEPT !.pc = pc] \in Runs
    BY <1>1 DEF Runs
  <1>3. ASSUME NEW ask \in RepAsks, Request(c, ask) PROVE RepIInv'
    <2>1. PICK new : new = [r EXCEPT !.pc = "settings", !.ask = ask]
      OBVIOUS
    <2>2. run' = [run EXCEPT ![c] = new] /\ integration' = integration /\ r.pc = "idle"
      BY <1>3, <2>1 DEF Request
    <2>3. new \in Runs
      BY <1>1, <2>1, Zenon DEF Runs
    <2>4. new.pc = "settings" /\ new.preds = r.preds /\ new.token = r.token
      BY <1>1, <2>1 DEF Runs
    <2>5. RunOK(new)
      BY <1>1, <2>2, <2>4 DEF RunOK
    <2> QED BY <2>2, <2>3, <2>5, RepMoves
  <1>4. CASE AssertReady(c)
    <2>1. PICK pc \in {"token", "failed"} : /\ run' = [run EXCEPT ![c] = [r EXCEPT !.pc = pc]]
                                            /\ integration' = integration /\ r.pc = "settings"
      BY <1>4 DEF AssertReady, RepMove, RepFailed
    <2>2. PICK new : new = [r EXCEPT !.pc = pc]
      OBVIOUS
    <2>3. new \in Runs
      BY <1>2, <2>2
    <2>4. new.pc = pc /\ new.preds = r.preds /\ new.token = r.token
      BY <1>1, <2>2 DEF Runs
    <2>5. RunOK(new)
      BY <1>1, <2>1, <2>4 DEF RunOK
    <2> QED BY <2>1, <2>2, <2>3, <2>5, RepMoves
  <1>5. CASE ReadToken(c)
    <2>1. PICK pc \in {"detect", "start", "failed"}, model \in Models \cup {"auto", "none"} :
             /\ run' = [run EXCEPT ![c] = [r EXCEPT !.pc = pc, !.token = integration.token,
                                                    !.model = model]]
             /\ integration' = integration /\ r.pc = "token"
             /\ pc = "failed" => ~r.ask.image
      <3>1. r.ask.type \in Models \cup {"auto", "none"}
        BY <1>1 DEF Runs, RepAsks
      <3> QED BY <1>5, <3>1 DEF ReadToken, RepMove, AfterToken
    <2>2. PICK t \in BOOLEAN : t = integration.token
      BY <1>1
    <2>3. PICK new : new = [r EXCEPT !.pc = pc, !.token = t, !.model = model]
      OBVIOUS
    <2>4. new \in Runs
      BY <1>1, <2>3, Zenon DEF Runs
    <2>5. new.pc = pc /\ new.preds = r.preds /\ new.ask = r.ask
      BY <1>1, <2>3 DEF Runs
    <2>6. RunOK(new)
      BY <1>1, <2>1, <2>5 DEF RunOK
    <2> QED BY <2>1, <2>2, <2>3, <2>4, <2>6, RepMoves
  <1>6. CASE ReadCutout(c)
    <2>1. /\ integration' = integration /\ r.pc = "settings" /\ r.ask.service = "cutout"
          /\ \/ run' = [run EXCEPT ![c] = [r EXCEPT !.pc = "failed"]]
             \/ run' = [run EXCEPT ![c] = [r EXCEPT !.pc = "start", !.token = TRUE]]
      BY <1>6 DEF ReadCutout, RepMove, RepFailed
    <2>2. CASE run' = [run EXCEPT ![c] = [r EXCEPT !.pc = "failed"]]
      <3>1. PICK new : new = [r EXCEPT !.pc = "failed"]
        OBVIOUS
      <3>2. new \in Runs
        BY <1>2, <3>1
      <3>3. /\ new.pc = "failed" /\ new.preds = r.preds /\ new.token = r.token
            /\ new.ask = r.ask
        BY <1>1, <3>1 DEF Runs
      <3>4. RunOK(new)
        BY <1>1, <2>1, <3>3 DEF RunOK
      <3> QED BY <2>1, <2>2, <3>1, <3>2, <3>4, RepMoves
    <2>3. CASE run' = [run EXCEPT ![c] = [r EXCEPT !.pc = "start", !.token = TRUE]]
      <3>1. PICK new : new = [r EXCEPT !.pc = "start", !.token = TRUE]
        OBVIOUS
      <3>2. new \in Runs
        BY <1>1, <3>1, Zenon DEF Runs
      <3>3. new.pc = "start" /\ new.preds = r.preds
        BY <1>1, <3>1 DEF Runs
      <3>4. RunOK(new)
        BY <1>1, <2>1, <3>3 DEF RunOK
      <3> QED BY <2>1, <2>3, <3>1, <3>2, <3>4, RepMoves
    <2> QED BY <2>1, <2>2, <2>3
  <1>7. CASE Detect(c)
    <2>1. PICK m \in Models : /\ run' = [run EXCEPT ![c] = [r EXCEPT !.pc = "start", !.model = m]]
                              /\ integration' = integration /\ r.pc = "detect"
      BY <1>7 DEF Detect, RepMove
    <2>2. PICK new : new = [r EXCEPT !.pc = "start", !.model = m]
      OBVIOUS
    <2>3. new \in Runs
      BY <1>1, <2>2, Zenon DEF Runs
    <2>4. new.pc = "start" /\ new.preds = r.preds
      BY <1>1, <2>2 DEF Runs
    <2>5. RunOK(new)
      BY <1>1, <2>1, <2>4 DEF RunOK
    <2> QED BY <2>1, <2>2, <2>3, <2>5, RepMoves
  <1>8. CASE StartPredictions(c)
    <2>1. PICK preds : preds = [k \in 1..Outputs(r.ask) |-> IF r.token THEN "running" ELSE "error"]
      OBVIOUS
    <2>2. /\ run' = [run EXCEPT ![c] = [r EXCEPT !.pc = "wait", !.preds = preds]]
          /\ integration' = integration /\ r.pc = "start"
      BY <1>8, <2>1 DEF StartPredictions, RepMove
    <2>3. PICK n \in 1..4 : n = Outputs(r.ask)
      BY <1>1, SomeOutputs DEF Runs
    <2>4. preds \in [1..n -> PredStates]
      BY <2>1, <2>3 DEF PredStates, Outcomes
    <2>5. preds \in Preds /\ preds # <<>>
      <3>1. 1 \in DOMAIN preds
        BY <2>4
      <3> QED BY <2>4, <3>1, NoPreds DEF Preds
    <2>6. PICK new : new = [r EXCEPT !.pc = "wait", !.preds = preds]
      OBVIOUS
    <2>7. new \in Runs
      BY <1>1, <2>5, <2>6, Zenon DEF Runs
    <2>8. new.pc = "wait" /\ new.preds = preds
      BY <1>1, <2>6 DEF Runs
    <2>9. RunOK(new)
      BY <2>5, <2>8 DEF RunOK
    <2> QED BY <2>2, <2>6, <2>7, <2>9, RepMoves
  <1>9. CASE FinishCall(c)
    <2>1. PICK urls : urls = MadeImages(r.preds)
      OBVIOUS
    <2>2. PICK pc \in {"ok", "failed"} :
             /\ run' = [run EXCEPT ![c] = [r EXCEPT !.pc = pc, !.urls = urls]]
             /\ integration' = integration /\ r.pc = "wait"
             /\ pc = "ok" => urls # {} \/ r.ask.service = "cutout"
             /\ pc = "failed" => urls = {}
      BY <1>9, <2>1 DEF FinishCall, RepMove, RepAnswer
    <2>3. urls \in SUBSET (1..4)
      <3>1. r.preds \in Preds
        BY <1>1 DEF Runs
      <3> QED BY <2>1, <3>1 DEF Preds, MadeImages
    <2>4. PICK new : new = [r EXCEPT !.pc = pc, !.urls = urls]
      OBVIOUS
    <2>5. new \in Runs
      BY <1>1, <2>3, <2>4, Zenon DEF Runs
    <2>6. new.pc = pc /\ new.preds = r.preds /\ new.urls = urls /\ new.ask = r.ask
      BY <1>1, <2>4 DEF Runs
    <2>7. RunOK(new)
      BY <1>1, <2>1, <2>2, <2>6 DEF RunOK
    <2> QED BY <2>2, <2>4, <2>5, <2>7, RepMoves
  <1>10. ASSUME NEW k \in DOMAIN r.preds, NEW o \in Outcomes, EndPrediction(c, k, o)
         PROVE  RepIInv'
    <2>1. PICK preds : preds = [r.preds EXCEPT ![k] = o]
      OBVIOUS
    <2>2. PICK n \in 0..4 : r.preds \in [1..n -> PredStates]
      BY <1>1 DEF Runs, Preds
    <2>3. preds \in [1..n -> PredStates] /\ DOMAIN preds = DOMAIN r.preds
      BY <2>1, <2>2 DEF PredStates
    <2>4. preds \in Preds /\ preds # <<>>
      BY <2>3, NoPreds DEF Preds
    <2>5. PICK new : new = [r EXCEPT !.preds = preds]
      OBVIOUS
    <2>6. run' = [run EXCEPT ![c] = new] /\ integration' = integration /\ r.pc = "wait"
      BY <1>10, <2>1, <2>5 DEF EndPrediction
    <2>7. new \in Runs
      BY <1>1, <2>4, <2>5, Zenon DEF Runs
    <2>8. new.pc = "wait" /\ new.preds = preds
      BY <1>1, <2>5, <2>6 DEF Runs
    <2>9. RunOK(new)
      BY <2>4, <2>8 DEF RunOK
    <2> QED BY <2>6, <2>7, <2>9, RepMoves
  <1> QED BY <1>3, <1>4, <1>5, <1>6, <1>7, <1>8, <1>9, <1>10 DEF RepStep

LEMMA RepNextOK == RepIInv /\ [RepNext]_repVars => RepIInv'
  <1> SUFFICES ASSUME RepIInv, [RepNext]_repVars PROVE RepIInv'
    OBVIOUS
  <1>1. ASSUME NEW new \in [enabled : BOOLEAN, token : BOOLEAN], PatchReplicate(new)
        PROVE  RepIInv'
    BY <1>1 DEF PatchReplicate, RepIInv
  <1>2. CASE UNCHANGED repVars
    BY <1>2 DEF repVars, RepIInv
  <1> QED BY <1>1, <1>2, RepSteps DEF RepNext

LEMMA RepInvariant == RepSpec => []RepIInv
  <1> QED BY RepInitOK, RepNextOK, PTL DEF RepSpec

(***************************************************************************)
(* A call of Replicate is answered well exactly when one of its            *)
(* predictions made an image, and fails without predictions only for want  *)
(* of a token or a picture (ReplicateService), for any number of calls     *)
(* that run at once and however the predictions end and the settings are   *)
(* switched.                                                               *)
(***************************************************************************)
THEOREM OutcomesFit == RepSpec => []OutcomeFitsImages
  <1>1. RepIInv => OutcomeFitsImages
    <2> SUFFICES ASSUME RepIInv PROVE OutcomeFitsImages
      OBVIOUS
    <2>1. \A c \in RepCalls : RunOK(run[c])
      BY DEF RepIInv
    <2>2. SuccessHasImage
      BY <2>1 DEF RunOK, SuccessHasImage, MadeImages
    <2>3. NothingMadeIsLost /\ DetectionNeverFails
      BY <2>1 DEF RunOK, NothingMadeIsLost, DetectionNeverFails
    <2> QED BY <2>2, <2>3 DEF OutcomeFitsImages
  <1> QED BY <1>1, RepInvariant, PTL

-----------------------------------------------------------------------------
(* The service that makes tasks at Kling.                                  *)
Names == Modes \X Ids
Encoded == {Encode(x[1], x[2]) : x \in Names}

Busy == {"model", "settings", "create", "poll"}

Gens == [pc : Busy \cup {"idle", "query", "ok", "failed", "told"}, wish : Wishes, item : 1..4,
         key : AccessKeys \cup {"none"}, ticket : Encoded \cup {<<>>}, polls : 0..PollMax,
         got : Seq(Encoded \cup Names), sent : SUBSET [key : AccessKeys, age : Int]]

Tasks == [state : {"none", "running"} \cup Settled, by : KlingCalls \cup {NoCall}, item : 0..4]

MadeIn(tasks, c) == {x \in Names : tasks[x].by = c}

\* The result names the task that call c made for item k.
Own(tasks, c, t, k) ==
    TaskOf(t) \in Names /\ tasks[TaskOf(t)].by = c /\ tasks[TaskOf(t)].item = k

\* A call has made a task for every item it is done with, and for the one it
\* polls; its results are those tasks', in the order of the items.
GenOK(g, c, tasks) ==
    /\ g \in Gens
    /\ g.pc \in {"idle", "query", "told"} => MadeIn(tasks, c) = {}
    /\ g.pc = "idle" => g.item = 1 /\ g.got = <<>>
    /\ g.pc \in Busy => Items(g.wish) \in 1..4 /\ g.item <= Items(g.wish) /\ Len(g.got) = g.item - 1
    /\ g.pc \in {"model", "settings", "create"} => Cardinality(MadeIn(tasks, c)) = g.item - 1
    /\ g.pc = "poll" => /\ Cardinality(MadeIn(tasks, c)) = g.item
                        /\ \E i \in Ids : /\ g.ticket = Encode(ModeOf(g.wish), i)
                                          /\ tasks[<<ModeOf(g.wish), i>>].by = c
                                          /\ tasks[<<ModeOf(g.wish), i>>].item = g.item
    /\ g.pc = "ok" => Cardinality(MadeIn(tasks, c)) = Items(g.wish)
    /\ g.pc = "failed" => Cardinality(MadeIn(tasks, c)) <= Items(g.wish)
    /\ g.pc \in Busy \cup {"ok"} => \A k \in DOMAIN g.got : Own(tasks, c, g.got[k], k)
    /\ g.pc = "query" => g.ticket \in Encoded
    /\ g.pc = "told" => g.got = <<TaskOf(g.ticket)>>
    /\ g.pc \in {"create", "poll", "query"} => g.key \in AccessKeys
    /\ \A s \in g.sent : s.key = g.key /\ s.age < Validity

\* The tasks of a kind are numbered without gaps.
TasksOK ==
    /\ task \in [Names -> Tasks]
    /\ \A x \in Names : task[x].state = "none" => task[x].by = NoCall
    /\ \A m \in Modes : \E n \in 0..IdMax :
          \A i \in Ids : task[<<m, i>>].state # "none" <=> i <= n

CacheOK ==
    /\ settings \in [enabled : BOOLEAN, key : AccessKeys \cup {"none"}]
    /\ clock \in 0..MaxClock
    /\ cache = {} \/ \E t \in [key : AccessKeys, made : 0..MaxClock] : cache = {t} /\ t.made <= clock

GensOK ==
    /\ gen = [c \in KlingCalls |-> gen[c]]
    /\ \A c \in KlingCalls : GenOK(gen[c], c, task)

KlingIInv == TasksOK /\ CacheOK /\ GensOK

LEMMA Counted ==
  ASSUME NEW wish \in Wishes
  PROVE  /\ Items(wish) \in Nat /\ Charge(wish) \in Nat
         /\ wish.themes # <<>> => Items(wish) = Charge(wish)
         /\ ModeOf(wish) \in Modes
  <1>1. wish.themes \in Seq(Themes \cup {Blank})
    BY WishAssumption
  <1>2. PICK n \in Nat : n = Len(wish.themes) /\ DOMAIN wish.themes = 1..n
    BY <1>1
  <1>3. IsFiniteSet(1..n)
    BY FS_Interval
  <1>4. wish.themes \in Surjection(1..n, Range(wish.themes))
    <2>1. wish.themes = [k \in 1..n |-> wish.themes[k]]
      BY <1>1, <1>2
    <2> QED BY <1>2, <2>1 DEF Surjection, Range
  <1>5. IsFiniteSet(Range(wish.themes))
    BY <1>3, <1>4, FS_Surjection
  <1>6. Cardinality(Dedupe(wish.themes)) \in Nat
    BY <1>5, FS_Subset, FS_CardinalityType DEF Dedupe
  <1> QED BY <1>6 DEF Items, Charge, ModeOf, Modes

LEMMA CodesRead ==
  ASSUME NEW m \in Modes, NEW i \in Ids
  PROVE  /\ <<m, i>> \in Names /\ Encode(m, i) \in Encoded
         /\ TaskOf(Encode(m, i)) = <<m, i>> /\ TaskOf(<<m, i>>) = <<m, i>>
         /\ Decode(Encode(m, i)) = <<m, i>>
         /\ Last(Encode(m, i)) = i
  <1>1. <<m, i>> \in Names /\ <<m, i>>[1] = m /\ <<m, i>>[2] = i
    BY DEF Names
  <1>2. Encode(m, i) \in Encoded
    <2>1. Encode(<<m, i>>[1], <<m, i>>[2]) \in Encoded
      BY <1>1 DEF Encoded
    <2> QED BY <1>1, <2>1
  <1>3. PICK t : t = <<m, ":", i>>
    OBVIOUS
  <1>4. Len(t) = 3 /\ t[1] = m /\ t[3] = i
    BY <1>3
  <1>5. TaskOf(t) = <<m, i>> /\ Last(t) = i
    BY <1>4 DEF TaskOf, Last
  <1>6. Decode(t) = <<m, i>>
    BY <1>4, <1>5 DEF Decode, Modes
  <1>7. TaskOf(<<m, i>>) = <<m, i>>
    BY DEF TaskOf
  <1> QED BY <1>1, <1>2, <1>3, <1>5, <1>6, <1>7 DEF Encode

LEMMA EncodedRead ==
  ASSUME NEW t \in Encoded
  PROVE  TaskOf(t) \in Names /\ Decode(t) = TaskOf(t)
  <1>1. PICK x \in Names : t = Encode(x[1], x[2])
    BY DEF Encoded
  <1>2. x[1] \in Modes /\ x[2] \in Ids
    BY DEF Names
  <1> QED BY <1>1, <1>2, CodesRead

LEMMA NamesAreFinite ==
  ASSUME NEW tasks, NEW c
  PROVE  IsFiniteSet(MadeIn(tasks, c)) /\ Cardinality(MadeIn(tasks, c)) \in Nat
  <1>1. IsFiniteSet(Ids) /\ IsFiniteSet(Modes)
    <2>1. IsFiniteSet(1..IdMax)
      BY KlingAssumption, FS_Interval
    <2>2. IsFiniteSet({"gen"}) /\ IsFiniteSet({"mi2i"})
      BY FS_Singleton
    <2>3. IsFiniteSet({"gen"} \cup {"mi2i"})
      BY <2>2, FS_Union
    <2>4. Modes = {"gen"} \cup {"mi2i"}
      BY DEF Modes
    <2> QED BY <2>1, <2>3, <2>4 DEF Ids
  <1>2. IsFiniteSet(Names)
    BY <1>1, FS_Product DEF Names
  <1>3. MadeIn(tasks, c) \subseteq Names
    BY DEF MadeIn
  <1> QED BY <1>2, <1>3, FS_Subset, FS_CardinalityType

\* The next number of a kind is free.
LEMMA NextIsFree ==
  ASSUME TasksOK, NEW m \in Modes, NextId(m) \in Ids
  PROVE  /\ task[<<m, NextId(m)>>].state = "none"
         /\ task[<<m, NextId(m)>>].by = NoCall
         /\ NextId(m) \in 1..IdMax
         /\ \A i \in Ids : task[<<m, i>>].state # "none" <=> i <= NextId(m) - 1
  <1>1. PICK n \in 0..IdMax : \A i \in Ids : task[<<m, i>>].state # "none" <=> i <= n
    BY DEF TasksOK
  <1>2. IdMax \in Nat /\ n \in Nat /\ n <= IdMax
    BY KlingAssumption
  <1>3. {i \in Ids : task[<<m, i>>].state # "none"} = 1..n
    BY <1>1, <1>2 DEF Ids
  <1>4. Cardinality(1..n) = n
    BY <1>2, FS_Interval
  <1>5. NextId(m) = 1 + n
    BY <1>3, <1>4 DEF NextId
  <1>6. task[<<m, NextId(m)>>].state = "none"
    BY <1>1, <1>2, <1>5
  <1>7. <<m, NextId(m)>> \in Names
    BY DEF Names
  <1> QED BY <1>1, <1>2, <1>5, <1>6, <1>7 DEF TasksOK, Ids

-----------------------------------------------------------------------------
\* What a call has made, and what it knows of it, does not depend on the others.
LEMMA GenStays ==
  ASSUME NEW tasks, NEW later, NEW g, NEW c,
         GenOK(g, c, tasks), MadeIn(later, c) = MadeIn(tasks, c),
         \A x \in Names : tasks[x].by = c => later[x].item = tasks[x].item
  PROVE  GenOK(g, c, later)
  <1>1. \A x \in Names : tasks[x].by = c => later[x].by = c
    BY DEF MadeIn
  <1>2. ASSUME NEW t, NEW k, Own(tasks, c, t, k) PROVE Own(later, c, t, k)
    BY <1>1, <1>2 DEF Own
  <1>3. g.pc = "poll" => \E i \in Ids : /\ g.ticket = Encode(ModeOf(g.wish), i)
                                        /\ later[<<ModeOf(g.wish), i>>].by = c
                                        /\ later[<<ModeOf(g.wish), i>>].item = g.item
    <2> SUFFICES ASSUME g.pc = "poll" PROVE \E i \in Ids : /\ g.ticket = Encode(ModeOf(g.wish), i)
                                                           /\ later[<<ModeOf(g.wish), i>>].by = c
                                                           /\ later[<<ModeOf(g.wish), i>>].item = g.item
      OBVIOUS
    <2>1. PICK i \in Ids : /\ g.ticket = Encode(ModeOf(g.wish), i)
                           /\ tasks[<<ModeOf(g.wish), i>>].by = c
                           /\ tasks[<<ModeOf(g.wish), i>>].item = g.item
      BY DEF GenOK
    <2>2. ModeOf(g.wish) \in Modes
      BY DEF ModeOf, Modes
    <2>3. <<ModeOf(g.wish), i>> \in Names
      BY <2>2 DEF Names
    <2> QED BY <1>1, <2>1, <2>3
  <1>4. g.pc \in Busy \cup {"ok"} => \A k \in DOMAIN g.got : Own(later, c, g.got[k], k)
    BY <1>2 DEF GenOK
  <1> QED BY <1>3, <1>4 DEF GenOK

\* A call moves on, and the tasks stay.
LEMMA GenMoves ==
  ASSUME KlingIInv, NEW c \in KlingCalls, NEW g, GenOK(g, c, task),
         gen' = [gen EXCEPT ![c] = g], task' = task
  PROVE  GensOK' /\ TasksOK'
  <1>1. \A d \in KlingCalls : gen'[d] = IF d = c THEN g ELSE gen[d]
    BY DEF KlingIInv, GensOK
  <1>2. gen' = [d \in KlingCalls |-> gen'[d]]
    BY DEF KlingIInv, GensOK
  <1>3. \A d \in KlingCalls : GenOK(gen'[d], d, task')
    BY <1>1 DEF KlingIInv, GensOK
  <1> QED BY <1>2, <1>3 DEF KlingIInv, GensOK, TasksOK

\* The token a request is signed with, and what is left in the cache.
LEMMA TokenFits ==
  ASSUME CacheOK, NEW key \in AccessKeys
  PROVE  /\ GetBearer(key) \in [key : AccessKeys, made : 0..MaxClock]
         /\ GetBearer(key).key = key
         /\ GetBearer(key).made <= clock /\ clock - GetBearer(key).made < Validity
  <1> PICK fit : fit = {t \in cache : t.key = key /\ clock < t.made + Refresh}
    OBVIOUS
  <1>1. /\ Refresh \in Nat /\ Validity \in Nat /\ Refresh < Validity /\ Validity > 0
        /\ clock \in 0..MaxClock /\ MaxClock \in Nat
    BY KlingAssumption DEF CacheOK
  <1>2. CASE fit = {}
    <2>1. PICK new : new = [key |-> key, made |-> clock]
      OBVIOUS
    <2>2. GetBearer(key) = new
      BY <1>2, <2>1 DEF GetBearer
    <2> QED BY <1>1, <2>1, <2>2
  <1>3. CASE fit # {}
    <2>1. PICK t : t = GetBearer(key) /\ t \in fit
      BY <1>3 DEF GetBearer
    <2>2. t \in [key : AccessKeys, made : 0..MaxClock] /\ t.made <= clock
      BY <2>1 DEF CacheOK
    <2> QED BY <1>1, <2>1, <2>2
  <1> QED BY <1>2, <1>3

Same(g, r) ==
    /\ g.pc = r.pc /\ g.wish = r.wish /\ g.item = r.item /\ g.key = r.key
    /\ g.ticket = r.ticket /\ g.polls = r.polls /\ g.got = r.got

LEMMA SendsWell ==
  ASSUME CacheOK, NEW c \in KlingCalls, gen[c].key \in AccessKeys,
         NEW r \in Gens, r.key = gen[c].key, Send(c, r), clock' = clock, settings' = settings
  PROVE  /\ CacheOK'
         /\ \E g \in Gens : /\ gen' = [gen EXCEPT ![c] = g] /\ Same(g, r)
                            /\ \A s \in g.sent : s.key = g.key /\ s.age < Validity
  <1> PICK token : token = GetBearer(gen[c].key)
    OBVIOUS
  <1>1. /\ token \in [key : AccessKeys, made : 0..MaxClock] /\ token.key = gen[c].key
        /\ token.made <= clock /\ clock - token.made < Validity
    BY TokenFits
  <1>2. cache' = {token}
    BY DEF Send
  <1>3. CacheOK'
    BY <1>1, <1>2 DEF CacheOK
  <1>4. PICK s : s = [key |-> token.key, age |-> clock - token.made]
    OBVIOUS
  <1>5. s \in [key : AccessKeys, age : Int] /\ s.key = r.key /\ s.age < Validity
    <2>1. clock \in Int /\ token.made \in Int
      BY <1>1 DEF CacheOK
    <2> QED BY <1>1, <1>4, <2>1
  <1>6. PICK g : g = [r EXCEPT !.sent = {s}]
    OBVIOUS
  <1>7. gen' = [gen EXCEPT ![c] = g]
    BY <1>4, <1>6 DEF Send
  <1>8. g \in Gens
    <2>1. {s} \in SUBSET [key : AccessKeys, age : Int]
      BY <1>5
    <2> QED BY <1>6, <2>1, Zenon DEF Gens
  <1>9. Same(g, r) /\ g.sent = {s}
    BY <1>6 DEF Same, Gens
  <1>10. \A x \in g.sent : x.key = g.key /\ x.age < Validity
    BY <1>5, <1>9 DEF Same
  <1> QED BY <1>3, <1>7, <1>8, <1>9, <1>10

\* The next task of kind m is created, by call c for item k.
Makes(c, m, k) ==
    /\ NextId(m) \in Ids
    /\ task' = [task EXCEPT ![<<m, NextId(m)>>] = [state |-> "running", by |-> c, item |-> k]]

\* It is the call's own, and one more.
LEMMA TaskIsMade ==
  ASSUME TasksOK, NEW c \in KlingCalls, NEW m \in Modes, NEW k \in 1..4, Makes(c, m, k)
  PROVE  /\ TasksOK'
         /\ task'[<<m, NextId(m)>>].by = c /\ task'[<<m, NextId(m)>>].item = k
         /\ Cardinality(MadeIn(task', c)) = Cardinality(MadeIn(task, c)) + 1
         /\ \A d \in KlingCalls : d # c => MadeIn(task', d) = MadeIn(task, d)
         /\ \A x \in Names : task[x].by \in KlingCalls => task'[x] = task[x]
  <1> PICK i \in Ids : i = NextId(m)
    BY DEF Makes
  <1> PICK x : x = <<m, i>>
    OBVIOUS
  <1> PICK new : new = [state |-> "running", by |-> c, item |-> k]
    OBVIOUS
  <1>1. x \in Names /\ new \in Tasks /\ new.by = c /\ new.item = k /\ new.state = "running"
    BY DEF Names, Tasks
  <1>2. task' = [task EXCEPT ![x] = new]
    BY DEF Makes
  <1>3. /\ task' \in [Names -> Tasks] /\ task'[x] = new
        /\ \A y \in Names : y # x => task'[y] = task[y]
    BY <1>1, <1>2 DEF TasksOK
  <1>4. /\ task[x].state = "none" /\ task[x].by = NoCall /\ NoCall \notin KlingCalls
        /\ i \in 1..IdMax /\ IdMax \in Nat
        /\ \A j \in Ids : task[<<m, j>>].state # "none" <=> j <= i - 1
    BY NextIsFree, KlingAssumption
  <1>5. MadeIn(task', c) = MadeIn(task, c) \cup {x} /\ x \notin MadeIn(task, c)
    BY <1>1, <1>3, <1>4 DEF MadeIn
  <1>6. Cardinality(MadeIn(task', c)) = Cardinality(MadeIn(task, c)) + 1
    BY <1>5, NamesAreFinite, FS_AddElement
  <1>7. \A d \in KlingCalls : d # c => MadeIn(task', d) = MadeIn(task, d)
    BY <1>1, <1>3, <1>4 DEF MadeIn
  <1>8. \A y \in Names : task[y].by \in KlingCalls => task'[y] = task[y]
    BY <1>3, <1>4
  <1>9. TasksOK'
    <2>1. \A y \in Names : task'[y].state = "none" => task'[y].by = NoCall
      BY <1>1, <1>3 DEF TasksOK
    <2>2. ASSUME NEW o \in Modes
          PROVE  \E n \in 0..IdMax : \A j \in Ids : task'[<<o, j>>].state # "none" <=> j <= n
      <3>1. CASE o = m
        <4>1. ASSUME NEW j \in Ids PROVE task'[<<m, j>>].state # "none" <=> j <= i
          <5>1. j \in 1..IdMax /\ <<m, j>> \in Names
            BY DEF Ids, Names
          <5>2. CASE j = i
            BY <1>1, <1>3, <1>4, <5>1, <5>2
          <5>3. CASE j # i
            <6>1. task'[<<m, j>>] = task[<<m, j>>]
              BY <1>3, <5>1, <5>3
            <6>2. task[<<m, j>>].state # "none" <=> j <= i - 1
              BY <1>4
            <6> QED BY <1>4, <5>1, <5>3, <6>1, <6>2
          <5> QED BY <5>2, <5>3
        <4>2. i \in 0..IdMax
          BY <1>4
        <4> QED BY <3>1, <4>1, <4>2
      <3>2. CASE o # m
        <4>1. \A j \in Ids : task'[<<o, j>>] = task[<<o, j>>]
          BY <1>3, <3>2 DEF Names
        <4> QED BY <4>1 DEF TasksOK
      <3> QED BY <3>1, <3>2
    <2> QED BY <1>3, <2>1, <2>2 DEF TasksOK
  <1> QED BY <1>1, <1>3, <1>6, <1>7, <1>8, <1>9

\* A call that made a task, and the others.
LEMMA MakerMoves ==
  ASSUME KlingIInv, NEW c \in KlingCalls, NEW m \in Modes, NEW k \in 1..4, Makes(c, m, k),
         NEW g, GenOK(g, c, task'), gen' = [gen EXCEPT ![c] = g]
  PROVE  GensOK' /\ TasksOK'
  <1>1. /\ TasksOK'
        /\ \A d \in KlingCalls : d # c => MadeIn(task', d) = MadeIn(task, d)
        /\ \A x \in Names : task[x].by \in KlingCalls => task'[x] = task[x]
    BY TaskIsMade DEF KlingIInv
  <1>2. /\ gen' = [d \in KlingCalls |-> gen'[d]] /\ gen'[c] = g
        /\ \A d \in KlingCalls : d # c => gen'[d] = gen[d]
    BY DEF KlingIInv, GensOK
  <1>3. ASSUME NEW d \in KlingCalls, d # c PROVE GenOK(gen'[d], d, task')
    <2>1. GenOK(gen[d], d, task) /\ MadeIn(task', d) = MadeIn(task, d) /\ gen'[d] = gen[d]
      BY <1>1, <1>2, <1>3 DEF KlingIInv, GensOK
    <2>2. \A x \in Names : task[x].by = d => task'[x].item = task[x].item
      BY <1>1
    <2> QED BY <2>1, <2>2, GenStays
  <1>4. \A d \in KlingCalls : GenOK(gen'[d], d, task')
    BY <1>2, <1>3
  <1> QED BY <1>1, <1>2, <1>4 DEF GensOK

-----------------------------------------------------------------------------
LEMMA KlingInitOK == KlingInit => KlingIInv
  <1> SUFFICES ASSUME KlingInit PROVE KlingIInv
    OBVIOUS
  <1>1. NoTask \in Tasks /\ NoTask.by = NoCall /\ NoTask.state = "none"
    BY DEF NoTask, Tasks
  <1>2. task = [x \in Names |-> NoTask]
    BY DEF KlingInit, Names
  <1>3. TasksOK
    <2>1. task \in [Names -> Tasks]
      BY <1>1, <1>2
    <2>2. ASSUME NEW m \in Modes PROVE \A i \in Ids : task[<<m, i>>].state # "none" <=> i <= 0
      <3>1. \A i \in Ids : <<m, i>> \in Names /\ ~(i <= 0)
        BY KlingAssumption DEF Names, Ids
      <3> QED BY <1>1, <1>2, <3>1
    <2>3. 0 \in 0..IdMax
      BY KlingAssumption
    <2> QED BY <1>1, <1>2, <2>1, <2>2, <2>3 DEF TasksOK
  <1>4. CacheOK
    BY KlingAssumption DEF KlingInit, CacheOK
  <1>5. Idle \in Gens
    <2>1. PICK w \in Wishes : w = CHOOSE x \in Wishes : TRUE
      BY WishAssumption
    <2>2. <<>> \in Seq(Encoded \cup Names) /\ {} \in SUBSET [key : AccessKeys, age : Int]
      OBVIOUS
    <2>3. 0 \in 0..PollMax
      BY KlingAssumption
    <2> QED BY <2>1, <2>2, <2>3 DEF Idle, Gens
  <1>6. ASSUME NEW c \in KlingCalls PROVE GenOK(Idle, c, task)
    <2>1. MadeIn(task, c) = {}
      BY <1>1, <1>2, KlingAssumption DEF MadeIn
    <2>2. Idle.pc = "idle" /\ Idle.item = 1 /\ Idle.got = <<>> /\ Idle.sent = {}
      BY DEF Idle
    <2> QED BY <1>5, <2>1, <2>2 DEF GenOK, Busy
  <1>7. GensOK
    BY <1>6 DEF KlingInit, GensOK
  <1> QED BY <1>3, <1>4, <1>7 DEF KlingIInv

\* The end of an item, whose result is t.
LEMMA ItemIsDone ==
  ASSUME NEW tasks, NEW c \in KlingCalls, NEW t \in Encoded \cup Names,
         gen[c] \in Gens, gen[c].key \in AccessKeys,
         Items(gen[c].wish) \in 1..4, gen[c].item <= Items(gen[c].wish),
         Len(gen[c].got) = gen[c].item - 1,
         \A k \in DOMAIN gen[c].got : Own(tasks, c, gen[c].got[k], k),
         Own(tasks, c, t, gen[c].item),
         Cardinality(MadeIn(tasks, c)) = gen[c].item
  PROVE  /\ Collected(c, t) \in Gens /\ Collected(c, t).key = gen[c].key
         /\ \A g \in Gens : /\ Same(g, Collected(c, t))
                            /\ \A s \in g.sent : s.key = g.key /\ s.age < Validity
                            => GenOK(g, c, tasks)
  <1> PICK old : old = gen[c]
    OBVIOUS
  <1>1. /\ old \in Gens /\ old.item \in 1..4 /\ old.got \in Seq(Encoded \cup Names)
        /\ Items(old.wish) \in 1..4
    BY DEF Gens
  <1> PICK got : got = Append(old.got, t)
    OBVIOUS
  <1>2. /\ got \in Seq(Encoded \cup Names) /\ Len(got) = old.item
        /\ DOMAIN got = 1..old.item /\ DOMAIN old.got = 1..old.item - 1
        /\ \A k \in DOMAIN old.got : got[k] = old.got[k]
        /\ got[old.item] = t
    BY <1>1
  <1>3. ASSUME NEW k \in DOMAIN got PROVE Own(tasks, c, got[k], k)
    <2>1. CASE k = old.item
      BY <1>2, <2>1
    <2>2. CASE k # old.item
      <3>1. k \in DOMAIN old.got
        BY <1>1, <1>2, <2>2
      <3> QED BY <1>2, <3>1
    <2> QED BY <2>1, <2>2
  <1>4. PICK pc \in {"settings", "ok"}, item \in 1..4 :
           /\ Collected(c, t) = [old EXCEPT !.pc = pc, !.item = item, !.got = got, !.polls = 0]
           /\ pc = "settings" => item = old.item + 1 /\ item <= Items(old.wish)
           /\ pc = "ok" => old.item = Items(old.wish)
    <2>1. CASE old.item < Items(old.wish)
      <3>1. old.item + 1 \in 1..4 /\ old.item + 1 <= Items(old.wish)
        BY <1>1, <2>1
      <3> QED BY <2>1, <3>1 DEF Collected
    <2>2. CASE ~(old.item < Items(old.wish))
      <3>1. old.item = Items(old.wish)
        BY <1>1, <2>2
      <3> QED BY <1>1, <2>2, <3>1 DEF Collected
    <2> QED BY <2>1, <2>2
  <1>5. PICK r : r = [old EXCEPT !.pc = pc, !.item = item, !.got = got, !.polls = 0]
    OBVIOUS
  <1>6. r \in Gens
    <2>1. 0 \in 0..PollMax
      BY KlingAssumption
    <2> QED BY <1>1, <1>2, <1>5, <2>1, Zenon DEF Gens, Busy
  <1>7. r.pc = pc /\ r.item = item /\ r.got = got /\ r.key = old.key /\ r.wish = old.wish
    BY <1>1, <1>5 DEF Gens
  <1>8. ASSUME NEW g \in Gens, Same(g, r), \A s \in g.sent : s.key = g.key /\ s.age < Validity
        PROVE  GenOK(g, c, tasks)
    <2>1. g.pc = pc /\ g.item = item /\ g.got = got /\ g.key = old.key /\ g.wish = old.wish
      BY <1>7, <1>8 DEF Same
    <2>2. CASE pc = "settings"
      <3>1. /\ Len(g.got) = g.item - 1 /\ g.item <= Items(g.wish) /\ Items(g.wish) \in 1..4
            /\ Cardinality(MadeIn(tasks, c)) = g.item - 1
        BY <1>1, <1>2, <1>4, <2>1, <2>2
      <3> QED BY <1>3, <1>8, <2>1, <2>2, <3>1 DEF GenOK, Busy
    <2>3. CASE pc = "ok"
      BY <1>3, <1>4, <1>8, <2>1, <2>3 DEF GenOK, Busy
    <2> QED BY <2>2, <2>3
  <1> QED BY <1>4, <1>5, <1>6, <1>7, <1>8

\* A call that gives up.
LEMMA GivingUp ==
  ASSUME NEW tasks, NEW c \in KlingCalls, NEW old \in Gens,
         \A s \in old.sent : s.key = old.key /\ s.age < Validity,
         Cardinality(MadeIn(tasks, c)) <= Items(old.wish)
  PROVE  /\ [old EXCEPT !.pc = "failed"] \in Gens
         /\ GenOK([old EXCEPT !.pc = "failed"], c, tasks)
         /\ \A g \in Gens : /\ Same(g, [old EXCEPT !.pc = "failed"])
                            /\ \A s \in g.sent : s.key = g.key /\ s.age < Validity
                            => GenOK(g, c, tasks)
  <1> PICK r : r = [old EXCEPT !.pc = "failed"]
    OBVIOUS
  <1>1. r \in Gens
    BY Zenon DEF Gens
  <1>2. r.pc = "failed" /\ r.wish = old.wish /\ r.sent = old.sent /\ r.key = old.key
    BY DEF Gens
  <1>3. GenOK(r, c, tasks)
    BY <1>1, <1>2 DEF GenOK, Busy
  <1>4. ASSUME NEW g \in Gens, Same(g, r), \A s \in g.sent : s.key = g.key /\ s.age < Validity
        PROVE  GenOK(g, c, tasks)
    <2>1. g.pc = "failed" /\ g.wish = old.wish
      BY <1>2, <1>4 DEF Same
    <2> QED BY <1>4, <2>1 DEF GenOK, Busy
  <1> QED BY <1>1, <1>3, <1>4

-----------------------------------------------------------------------------
LEMMA CallFacts ==
  ASSUME KlingIInv, NEW c \in KlingCalls
  PROVE  /\ gen[c] \in Gens /\ GenOK(gen[c], c, task)
         /\ \A s \in gen[c].sent : s.key = gen[c].key /\ s.age < Validity
         /\ gen[c].wish \in Wishes
         /\ Items(gen[c].wish) \in Nat /\ Charge(gen[c].wish) \in Nat
         /\ ModeOf(gen[c].wish) \in Modes
         /\ gen[c].item \in 1..4
  <1>1. GenOK(gen[c], c, task)
    BY DEF KlingIInv, GensOK
  <1>2. gen[c] \in Gens
    BY <1>1 DEF GenOK
  <1>3. gen[c].wish \in Wishes /\ gen[c].item \in 1..4
    BY <1>2 DEF Gens
  <1> QED BY <1>1, <1>2, <1>3, Counted DEF GenOK

\* A call is asked, reads the settings, is asked for a state, or times out:
\* nothing is sent.
LEMMA QuietSteps ==
  ASSUME KlingIInv, NEW c \in KlingCalls,
         \/ \E w \in Wishes : Ask(c, w)
         \/ ResolveModel(c) \/ ReadSettings(c) \/ PollTimesOut(c)
         \/ \E raw \in Tickets : AskStatus(c, raw)
  PROVE  KlingIInv'
  <1> PICK old : old = gen[c]
    OBVIOUS
  <1>1. /\ old \in Gens /\ GenOK(old, c, task)
        /\ \A s \in old.sent : s.key = old.key /\ s.age < Validity
        /\ Items(old.wish) \in Nat /\ old.item \in 1..4
    BY CallFacts
  <1>2. /\ Cardinality(MadeIn(task, c)) \in Nat
        /\ MadeIn(task, c) = {} => Cardinality(MadeIn(task, c)) = 0
    BY NamesAreFinite, FS_EmptySet
  <1>3. CacheOK /\ UNCHANGED <<settings, cache, task, clock>>
    BY DEF KlingIInv, Ask, ResolveModel, ReadSettings, PollTimesOut, AskStatus
  <1>4. /\ CacheOK' /\ settings.key \in AccessKeys \cup {"none"}
        /\ Ready => settings.key \in AccessKeys
    BY <1>3 DEF CacheOK, Ready
  <1>5. PICK g : GenOK(g, c, task) /\ gen' = [gen EXCEPT ![c] = g]
    <2>1. ASSUME NEW w \in Wishes, Ask(c, w)
          PROVE  \E g : GenOK(g, c, task) /\ gen' = [gen EXCEPT ![c] = g]
      <3>0. PICK pc \in {"model", "settings"} :
               pc = IF w.themes = <<>> THEN "settings" ELSE "model"
        OBVIOUS
      <3>1. PICK g : g = [old EXCEPT !.pc = pc, !.wish = w]
        OBVIOUS
      <3>2. /\ gen' = [gen EXCEPT ![c] = g] /\ old.pc = "idle" /\ Items(w) \in 1..4
        BY <2>1, <3>0, <3>1 DEF Ask, Become
      <3>3. g \in Gens
        BY <1>1, <3>1, Zenon DEF Gens, Busy
      <3>4. /\ g.pc = pc /\ g.wish = w /\ g.item = old.item /\ g.got = old.got
            /\ g.sent = old.sent /\ g.key = old.key
        BY <1>1, <3>1 DEF Gens
      <3>5. /\ g.item = 1 /\ g.got = <<>> /\ MadeIn(task, c) = {}
        BY <1>1, <3>2, <3>4 DEF GenOK
      <3>6. /\ Len(g.got) = g.item - 1 /\ g.item <= Items(g.wish) /\ DOMAIN g.got = {}
            /\ Cardinality(MadeIn(task, c)) = g.item - 1
        BY <1>2, <3>2, <3>4, <3>5
      <3>7. GenOK(g, c, task)
        BY <1>1, <3>2, <3>3, <3>4, <3>6 DEF GenOK, Busy
      <3> QED BY <3>2, <3>7
    <2>2. CASE ReadSettings(c)
      <3>1. old.pc = "settings"
        BY <2>2 DEF ReadSettings
      <3>2. CASE Ready
        <4>1. PICK g : g = [old EXCEPT !.pc = "create", !.key = settings.key, !.sent = {}]
          OBVIOUS
        <4>2. gen' = [gen EXCEPT ![c] = g]
          BY <2>2, <3>2, <4>1 DEF ReadSettings, Become
        <4>3. g \in Gens
          BY <1>1, <1>4, <4>1, Zenon DEF Gens, Busy
        <4>4. /\ g.pc = "create" /\ g.wish = old.wish /\ g.item = old.item /\ g.got = old.got
              /\ g.sent = {} /\ g.key = settings.key
          BY <1>1, <4>1 DEF Gens
        <4>5. GenOK(g, c, task)
          BY <1>1, <1>4, <3>1, <3>2, <4>3, <4>4 DEF GenOK, Busy
        <4> QED BY <4>2, <4>5
      <3>3. CASE ~Ready
        <4>1. gen' = [gen EXCEPT ![c] = [old EXCEPT !.pc = "failed"]]
          BY <2>2, <3>3 DEF ReadSettings, Become, GenFailed
        <4>2. Cardinality(MadeIn(task, c)) <= Items(old.wish)
          BY <1>1, <1>2, <3>1 DEF GenOK, Busy
        <4> QED BY <1>1, <4>1, <4>2, GivingUp
      <3> QED BY <3>2, <3>3
    <2>3. CASE PollTimesOut(c)
      <3>1. gen' = [gen EXCEPT ![c] = [old EXCEPT !.pc = "failed"]] /\ old.pc = "poll"
        BY <2>3 DEF PollTimesOut, Become, GenFailed
      <3>2. Cardinality(MadeIn(task, c)) <= Items(old.wish)
        BY <1>1, <1>2, <3>1 DEF GenOK, Busy
      <3> QED BY <1>1, <3>1, <3>2, GivingUp
    <2>4. ASSUME NEW raw \in Tickets, AskStatus(c, raw)
          PROVE  \E g : GenOK(g, c, task) /\ gen' = [gen EXCEPT ![c] = g]
      <3>1. raw \in Encoded
        <4>1. PICK d \in KlingCalls : raw \in Range(gen[d].got) /\ Len(raw) = 3
          BY DEF Tickets
        <4>2. gen[d].got \in Seq(Encoded \cup Names)
          BY CallFacts DEF Gens
        <4>3. raw \in Encoded \cup Names
          BY <4>1, <4>2 DEF Range
        <4>4. raw \notin Names
          <5>1. ASSUME raw \in Names PROVE FALSE
            <6>1. PICK m \in Modes, i \in Ids : raw = <<m, i>>
              BY <5>1 DEF Names
            <6>2. Len(<<m, i>>) = 2
              OBVIOUS
            <6> QED BY <4>1, <6>1, <6>2
          <5> QED BY <5>1
        <4> QED BY <4>3, <4>4
      <3>2. PICK pc \in {"query", "failed"} :
               /\ gen' = [gen EXCEPT ![c] = [old EXCEPT !.pc = pc, !.key = settings.key,
                                                        !.ticket = raw, !.sent = {}]]
               /\ old.pc = "idle"
               /\ pc = "query" => Ready
        BY <2>4 DEF AskStatus, Become
      <3>3. PICK g : g = [old EXCEPT !.pc = pc, !.key = settings.key, !.ticket = raw, !.sent = {}]
        OBVIOUS
      <3>4. g \in Gens
        BY <1>1, <1>4, <3>1, <3>3, Zenon DEF Gens, Busy
      <3>5. /\ g.pc = pc /\ g.wish = old.wish /\ g.ticket = raw /\ g.sent = {}
            /\ g.key = settings.key
        BY <1>1, <3>3 DEF Gens
      <3>6. MadeIn(task, c) = {} /\ Cardinality(MadeIn(task, c)) <= Items(old.wish)
        BY <1>1, <1>2, <3>2 DEF GenOK
      <3>7. GenOK(g, c, task)
        BY <1>4, <3>1, <3>2, <3>4, <3>5, <3>6 DEF GenOK, Busy
      <3> QED BY <3>2, <3>3, <3>7
    <2>5. CASE ResolveModel(c)
      <3>1. /\ old.pc = "model"
            /\ \/ gen' = [gen EXCEPT ![c] = [old EXCEPT !.pc = "settings"]]
               \/ gen' = [gen EXCEPT ![c] = [old EXCEPT !.pc = "failed"]]
        BY <2>5 DEF ResolveModel, Become, GenFailed
      <3>2. CASE gen' = [gen EXCEPT ![c] = [old EXCEPT !.pc = "settings"]]
        <4>1. PICK g : g = [old EXCEPT !.pc = "settings"]
          OBVIOUS
        <4>2. g \in Gens
          BY <1>1, <4>1, Zenon DEF Gens, Busy
        <4>3. /\ g.pc = "settings" /\ g.wish = old.wish /\ g.item = old.item
              /\ g.got = old.got /\ g.sent = old.sent /\ g.key = old.key
          BY <1>1, <4>1 DEF Gens
        <4>4. GenOK(g, c, task)
          BY <1>1, <3>1, <4>2, <4>3 DEF GenOK, Busy
        <4> QED BY <3>2, <4>1, <4>4
      <3>3. CASE gen' = [gen EXCEPT ![c] = [old EXCEPT !.pc = "failed"]]
        <4>1. Cardinality(MadeIn(task, c)) <= Items(old.wish)
          BY <1>1, <1>2, <3>1 DEF GenOK, Busy
        <4> QED BY <1>1, <3>3, <4>1, GivingUp
      <3> QED BY <3>1, <3>2, <3>3
    <2> QED BY <2>1, <2>2, <2>3, <2>4, <2>5
  <1>6. GensOK' /\ TasksOK'
    BY <1>3, <1>5, GenMoves
  <1> QED BY <1>4, <1>6 DEF KlingIInv

\* A task is created, and its creation answered.
LEMMA CreateKeeps ==
  ASSUME KlingIInv, NEW c \in KlingCalls, Create(c)
  PROVE  KlingIInv'
  <1> PICK old : old = gen[c]
    OBVIOUS
  <1>1. /\ old \in Gens /\ GenOK(old, c, task)
        /\ Items(old.wish) \in Nat /\ ModeOf(old.wish) \in Modes /\ old.item \in 1..4
    BY CallFacts
  <1>2. PICK m \in Modes : m = ModeOf(old.wish)
    BY <1>1
  <1>3. PICK i \in Ids : i = NextId(m)
    BY <1>2 DEF Create
  <1>4. /\ old.pc = "create"
        /\ Makes(c, m, old.item)
        /\ UNCHANGED <<settings, clock>>
    BY <1>2 DEF Create, Makes
  <1>5. /\ task'[<<m, i>>].by = c /\ task'[<<m, i>>].item = old.item
        /\ Cardinality(MadeIn(task', c)) = Cardinality(MadeIn(task, c)) + 1
        /\ \A x \in Names : task[x].by \in KlingCalls => task'[x] = task[x]
    BY <1>1, <1>3, <1>4, TaskIsMade DEF KlingIInv
  <1>6. /\ Cardinality(MadeIn(task', c)) = old.item /\ old.key \in AccessKeys
        /\ Items(old.wish) \in 1..4 /\ old.item <= Items(old.wish) /\ Len(old.got) = old.item - 1
    BY <1>1, <1>4, <1>5 DEF GenOK, Busy
  <1>7. \A k \in DOMAIN old.got : Own(task', c, old.got[k], k)
    <2>1. \A k \in DOMAIN old.got : Own(task, c, old.got[k], k)
      BY <1>1, <1>4 DEF GenOK, Busy
    <2> QED BY <1>5, <2>1 DEF Own
  <1>8. PICK t : t = Encode(m, i)
    OBVIOUS
  <1>9. t \in Encoded /\ Own(task', c, t, old.item)
    BY <1>5, <1>8, CodesRead DEF Own
  <1>10. PICK r \in Gens :
            /\ Send(c, r) /\ r.key = old.key
            /\ \A g \in Gens : /\ Same(g, r)
                               /\ \A s \in g.sent : s.key = g.key /\ s.age < Validity
                               => GenOK(g, c, task')
    <2>1. CASE old.wish.sync
      <3>1. PICK r : r = [old EXCEPT !.pc = "poll", !.ticket = t, !.polls = 0]
        OBVIOUS
      <3>2. Send(c, r)
        BY <1>2, <1>3, <1>8, <2>1, <3>1 DEF Create
      <3>3. r \in Gens
        <4>1. 0 \in 0..PollMax
          BY KlingAssumption
        <4> QED BY <1>1, <1>9, <3>1, <4>1, Zenon DEF Gens, Busy
      <3>4. /\ r.pc = "poll" /\ r.ticket = t /\ r.wish = old.wish /\ r.item = old.item
            /\ r.got = old.got /\ r.key = old.key
        BY <1>1, <3>1 DEF Gens
      <3>5. ASSUME NEW g \in Gens, Same(g, r), \A s \in g.sent : s.key = g.key /\ s.age < Validity
            PROVE  GenOK(g, c, task')
        <4>1. /\ g.pc = "poll" /\ g.ticket = t /\ g.wish = old.wish /\ g.item = old.item
              /\ g.got = old.got /\ g.key = old.key
          BY <3>4, <3>5 DEF Same
        <4>2. \E j \in Ids : /\ g.ticket = Encode(ModeOf(g.wish), j)
                             /\ task'[<<ModeOf(g.wish), j>>].by = c
                             /\ task'[<<ModeOf(g.wish), j>>].item = g.item
          BY <1>2, <1>3, <1>5, <1>8, <4>1
        <4> QED BY <1>6, <1>7, <3>5, <4>1, <4>2 DEF GenOK, Busy
      <3> QED BY <3>2, <3>3, <3>4, <3>5
    <2>2. CASE ~old.wish.sync
      <3>1. PICK r : r = Collected(c, t)
        OBVIOUS
      <3>2. Send(c, r)
        BY <1>2, <1>3, <1>8, <2>2, <3>1 DEF Create
      <3>3. /\ r \in Gens /\ r.key = old.key
            /\ \A g \in Gens : /\ Same(g, r)
                               /\ \A s \in g.sent : s.key = g.key /\ s.age < Validity
                               => GenOK(g, c, task')
        BY <1>1, <1>6, <1>7, <1>9, <3>1, ItemIsDone
      <3> QED BY <3>2, <3>3
    <2> QED BY <2>1, <2>2
  <1>11. /\ CacheOK'
         /\ \E g \in Gens : /\ gen' = [gen EXCEPT ![c] = g] /\ Same(g, r)
                            /\ \A s \in g.sent : s.key = g.key /\ s.age < Validity
    BY <1>4, <1>6, <1>10, SendsWell DEF KlingIInv
  <1>12. PICK g \in Gens : /\ gen' = [gen EXCEPT ![c] = g] /\ Same(g, r)
                           /\ \A s \in g.sent : s.key = g.key /\ s.age < Validity
    BY <1>11
  <1>13. GenOK(g, c, task')
    BY <1>10, <1>12
  <1>14. GensOK' /\ TasksOK'
    BY <1>1, <1>3, <1>4, <1>12, <1>13, MakerMoves
  <1> QED BY <1>11, <1>14 DEF KlingIInv

\* A request fails: the call gives up.
LEMMA FailingKeeps ==
  ASSUME KlingIInv, NEW c \in KlingCalls, CreateFails(c) \/ PollFails(c)
  PROVE  KlingIInv'
  <1> PICK old : old = gen[c]
    OBVIOUS
  <1>1. /\ old \in Gens /\ GenOK(old, c, task)
        /\ \A s \in old.sent : s.key = old.key /\ s.age < Validity
        /\ Items(old.wish) \in Nat /\ ModeOf(old.wish) \in Modes /\ old.item \in 1..4
    BY CallFacts
  <1>2. /\ old.pc \in {"create", "poll"} /\ old.key \in AccessKeys
        /\ UNCHANGED <<settings, clock>> /\ Send(c, [old EXCEPT !.pc = "failed"])
        /\ old.pc = "poll" => task' = task
    BY <1>1 DEF CreateFails, PollFails, GenFailed, GenOK
  <1>3. PICK r : r = [old EXCEPT !.pc = "failed"]
    OBVIOUS
  <1>4. r \in Gens /\ r.key = old.key
    BY <1>1, <1>3 DEF Gens
  <1>5. PICK g \in Gens : /\ gen' = [gen EXCEPT ![c] = g] /\ Same(g, r)
                          /\ \A s \in g.sent : s.key = g.key /\ s.age < Validity
    BY <1>2, <1>3, <1>4, SendsWell DEF KlingIInv
  <1>6. CacheOK'
    BY <1>2, <1>3, <1>4, SendsWell DEF KlingIInv
  <1>7. Cardinality(MadeIn(task, c)) \in Nat
    BY NamesAreFinite
  <1>8. CASE task' = task
    <2>1. Cardinality(MadeIn(task, c)) <= Items(old.wish)
      BY <1>1, <1>2, <1>7 DEF GenOK, Busy
    <2>2. GenOK(g, c, task)
      BY <1>1, <1>3, <1>5, <2>1, GivingUp
    <2> QED BY <1>5, <1>6, <1>8, <2>2, GenMoves DEF KlingIInv
  <1>9. CASE task' # task
    <2>1. PICK m \in Modes : /\ m = ModeOf(old.wish) /\ Makes(c, m, old.item)
                             /\ old.pc = "create"
      BY <1>1, <1>9 DEF CreateFails, PollFails, Makes
    <2>2. Cardinality(MadeIn(task', c)) = Cardinality(MadeIn(task, c)) + 1
      BY <1>1, <2>1, TaskIsMade DEF KlingIInv
    <2>3. Cardinality(MadeIn(task', c)) <= Items(old.wish)
      BY <1>1, <1>7, <2>1, <2>2 DEF GenOK, Busy
    <2>4. GenOK(g, c, task')
      BY <1>1, <1>3, <1>5, <2>3, GivingUp
    <2>5. GensOK' /\ TasksOK'
      BY <1>1, <1>5, <2>1, <2>4, MakerMoves
    <2> QED BY <1>6, <2>5 DEF KlingIInv
  <1> QED BY <1>8, <1>9

\* A query: the task of the call is asked for, or the one of a ticket.
LEMMA QueriesKeep ==
  ASSUME KlingIInv, NEW c \in KlingCalls, Poll(c) \/ QueryStatus(c)
  PROVE  KlingIInv'
  <1> PICK old : old = gen[c]
    OBVIOUS
  <1>1. /\ old \in Gens /\ GenOK(old, c, task)
        /\ \A s \in old.sent : s.key = old.key /\ s.age < Validity
        /\ Items(old.wish) \in Nat /\ ModeOf(old.wish) \in Modes /\ old.item \in 1..4
    BY CallFacts
  <1>2. /\ old.pc \in {"poll", "query"} /\ old.key \in AccessKeys
        /\ UNCHANGED <<settings, clock, task>>
    BY <1>1 DEF Poll, QueryStatus, GenOK
  <1>3. PICK r \in Gens :
            /\ Send(c, r) /\ r.key = old.key
            /\ \A g \in Gens : /\ Same(g, r)
                               /\ \A s \in g.sent : s.key = g.key /\ s.age < Validity
                               => GenOK(g, c, task)
    <2>1. CASE Poll(c)
      <3>1. PICK m \in Modes : m = ModeOf(old.wish)
        BY <1>1
      <3>2. old.pc = "poll" /\ old.polls < PollMax
        BY <2>1 DEF Poll
      <3>3. PICK i \in Ids : /\ old.ticket = Encode(m, i)
                             /\ task[<<m, i>>].by = c /\ task[<<m, i>>].item = old.item
        BY <1>1, <3>1, <3>2 DEF GenOK
      <3>4. QueryPath(ModeOf(old.wish), Last(old.ticket)) = <<m, i>>
        BY <3>1, <3>3, CodesRead DEF QueryPath
      <3>5. /\ Cardinality(MadeIn(task, c)) = old.item /\ Items(old.wish) \in 1..4
            /\ old.item <= Items(old.wish) /\ Len(old.got) = old.item - 1
            /\ \A k \in DOMAIN old.got : Own(task, c, old.got[k], k)
        BY <1>1, <3>2 DEF GenOK, Busy
      <3>6. CASE Send(c, Collected(c, <<m, i>>))
        <4>1. <<m, i>> \in Names /\ Own(task, c, <<m, i>>, old.item)
          BY <3>3, CodesRead DEF Own
        <4> QED BY <1>1, <1>2, <3>5, <3>6, <4>1, ItemIsDone
      <3>7. CASE Send(c, [old EXCEPT !.pc = "failed"])
        <4>1. [old EXCEPT !.pc = "failed"].key = old.key
          BY <1>1 DEF Gens
        <4>2. Cardinality(MadeIn(task, c)) <= Items(old.wish)
          BY <3>5
        <4> QED BY <1>1, <3>7, <4>1, <4>2, GivingUp
      <3>8. CASE Send(c, [old EXCEPT !.polls = @ + 1])
        <4>1. PICK n \in 0..PollMax : n = old.polls + 1
          <5>1. old.polls \in 0..PollMax /\ PollMax \in Nat
            BY <1>1, KlingAssumption DEF Gens
          <5> QED BY <3>2, <5>1
        <4>2. PICK q : q = [old EXCEPT !.polls = n]
          OBVIOUS
        <4>3. Send(c, q)
          BY <3>8, <4>1, <4>2
        <4>4. q \in Gens
          BY <1>1, <4>2, Zenon DEF Gens
        <4>5. /\ q.pc = "poll" /\ q.ticket = old.ticket /\ q.wish = old.wish
              /\ q.item = old.item /\ q.got = old.got /\ q.key = old.key
          BY <1>1, <3>2, <4>2 DEF Gens
        <4>6. ASSUME NEW g \in Gens, Same(g, q),
                     \A s \in g.sent : s.key = g.key /\ s.age < Validity
              PROVE  GenOK(g, c, task)
          <5>1. /\ g.pc = "poll" /\ g.ticket = old.ticket /\ g.wish = old.wish
                /\ g.item = old.item /\ g.got = old.got /\ g.key = old.key
            BY <4>5, <4>6 DEF Same
          <5>2. \E j \in Ids : /\ g.ticket = Encode(ModeOf(g.wish), j)
                               /\ task[<<ModeOf(g.wish), j>>].by = c
                               /\ task[<<ModeOf(g.wish), j>>].item = g.item
            BY <3>1, <3>3, <5>1
          <5> QED BY <1>2, <3>5, <4>6, <5>1, <5>2 DEF GenOK, Busy
        <4> QED BY <4>3, <4>4, <4>5, <4>6
      <3> QED BY <2>1, <3>4, <3>6, <3>7, <3>8 DEF Poll, GenFailed
    <2>2. CASE QueryStatus(c)
      <3>1. old.pc = "query" /\ old.ticket \in Encoded /\ MadeIn(task, c) = {}
        BY <1>1, <2>2 DEF QueryStatus, GenOK
      <3>2. PICK got : got = <<Decode(old.ticket)>>
        OBVIOUS
      <3>3. got = <<TaskOf(old.ticket)>> /\ got \in Seq(Encoded \cup Names)
        <4>1. Decode(old.ticket) = TaskOf(old.ticket) /\ TaskOf(old.ticket) \in Names
          BY <3>1, EncodedRead
        <4> QED BY <3>2, <4>1
      <3>4. PICK q : q = [old EXCEPT !.pc = "told", !.got = got]
        OBVIOUS
      <3>5. Send(c, q)
        BY <2>2, <3>2, <3>4 DEF QueryStatus
      <3>6. q \in Gens
        BY <1>1, <3>3, <3>4, Zenon DEF Gens, Busy
      <3>7. q.pc = "told" /\ q.got = got /\ q.ticket = old.ticket /\ q.key = old.key
        BY <1>1, <3>4 DEF Gens
      <3>8. ASSUME NEW g \in Gens, Same(g, q),
                   \A s \in g.sent : s.key = g.key /\ s.age < Validity
            PROVE  GenOK(g, c, task)
        <4>1. g.pc = "told" /\ g.got = <<TaskOf(g.ticket)>>
          BY <3>3, <3>7, <3>8 DEF Same
        <4> QED BY <3>1, <3>8, <4>1 DEF GenOK, Busy
      <3> QED BY <3>5, <3>6, <3>7, <3>8
    <2> QED BY <2>1, <2>2
  <1>4. /\ CacheOK'
        /\ \E g \in Gens : /\ gen' = [gen EXCEPT ![c] = g] /\ Same(g, r)
                           /\ \A s \in g.sent : s.key = g.key /\ s.age < Validity
    BY <1>2, <1>3, SendsWell DEF KlingIInv
  <1>5. PICK g \in Gens : /\ gen' = [gen EXCEPT ![c] = g] /\ Same(g, r)
                          /\ \A s \in g.sent : s.key = g.key /\ s.age < Validity
    BY <1>4
  <1>6. GenOK(g, c, task)
    BY <1>3, <1>5
  <1>7. GensOK' /\ TasksOK'
    BY <1>2, <1>5, <1>6, GenMoves
  <1> QED BY <1>4, <1>7 DEF KlingIInv

\* The settings, the upstream and the clock.
LEMMA AroundKeeps ==
  ASSUME KlingIInv,
         \/ Patch([settings EXCEPT !.enabled = FALSE])
         \/ \E k \in AccessKeys \cup {"none"} : Patch([settings EXCEPT !.key = k])
         \/ \E x \in Names, s \in Settled : Settle(x, s)
         \/ Tick \/ RestartKling
  PROVE  KlingIInv'
  <1>1. TasksOK /\ CacheOK /\ GensOK
    BY DEF KlingIInv
  <1>2. ASSUME NEW new \in [enabled : BOOLEAN, key : AccessKeys \cup {"none"}], Patch(new)
        PROVE  KlingIInv'
    <2>1. settings' = new /\ cache' = {} /\ UNCHANGED <<task, gen, clock>>
      BY <1>2 DEF Patch
    <2> QED BY <1>1, <2>1 DEF KlingIInv, TasksOK, CacheOK, GensOK
  <1>3. /\ [settings EXCEPT !.enabled = FALSE] \in [enabled : BOOLEAN, key : AccessKeys \cup {"none"}]
        /\ \A k \in AccessKeys \cup {"none"} :
              [settings EXCEPT !.key = k] \in [enabled : BOOLEAN, key : AccessKeys \cup {"none"}]
    BY <1>1, Zenon DEF CacheOK
  <1>4. ASSUME NEW x \in Names, NEW s \in Settled, Settle(x, s) PROVE KlingIInv'
    <2>1. PICK new : new = [task[x] EXCEPT !.state = s]
      OBVIOUS
    <2>2. task' = [task EXCEPT ![x] = new] /\ UNCHANGED <<settings, cache, gen, clock>>
      BY <1>4, <2>1 DEF Settle
    <2>3. task[x] \in Tasks /\ task[x].state = "running"
      BY <1>1, <1>4 DEF TasksOK, Settle
    <2>4. /\ new \in Tasks /\ new.by = task[x].by /\ new.item = task[x].item
          /\ new.state # "none"
      BY <2>1, <2>3 DEF Tasks, Settled
    <2>5. /\ task' \in [Names -> Tasks]
          /\ \A y \in Names : /\ task'[y].by = task[y].by /\ task'[y].item = task[y].item
                              /\ task'[y].state = "none" <=> task[y].state = "none"
      BY <1>1, <2>2, <2>3, <2>4 DEF TasksOK
    <2>6. TasksOK'
      <3>1. \A m \in Modes : \A i \in Ids : <<m, i>> \in Names
        BY DEF Names
      <3>2. ASSUME NEW m \in Modes
            PROVE  \E n \in 0..IdMax : \A i \in Ids : task'[<<m, i>>].state # "none" <=> i <= n
        <4>1. PICK n \in 0..IdMax : \A i \in Ids : task[<<m, i>>].state # "none" <=> i <= n
          BY <1>1 DEF TasksOK
        <4> QED BY <2>5, <3>1, <4>1
      <3> QED BY <1>1, <2>5, <3>2 DEF TasksOK
    <2>7. ASSUME NEW c \in KlingCalls PROVE GenOK(gen[c], c, task')
      <3>1. MadeIn(task', c) = MadeIn(task, c)
        BY <2>5 DEF MadeIn
      <3> QED BY <1>1, <2>5, <3>1, GenStays DEF GensOK
    <2>8. GensOK'
      BY <1>1, <2>2, <2>7 DEF GensOK
    <2> QED BY <1>1, <2>2, <2>6, <2>8 DEF KlingIInv, CacheOK
  <1>5. CASE Tick
    <2>1. clock' \in 0..MaxClock /\ clock' = clock + 1
      BY <1>1, <1>5, KlingAssumption DEF Tick, CacheOK
    <2>2. UNCHANGED <<settings, cache, task, gen>>
      BY <1>5 DEF Tick
    <2>3. CacheOK'
      BY <1>1, <2>1, <2>2 DEF CacheOK
    <2> QED BY <1>1, <2>2, <2>3 DEF KlingIInv, TasksOK, GensOK
  <1>6. CASE RestartKling
    <2>1. /\ cache' = {} /\ UNCHANGED <<settings, task, clock>>
          /\ gen' = [c \in KlingCalls |-> gen'[c]]
      BY <1>6 DEF RestartKling
    <2>2. ASSUME NEW c \in KlingCalls PROVE GenOK(gen'[c], c, task)
      <3>1. /\ gen[c] \in Gens /\ GenOK(gen[c], c, task)
            /\ \A s \in gen[c].sent : s.key = gen[c].key /\ s.age < Validity
            /\ Items(gen[c].wish) \in Nat /\ gen[c].item \in 1..4
        BY CallFacts
      <3>2. CASE gen[c].pc \in {"idle", "ok", "failed", "told"}
        BY <1>6, <3>1, <3>2 DEF RestartKling
      <3>3. CASE gen[c].pc \notin {"idle", "ok", "failed", "told"}
        <4>1. gen'[c] = [gen[c] EXCEPT !.pc = "failed"]
          BY <1>6, <3>3 DEF RestartKling
        <4>2. gen[c].pc \in Busy \cup {"query"}
          BY <3>1, <3>3 DEF Gens, Busy
        <4>3. /\ Cardinality(MadeIn(task, c)) \in Nat
              /\ MadeIn(task, c) = {} => Cardinality(MadeIn(task, c)) = 0
          BY NamesAreFinite, FS_EmptySet
        <4>4. Cardinality(MadeIn(task, c)) <= Items(gen[c].wish)
          BY <3>1, <4>2, <4>3 DEF GenOK, Busy
        <4> QED BY <3>1, <4>1, <4>4, GivingUp
      <3> QED BY <3>2, <3>3
    <2>3. GensOK'
      BY <2>1, <2>2 DEF GensOK
    <2>4. CacheOK' /\ TasksOK'
      BY <1>1, <2>1 DEF CacheOK, TasksOK
    <2> QED BY <2>3, <2>4 DEF KlingIInv
  <1> QED BY <1>2, <1>3, <1>4, <1>5, <1>6

LEMMA KlingNextOK == KlingIInv /\ [KlingNext]_klingVars => KlingIInv'
  <1> SUFFICES ASSUME KlingIInv, [KlingNext]_klingVars PROVE KlingIInv'
    OBVIOUS
  <1>1. CASE UNCHANGED klingVars
    BY <1>1 DEF klingVars, KlingIInv, TasksOK, CacheOK, GensOK
  <1>2. ASSUME NEW c \in KlingCalls,
               \/ \E w \in Wishes : Ask(c, w)
               \/ \E raw \in Tickets : AskStatus(c, raw)
               \/ CallStep(c) \/ CreateFails(c) \/ PollFails(c)
        PROVE  KlingIInv'
    BY <1>2, QuietSteps, CreateKeeps, FailingKeeps, QueriesKeep DEF CallStep
  <1>3. CASE \/ Patch([settings EXCEPT !.enabled = FALSE])
             \/ \E k \in AccessKeys \cup {"none"} : Patch([settings EXCEPT !.key = k])
             \/ \E x \in Modes \X Ids, s \in Settled : Settle(x, s)
             \/ Tick \/ RestartKling
    BY <1>3, AroundKeeps DEF Names
  <1> QED BY <1>1, <1>2, <1>3 DEF KlingNext

LEMMA KlingInvariant == KlingSpec => []KlingIInv
  <1> QED BY KlingInitOK, KlingNextOK, PTL DEF KlingSpec

(***************************************************************************)
(* Calls, tasks and the token cache keep their types (KlingImageService).  *)
(***************************************************************************)
THEOREM KlingTypeCorrect == KlingSpec => []KlingTypeOK
  <1>1. KlingIInv => KlingTypeOK
    <2> SUFFICES ASSUME KlingIInv PROVE KlingTypeOK
      OBVIOUS
    <2>1. /\ settings \in [enabled : BOOLEAN, key : AccessKeys \cup {"none"}]
          /\ cache \subseteq [key : AccessKeys, made : 0..MaxClock]
          /\ Cardinality(cache) <= 1
      <3>1. Cardinality({}) = 0
        BY FS_EmptySet
      <3>2. \A t : Cardinality({t}) = 1
        BY FS_Singleton
      <3>3. CacheOK
        BY DEF KlingIInv
      <3>4. CASE cache = {}
        BY <3>1, <3>3, <3>4 DEF CacheOK
      <3>5. ASSUME NEW t \in [key : AccessKeys, made : 0..MaxClock], cache = {t}
            PROVE  /\ cache \subseteq [key : AccessKeys, made : 0..MaxClock]
                   /\ Cardinality(cache) <= 1
        <4>1. Cardinality(cache) = 1
          BY <3>2, <3>5
        <4>2. cache \subseteq [key : AccessKeys, made : 0..MaxClock]
          BY <3>5
        <4> QED BY <4>1, <4>2
      <3> QED BY <3>3, <3>4, <3>5 DEF CacheOK
    <2>2. task \in [Modes \X Ids -> [state : {"none", "running"} \cup Settled,
                                     by : KlingCalls \cup {NoCall}, item : 0..4]]
      BY DEF KlingIInv, TasksOK, Tasks, Names
    <2>3. \A c \in KlingCalls : gen[c] \in Gens
      BY CallFacts
    <2> QED BY <2>1, <2>2, <2>3 DEF KlingTypeOK, Gens, Busy
  <1> QED BY <1>1, KlingInvariant, PTL

(***************************************************************************)
(* Every result is that of the task the call created for the item          *)
(* (encodePublicTaskId, decodePublicTaskId, queryPath), and every request  *)
(* carries a live token of the keys its call read (getBearer), for any     *)
(* number of calls, items, keys and tasks.                                 *)
(***************************************************************************)
THEOREM CallsStayApart == KlingSpec => []CallsKeepTheirOwn
  <1>1. KlingIInv => CallsKeepTheirOwn
    <2> SUFFICES ASSUME KlingIInv PROVE CallsKeepTheirOwn
      OBVIOUS
    <2>1. BearersFit
      BY CallFacts DEF BearersFit
    <2>2. ASSUME NEW c \in KlingCalls, gen[c].pc = "ok", NEW k \in DOMAIN gen[c].got
          PROVE  task[TaskOf(gen[c].got[k])].by = c /\ task[TaskOf(gen[c].got[k])].item = k
      <3>1. Own(task, c, gen[c].got[k], k)
        BY <2>2, CallFacts DEF GenOK
      <3> QED BY <3>1 DEF Own
    <2>3. ASSUME NEW c \in KlingCalls, gen[c].pc = "told"
          PROVE  gen[c].got[1] = TaskOf(gen[c].ticket)
      <3>1. gen[c].got = <<TaskOf(gen[c].ticket)>>
        BY <2>3, CallFacts DEF GenOK
      <3> QED BY <3>1
    <2>4. AnswersAreOwn
      BY <2>2, <2>3 DEF AnswersAreOwn
    <2> QED BY <2>1, <2>4 DEF CallsKeepTheirOwn
  <1> QED BY <1>1, KlingInvariant, PTL

(***************************************************************************)
(* A room decoration creates at most as many tasks as it was charged for,  *)
(* and exactly as many when it succeeds (dedupeRoomDecorationThemes in the *)
(* controller and in the service), however its calls fail, are cut off or  *)
(* run beside others.                                                      *)
(***************************************************************************)
THEOREM TasksStayPaid == KlingSpec => []TasksArePaid
  <1>1. KlingIInv => TasksArePaid
    <2> SUFFICES ASSUME KlingIInv, NEW c \in KlingCalls,
                        gen[c].pc # "idle", gen[c].wish.themes # <<>>
                 PROVE  /\ Cardinality(MadeIn(task, c)) <= Charge(gen[c].wish)
                        /\ gen[c].pc = "ok" =>
                              Cardinality(MadeIn(task, c)) = Charge(gen[c].wish)
      BY DEF TasksArePaid, MadeIn, Names
    <2>1. /\ gen[c] \in Gens /\ GenOK(gen[c], c, task)
          /\ Items(gen[c].wish) \in Nat /\ gen[c].item \in 1..4 /\ gen[c].wish \in Wishes
      BY CallFacts
    <2>2. Items(gen[c].wish) = Charge(gen[c].wish)
      BY <2>1, Counted
    <2>3. /\ Cardinality(MadeIn(task, c)) \in Nat
          /\ MadeIn(task, c) = {} => Cardinality(MadeIn(task, c)) = 0
      BY NamesAreFinite, FS_EmptySet
    <2>4. gen[c].pc \in Busy \cup {"query", "ok", "failed", "told"}
      BY <2>1 DEF Gens
    <2>5. Cardinality(MadeIn(task, c)) <= Items(gen[c].wish)
      <3>1. CASE gen[c].pc \in {"query", "told"}
        BY <2>1, <2>3, <3>1 DEF GenOK
      <3>2. CASE gen[c].pc \in Busy
        BY <2>1, <2>3, <3>2 DEF GenOK, Busy
      <3>3. CASE gen[c].pc \in {"ok", "failed"}
        BY <2>1, <2>3, <3>3 DEF GenOK
      <3> QED BY <2>4, <3>1, <3>2, <3>3
    <2>6. gen[c].pc = "ok" => Cardinality(MadeIn(task, c)) = Items(gen[c].wish)
      BY <2>1 DEF GenOK
    <2> QED BY <2>2, <2>5, <2>6
  <1> QED BY <1>1, KlingInvariant, PTL

==============================================================================
