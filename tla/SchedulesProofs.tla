---------------------------- MODULE SchedulesProofs ----------------------------
(***************************************************************************)
(* Proofs about what runs by the clock.  AinewsJobs, for any number of     *)
(* jobs and of runs, any limit and any number of crashes and of writes     *)
(* that fail; AinewsArticles, for any number of articles, ingests and      *)
(* workers; BillingDates, for payments in any set of years; CronIntervals, *)
(* for any interval that the environment names.                            *)
(***************************************************************************)
EXTENDS AinewsJobs, AinewsArticles, BillingDates, CronIntervals, WellFoundedInduction, TLAPS

-----------------------------------------------------------------------------
(***************************************************************************)
(* The runs of the jobs.                                                   *)
(***************************************************************************)
\* A flag that is set was set by a run that is alive, the last one to claim
\* it; and as long as no run of the ingest has reached the limit, the runs
\* that are alive are younger and there is one for each flag.
FlagsOK == \A j \in Jobs : flag[j] => \E r \in Alive(j) : run[r].born = since[j]

Young(j) ==
    \A r \in Alive(j) : run[r].born = since[j] /\ now - run[r].born < Stale

YoungOK == ~slow => Young(Ingest)

JobsIInv == JobsTypeOK /\ FlagsOK /\ YoungOK /\ JobsRunAlone

\* The records of a run that is not going on.
LEMMA BlankRuns ==
  /\ Idle.at = "idle" /\ Over.at = "over"
  /\ Idle \in [at : Stages, job : Jobs, born : Nat, ok : BOOLEAN]
  /\ Over \in [at : Stages, job : Jobs, born : Nat, ok : BOOLEAN]
  <1>1. Idle.at = "idle" /\ Over.at = "over"
    BY DEF Over, Idle
  <1>2. 0 \in Nat /\ Ingest \in Jobs
    BY JobsAssumption
  <1>3. /\ Idle \in [at : Stages, job : Jobs, born : Nat, ok : BOOLEAN]
        /\ Over \in [at : Stages, job : Jobs, born : Nat, ok : BOOLEAN]
    BY <1>2, Zenon DEF Stages, Idle, Over
  <1> QED BY <1>1, <1>3

LEMMA JobsInitOK == JobsInit => JobsIInv
  <1> SUFFICES ASSUME JobsInit PROVE JobsIInv
    OBVIOUS
  <1>1. \A j \in Jobs : Alive(j) = {}
    BY DEF JobsInit, Alive, Idle
  <1>3. JobsTypeOK
    <2>1. run \in [Runs -> [at : Stages, job : Jobs, born : Nat, ok : BOOLEAN]]
      BY BlankRuns DEF JobsInit
    <2>2. slow \in BOOLEAN
      BY Zenon DEF JobsInit
    <2> QED BY <2>1, <2>2 DEF JobsInit, JobsTypeOK
  <1>4. JobsRunAlone
    BY <1>1 DEF JobsInit, JobsRunAlone
  <1> QED BY <1>1, <1>3, <1>4, JobsAssumption DEF JobsInit, JobsIInv, FlagsOK, YoungOK, Young

-----------------------------------------------------------------------------
\* A run that goes on without claiming or releasing stays alive as it was.
LEMMA MovingKeeps ==
  ASSUME JobsIInv, NEW r \in Runs, Start(r) \/ Work(r) \/ Finish(r)
  PROVE  JobsIInv'
  <1>1. /\ run[r].at \in {"start", "work", "finish"}
        /\ UNCHANGED <<flag, since, lastSkip, now, slow>>
    BY DEF Start, Work, Finish
  <1>2. \A q \in Runs : /\ run'[q].job = run[q].job /\ run'[q].born = run[q].born
                        /\ q # r => run'[q] = run[q]
    BY DEF JobsIInv, JobsTypeOK, Start, Work, Finish, Move
  <1>3. run'[r].at \in {"work", "finish", "release"}
    BY DEF JobsIInv, JobsTypeOK, Start, Work, Finish, Move
  <1>4. \A j \in Jobs : Alive(j)' = Alive(j)
    BY <1>1, <1>2, <1>3 DEF Alive
  <1>5. JobsTypeOK'
    <2>1. CASE Start(r)
      BY <2>1 DEF JobsIInv, JobsTypeOK, Start, Move, Stages
    <2>2. CASE Work(r)
      <3>1. PICK ok \in BOOLEAN : run' = [run EXCEPT ![r].at = "finish", ![r].ok = ok]
        BY <2>2 DEF Work
      <3>2. run' \in [Runs -> [at : Stages, job : Jobs, born : Nat, ok : BOOLEAN]]
        <4> DEFINE Records == [at : Stages, job : Jobs, born : Nat, ok : BOOLEAN]
        <4>1. run \in [Runs -> Records]
          BY DEF JobsIInv, JobsTypeOK
        <4>2. PICK new : new = [[run[r] EXCEPT !.at = "finish"] EXCEPT !.ok = ok]
          OBVIOUS
        <4>3. "finish" \in Stages
          BY DEF Stages
        <4>4. run[r] \in Records
          BY <4>1, Zenon
        <4>5. new \in Records
          BY <4>2, <4>3, <4>4, Zenon
        <4>6. run' = [run EXCEPT ![r] = new]
          BY <3>1, <4>2, <4>4, Zenon
        <4> QED BY <4>1, <4>5, <4>6, Zenon
      <3> QED BY <1>1, <2>2, <3>2 DEF JobsIInv, JobsTypeOK, Work
    <2>3. CASE Finish(r)
      <3>1. run' \in [Runs -> [at : Stages, job : Jobs, born : Nat, ok : BOOLEAN]]
        BY <2>3 DEF JobsIInv, JobsTypeOK, Finish, Move, Stages
      <3>2. row' \in [Runs -> {"none", "running", "success", "failed"}]
        <4>1. PICK new \in {"success", "failed"} :
                 row' = row \/ row' = [row EXCEPT ![r] = new]
          BY <2>3 DEF Finish
        <4> QED BY <4>1 DEF JobsIInv, JobsTypeOK
      <3>3. jobFaults' \in Nat
        BY <2>3 DEF JobsIInv, JobsTypeOK, Finish
      <3> QED BY <1>1, <2>3, <3>1, <3>2, <3>3 DEF JobsIInv, JobsTypeOK, Finish
    <2> QED BY <2>1, <2>2, <2>3
  <1>6. FlagsOK'
    BY <1>1, <1>2, <1>4 DEF JobsIInv, FlagsOK, Alive
  <1>7. YoungOK'
    BY <1>1, <1>2, <1>4, JobsAssumption DEF JobsIInv, YoungOK, Young, Alive
  <1>8. JobsRunAlone'
    BY <1>1, <1>4 DEF JobsIInv, JobsRunAlone
  <1> QED BY <1>5, <1>6, <1>7, <1>8 DEF JobsIInv

\* The run that starts is the only one of its job that is alive, unless it
\* takes the flag of an ingest that reached the limit.
LEMMA TickKeeps ==
  ASSUME JobsIInv, NEW r \in Runs, NEW j \in Jobs, Tick(r, j)
  PROVE  JobsIInv'
  <1> DEFINE new == [at |-> "start", job |-> j, born |-> now, ok |-> TRUE]
  <1>1. /\ flag' = [flag EXCEPT ![j] = TRUE] /\ since' = [since EXCEPT ![j] = now]
        /\ run' = [run EXCEPT ![r] = new]
        /\ run[r].at = "idle"
        /\ UNCHANGED <<row, lastSkip, now, jobFaults, slow>>
    BY DEF Tick
  <1>2. /\ run'[r] = new
        /\ \A q \in Runs : q # r => run'[q] = run[q]
    BY <1>1 DEF JobsIInv, JobsTypeOK
  <1>3. /\ \A k \in Jobs : k # j => Alive(k)' = Alive(k)
        /\ Alive(j)' = Alive(j) \cup {r}
    BY <1>1, <1>2 DEF Alive
  <1>4. ~(j = Ingest /\ slow) => Alive(j) = {}
    <2> SUFFICES ASSUME ~(j = Ingest /\ slow), flag[j] PROVE FALSE
      BY DEF JobsIInv, JobsRunAlone
    <2>1. j = Ingest /\ now - since[j] >= Stale
      BY DEF Tick, Busy
    <2>2. PICK q \in Alive(j) : run[q].born = since[j]
      BY DEF JobsIInv, FlagsOK
    <2>3. now - run[q].born < Stale
      BY <2>1, <2>2 DEF JobsIInv, YoungOK, Young
    <2> QED BY <2>1, <2>2, <2>3, JobsAssumption DEF JobsIInv, JobsTypeOK
  <1>5. JobsTypeOK'
    <2>1. new \in [at : Stages, job : Jobs, born : Nat, ok : BOOLEAN]
      BY Zenon DEF JobsIInv, JobsTypeOK, Stages
    <2> HIDE DEF new
    <2> QED BY <1>1, <2>1 DEF JobsIInv, JobsTypeOK
  <1>6. FlagsOK'
    <2> SUFFICES ASSUME NEW k \in Jobs, flag'[k]
                 PROVE  \E q \in Alive(k)' : run'[q].born = since'[k]
      BY DEF FlagsOK
    <2>1. CASE k = j
      BY <1>1, <1>2, <1>3, <2>1 DEF JobsIInv, JobsTypeOK
    <2>2. CASE k # j
      <3>1. flag[k] /\ since'[k] = since[k] /\ Alive(k)' = Alive(k)
        BY <1>1, <1>3, <2>2 DEF JobsIInv, JobsTypeOK
      <3>2. PICK q \in Alive(k) : run[q].born = since[k]
        BY <3>1 DEF JobsIInv, FlagsOK
      <3>3. q # r /\ q \in Runs
        BY <1>1, <3>2 DEF Alive
      <3> QED BY <1>2, <3>1, <3>2, <3>3
    <2> QED BY <2>1, <2>2
  <1>7. YoungOK'
    <2> SUFFICES ASSUME ~slow, NEW q \in Alive(Ingest)'
                 PROVE  run'[q].born = since'[Ingest] /\ now - run'[q].born < Stale
      BY <1>1 DEF YoungOK, Young
    <2>1. CASE j = Ingest
      <3>1. q = r
        BY <1>3, <1>4, <2>1
      <3> QED BY <1>1, <1>2, <2>1, <3>1, JobsAssumption DEF JobsIInv, JobsTypeOK
    <2>2. CASE j # Ingest
      <3>1. q \in Alive(Ingest) /\ q # r
        BY <1>1, <1>3, <2>2, JobsAssumption DEF Alive
      <3>2. run'[q] = run[q] /\ since'[Ingest] = since[Ingest]
        BY <1>1, <1>2, <2>2, <3>1, JobsAssumption DEF JobsIInv, JobsTypeOK, Alive
      <3> QED BY <3>1, <3>2 DEF JobsIInv, YoungOK, Young
    <2> QED BY <2>1, <2>2
  <1>8. JobsRunAlone'
    <2> SUFFICES ASSUME NEW k \in Jobs, ~(k = Ingest /\ slow)
                 PROVE  /\ \A p, q \in Alive(k)' : p = q
                        /\ flag'[k] <=> Alive(k)' # {}
      BY <1>1 DEF JobsRunAlone
    <2>1. CASE k = j
      BY <1>1, <1>3, <1>4, <2>1 DEF JobsIInv, JobsTypeOK
    <2>2. CASE k # j
      BY <1>1, <1>3, <2>2 DEF JobsIInv, JobsTypeOK, JobsRunAlone
    <2> QED BY <2>1, <2>2
  <1> QED BY <1>5, <1>6, <1>7, <1>8 DEF JobsIInv

\* The run that ends clears the flag of its job; its own, if nobody took it.
LEMMA ReleaseKeeps ==
  ASSUME JobsIInv, NEW r \in Runs, Release(r)
  PROVE  JobsIInv'
  <1> PICK j \in Jobs : j = run[r].job
    BY DEF JobsIInv, JobsTypeOK
  <1>1. /\ flag' = [flag EXCEPT ![j] = FALSE] /\ since' = [since EXCEPT ![j] = 0]
        /\ run' = [run EXCEPT ![r] = Over]
        /\ run[r].at = "release"
        /\ UNCHANGED <<row, lastSkip, now, jobFaults, slow>>
    BY DEF Release
  <1>2. /\ run'[r] = Over
        /\ \A q \in Runs : q # r => run'[q] = run[q]
    BY <1>1 DEF JobsIInv, JobsTypeOK
  <1>3. Over.at = "over" /\ Over \in [at : Stages, job : Jobs, born : Nat, ok : BOOLEAN]
    BY BlankRuns
  <1>4. /\ \A k \in Jobs : k # j => Alive(k)' = Alive(k)
        /\ Alive(j)' = Alive(j) \ {r}
        /\ r \in Alive(j)
    BY <1>1, <1>2, <1>3 DEF Alive
  <1>5. JobsTypeOK'
    BY <1>1, <1>2, <1>3 DEF JobsIInv, JobsTypeOK
  <1>6. FlagsOK'
    <2> SUFFICES ASSUME NEW k \in Jobs, flag'[k]
                 PROVE  \E q \in Alive(k)' : run'[q].born = since'[k]
      BY DEF FlagsOK
    <2>1. k # j
      BY <1>1, <1>2 DEF JobsIInv, JobsTypeOK
    <2>2. flag[k] /\ since'[k] = since[k] /\ Alive(k)' = Alive(k)
      BY <1>1, <1>4, <2>1 DEF JobsIInv, JobsTypeOK
    <2>3. PICK q \in Alive(k) : run[q].born = since[k]
      BY <2>2 DEF JobsIInv, FlagsOK
    <2>4. q # r /\ q \in Runs
      BY <2>1, <2>3 DEF Alive
    <2> QED BY <1>2, <2>2, <2>3, <2>4
  <1>7. YoungOK'
    <2> SUFFICES ASSUME ~slow, NEW q \in Alive(Ingest)'
                 PROVE  run'[q].born = since'[Ingest] /\ now - run'[q].born < Stale
      BY <1>1 DEF YoungOK, Young
    <2>1. CASE j = Ingest
      BY <1>4, <2>1 DEF JobsIInv, JobsRunAlone
    <2>2. CASE j # Ingest
      <3>1. q \in Alive(Ingest) /\ q # r /\ q \in Runs
        BY <1>4, <2>2, JobsAssumption DEF Alive
      <3>2. run'[q] = run[q] /\ since'[Ingest] = since[Ingest]
        BY <1>1, <1>2, <2>2, <3>1, JobsAssumption DEF JobsIInv, JobsTypeOK
      <3> QED BY <3>1, <3>2 DEF JobsIInv, YoungOK, Young
    <2> QED BY <2>1, <2>2
  <1>8. JobsRunAlone'
    <2> SUFFICES ASSUME NEW k \in Jobs, ~(k = Ingest /\ slow)
                 PROVE  /\ \A p, q \in Alive(k)' : p = q
                        /\ flag'[k] <=> Alive(k)' # {}
      BY <1>1 DEF JobsRunAlone
    <2>1. CASE k = j
      BY <1>1, <1>2, <1>4, <2>1 DEF JobsIInv, JobsTypeOK, JobsRunAlone
    <2>2. CASE k # j
      BY <1>1, <1>4, <2>2 DEF JobsIInv, JobsTypeOK, JobsRunAlone
    <2> QED BY <2>1, <2>2
  <1> QED BY <1>5, <1>6, <1>7, <1>8 DEF JobsIInv

\* Time only makes runs older, and remembers when one of the ingest is old.
LEMMA TimeKeeps ==
  ASSUME JobsIInv, PassTime
  PROVE  JobsIInv'
  <1>1. /\ UNCHANGED <<flag, since, run, row, lastSkip, jobFaults>>
        /\ now' = now + 1
    BY DEF PassTime
  <1>8. slow' = (slow \/ \E r \in Alive(Ingest) : now + 1 - run[r].born >= Stale)
    BY DEF PassTime
  <1>2. \A j \in Jobs \cup {Ingest} : Alive(j)' = Alive(j)
    BY <1>1 DEF Alive
  <1>3. JobsTypeOK'
    <2>1. slow' = TRUE \/ slow' = FALSE
      <3>1. CASE slow \/ \E r \in Alive(Ingest) : now + 1 - run[r].born >= Stale
        BY <1>8, <3>1, Zenon
      <3>2. CASE ~(slow \/ \E r \in Alive(Ingest) : now + 1 - run[r].born >= Stale)
        BY <1>8, <3>2, Zenon
      <3> QED BY <3>1, <3>2
    <2>2. slow' \in BOOLEAN
      BY <2>1, Zenon
    <2>3. now' \in Nat
      BY <1>1 DEF JobsIInv, JobsTypeOK
    <2> QED BY <1>1, <2>2, <2>3 DEF JobsIInv, JobsTypeOK
  <1>4. FlagsOK'
    BY <1>1, <1>2 DEF JobsIInv, FlagsOK
  <1>5. slow => slow'
    BY <1>8
  <1>6. YoungOK'
    <2> SUFFICES ASSUME ~slow', NEW q \in Alive(Ingest)'
                 PROVE  (run[q].born = since[Ingest] /\ now - run[q].born < Stale)'
      BY DEF YoungOK, Young
    <2>1. q \in Alive(Ingest)
      BY <1>2
    <2>2. run[q].born = since[Ingest]
      BY <1>5, <2>1 DEF JobsIInv, YoungOK, Young
    <2>3. ~(now + 1 - run[q].born >= Stale)
      BY <1>8, <2>1
    <2>4. q \in Runs
      BY <2>1 DEF Alive
    <2>5. now + 1 - run[q].born < Stale
      BY <2>3, <2>4, JobsAssumption DEF JobsIInv, JobsTypeOK
    <2> QED BY <1>1, <2>2, <2>4, <2>5, JobsAssumption DEF JobsIInv, JobsTypeOK
  <1>7. JobsRunAlone'
    BY <1>1, <1>2, <1>5 DEF JobsIInv, JobsRunAlone
  <1> QED BY <1>3, <1>4, <1>6, <1>7 DEF JobsIInv

\* A crash leaves neither flags nor runs.
LEMMA CrashKeeps ==
  ASSUME JobsIInv, Crash
  PROVE  JobsIInv'
  <1>3. \A j \in Jobs \cup {Ingest} : Alive(j)' = {}
    BY BlankRuns DEF Crash, Alive
  <1>4. JobsTypeOK'
    BY BlankRuns DEF JobsIInv, JobsTypeOK, Crash
  <1> QED BY <1>3, <1>4 DEF JobsIInv, FlagsOK, YoungOK, Young, JobsRunAlone, Crash

LEMMA JobsNextOK == JobsIInv /\ [JobsNext]_jobVars => JobsIInv'
  <1> SUFFICES ASSUME JobsIInv, [JobsNext]_jobVars PROVE JobsIInv'
    OBVIOUS
  <1>1. CASE UNCHANGED jobVars
    BY <1>1 DEF jobVars, JobsIInv, JobsTypeOK, FlagsOK, YoungOK, Young, JobsRunAlone, Alive
  <1>2. ASSUME NEW j \in Jobs, SkipTick(j) PROVE JobsIInv'
    <2>1. UNCHANGED <<flag, since, run, row, now, jobFaults, slow>>
          /\ lastSkip' \in [Jobs -> Nat]
      BY <1>2 DEF SkipTick, JobsIInv, JobsTypeOK
    <2> QED BY <2>1 DEF JobsIInv, JobsTypeOK, FlagsOK, YoungOK, Young, JobsRunAlone, Alive
  <1> QED BY <1>1, <1>2, MovingKeeps, TickKeeps, ReleaseKeeps, TimeKeeps, CrashKeeps
          DEF JobsNext, Advance

-----------------------------------------------------------------------------
\* The invariant holds of every reachable state.
THEOREM JobsInvariant == JobsSpec => []JobsIInv
  BY JobsInitOK, JobsNextOK, PTL DEF JobsSpec

\* Flags, calls and rows only hold the values they can have.
THEOREM JobsTypeCorrect == JobsSpec => []JobsTypeOK
  BY JobsInvariant, PTL DEF JobsIInv

\* A job runs once at a time and its flag is set exactly meanwhile, whatever
\* fails; the ingest until one of its runs reaches the limit.
THEOREM RunsAlone == JobsSpec => []JobsRunAlone
  BY JobsInvariant, PTL DEF JobsIInv

\* A tick of the ingest is skipped only for a run that is alive and young.
THEOREM SkipsHaveReason == JobsSpec => SkipsAreJustified
  <1>1. ASSUME JobsIInv, [JobsNext]_jobVars, SkipTick(Ingest)
        PROVE  \E r \in Alive(Ingest) : now - run[r].born < Stale
    <2>1. flag[Ingest] /\ ~(now - since[Ingest] >= Stale)
      BY <1>1 DEF SkipTick, Busy
    <2>2. PICK r \in Alive(Ingest) : run[r].born = since[Ingest]
      BY <1>1, <2>1, JobsAssumption DEF JobsIInv, FlagsOK
    <2> QED BY <1>1, <2>1, <2>2, JobsAssumption DEF JobsIInv, JobsTypeOK
  <1>2. JobsIInv /\ [JobsNext]_jobVars =>
          [SkipTick(Ingest) => \E r \in Alive(Ingest) : now - run[r].born < Stale]_jobVars
    BY <1>1
  <1> QED BY <1>2, JobsInvariant, PTL DEF JobsSpec, SkipsAreJustified

-----------------------------------------------------------------------------
(***************************************************************************)
(* The articles.                                                           *)
(***************************************************************************)

\* A worker that has not reached the time of its lock holds it; what an
\* ingest has still to write was listed, and as long as no two ingests have
\* overlapped it is alone, and knows all the domains of those articles.
LockOK == \A w \in Workers : InBatch(w) /\ ~batch[w].over => jobLock = w /\ ~lapsed

ListedOK ==
    \A i \in Ingests : \A a \in ingest[i].todo : ingest[i].rows[a].age # "none"

Knows(i) ==
    /\ \A k \in Ingests \ {i} : ingest[k].at = "idle"
    /\ ingest[i].at = "write" =>
         \A a \in ingest[i].todo : article[a].domains \subseteq ingest[i].prev[a]

KnowsOK == ~met => \A i \in Ingests : ingest[i].at # "idle" => Knows(i)

NewsIInv == NewsTypeOK /\ LockOK /\ ListedOK /\ KnowsOK

IngestRecords == [at : {"idle", "read", "write", "quick"},
                  rows : [Articles -> Row], prev : [Articles -> SUBSET Domains],
                  known : SUBSET Articles, todo : SUBSET Articles]

BatchRecords == [at : {"idle", "create", "scan", "fill", "release"},
                 items : SUBSET Articles, over : BOOLEAN]

\* The records of calls that are not going on.
LEMMA BlankCalls ==
    /\ Nothing \in Row /\ Nothing.age = "none" /\ Nothing.domains = {}
    /\ NoIngest \in IngestRecords /\ NoIngest.at = "idle" /\ NoIngest.todo = {}
    /\ NoBatch \in BatchRecords /\ NoBatch.at = "idle"
    /\ NoCleanup \in [at : {"idle", "articles", "caches"}, found : SUBSET Articles]
  <1>1. Nothing \in Row /\ Nothing.age = "none" /\ Nothing.domains = {}
    BY DEF Nothing, Row
  <1>2. /\ [a \in Articles |-> Nothing] \in [Articles -> Row]
        /\ [a \in Articles |-> {}] \in [Articles -> SUBSET Domains]
    BY <1>1
  <1>3. NoIngest.at = "idle" /\ NoIngest.todo = {}
    BY DEF NoIngest
  <1>4. NoIngest \in IngestRecords
    BY <1>2 DEF NoIngest, IngestRecords
  <1>5. NoBatch.at = "idle"
    BY DEF NoBatch
  <1>6. NoBatch \in BatchRecords
    BY Zenon DEF NoBatch, BatchRecords
  <1> QED BY <1>1, <1>3, <1>4, <1>5, <1>6 DEF NoCleanup

LEMMA NewsInitOK == NewsInit => NewsIInv
  <1> SUFFICES ASSUME NewsInit PROVE NewsIInv
    OBVIOUS
  <1>1. /\ ingest \in [Ingests -> IngestRecords]
        /\ batch \in [Workers -> BatchRecords]
        /\ article \in [Articles -> Row]
    BY BlankCalls DEF NewsInit
  <1>2. lapsed \in BOOLEAN /\ met \in BOOLEAN
    BY Zenon DEF NewsInit
  <1>3. NewsTypeOK
    BY <1>1, <1>2, BlankCalls DEF NewsInit, NewsTypeOK, IngestRecords, BatchRecords
  <1>4. LockOK /\ ListedOK /\ KnowsOK
    BY BlankCalls DEF NewsInit, LockOK, InBatch, ListedOK, KnowsOK
  <1> QED BY <1>3, <1>4 DEF NewsIInv

\* The steps of the batch leave the articles alone; those of the ingest and
\* of the cleanup the lock.
BatchVars == <<batch, jobLock, lapsed>>

LEMMA OtherBatches ==
    ASSUME NewsIInv, UNCHANGED BatchVars
    PROVE  LockOK'
  BY DEF NewsIInv, BatchVars, LockOK, InBatch

LEMMA OtherIngests ==
    ASSUME NewsIInv, UNCHANGED <<article, ingest, met>>
    PROVE  ListedOK' /\ KnowsOK'
  BY DEF NewsIInv, ListedOK, KnowsOK, Knows

\* A worker that moves on without the lock.
LEMMA WorkerMoves ==
    ASSUME NewsIInv, NEW w \in Workers, NEW new \in BatchRecords,
           batch' = [batch EXCEPT ![w] = new],
           new.at \in {"scan", "fill", "release"} => InBatch(w) /\ new.over = batch[w].over,
           jobLock' = jobLock, lapsed' = lapsed
    PROVE  LockOK' /\ batch' \in [Workers -> BatchRecords]
  <1>1. batch \in [Workers -> BatchRecords]
    BY DEF NewsIInv, NewsTypeOK, BatchRecords
  <1>2. \A v \in Workers : batch'[v] = IF v = w THEN new ELSE batch[v]
    BY <1>1
  <1>3. LockOK
    BY DEF NewsIInv
  <1>4. LockOK'
    BY <1>2, <1>3 DEF LockOK, InBatch
  <1> QED BY <1>1, <1>4

\* The steps of a batch keep the invariant: the lock is only taken when no
\* worker holds it.
LEMMA BatchKeeps ==
    ASSUME NewsIInv, NEW w \in Workers, BatchStep(w) \/ BatchFails(w) \/ WorkerDies(w)
    PROVE  NewsIInv'
  <1>1. /\ NewsTypeOK /\ LockOK
        /\ batch \in [Workers -> BatchRecords] /\ batch[w] \in BatchRecords
    BY DEF NewsIInv, NewsTypeOK, BatchRecords
  <1>2. UNCHANGED <<article, ingest, cleaner, collects, met>>
    BY DEF BatchStep, DropLapsed, Acquire, Scan, Fill, Unlock,
           BatchFails, WorkerDies
  <1>3. ListedOK' /\ KnowsOK'
    BY <1>2, OtherIngests
  <1>4. ASSUME LockOK', batch' \in [Workers -> BatchRecords],
               jobLock' \in Workers \cup {NoWorker}, lapsed' \in BOOLEAN,
               cache' \subseteq Articles \X Locales, newsFaults' \in Nat
        PROVE  NewsIInv'
    <2>1. NewsTypeOK'
      BY <1>1, <1>2, <1>4 DEF NewsTypeOK, BatchRecords
    <2> QED BY <1>3, <1>4, <2>1 DEF NewsIInv
  <1>5. /\ \A a \in {"create", "scan"} : [batch[w] EXCEPT !.at = a] \in BatchRecords
        /\ \A a \in {"fill", "release"}, items \in SUBSET Articles :
             [batch[w] EXCEPT !.at = a, !.items = items] \in BatchRecords
    BY <1>1, Zenon DEF BatchRecords
  <1>6. CASE DropLapsed(w)
    <2> DEFINE new == [batch[w] EXCEPT !.at = "create"]
    <2>1. /\ batch' = [batch EXCEPT ![w] = new]
          /\ jobLock' = IF lapsed THEN NoWorker ELSE jobLock
          /\ lapsed' = FALSE
          /\ UNCHANGED <<cache, newsFaults>>
      BY <1>1, <1>6 DEF DropLapsed
    <2>2. new \in BatchRecords /\ new.at = "create"
      BY <1>1, <1>5 DEF BatchRecords
    <2> HIDE DEF new
    <2>3. batch' \in [Workers -> BatchRecords]
      BY <1>1, <2>1, <2>2
    <2>4. LockOK'
      <3>1. \A v \in Workers : batch'[v] = IF v = w THEN new ELSE batch[v]
        BY <1>1, <2>1
      <3> QED BY <1>1, <2>1, <2>2, <3>1 DEF LockOK, InBatch
    <2>5. lapsed' \in BOOLEAN
      BY <2>1
    <2> QED BY <1>1, <1>4, <2>1, <2>3, <2>4, <2>5 DEF NewsTypeOK
  <1>7. CASE Acquire(w) /\ jobLock = NoWorker
    <2> DEFINE new == [batch[w] EXCEPT !.at = "scan"]
    <2>1. /\ batch' = [batch EXCEPT ![w] = new]
          /\ jobLock' = w /\ lapsed' = FALSE
          /\ UNCHANGED <<cache, newsFaults>>
      BY <1>1, <1>7 DEF Acquire
    <2>2. new \in BatchRecords
      BY <1>5
    <2> HIDE DEF new
    <2>3. batch' \in [Workers -> BatchRecords]
      BY <1>1, <2>1, <2>2
    <2>4. LockOK'
      <3>1. \A v \in Workers : batch'[v] = IF v = w THEN new ELSE batch[v]
        BY <1>1, <2>1
      <3>2. \A v \in Workers : InBatch(v) => batch[v].over
        BY <1>1, <1>7, ArticlesAssumption DEF LockOK
      <3> QED BY <1>1, <2>1, <3>1, <3>2 DEF LockOK, InBatch
    <2>5. lapsed' \in BOOLEAN
      BY <2>1
    <2> QED BY <1>1, <1>4, <2>1, <2>3, <2>4, <2>5 DEF NewsTypeOK
  <1>8. ASSUME NEW new \in BatchRecords, batch' = [batch EXCEPT ![w] = new],
               new.at \in {"scan", "fill", "release"} =>
                 InBatch(w) /\ new.over = batch[w].over,
               UNCHANGED <<jobLock, lapsed>>,
               cache' \subseteq Articles \X Locales, newsFaults' \in Nat
        PROVE  NewsIInv'
    <2>1. LockOK' /\ batch' \in [Workers -> BatchRecords]
      BY <1>8, WorkerMoves
    <2>2. jobLock' \in Workers \cup {NoWorker} /\ lapsed' \in BOOLEAN
      BY <1>1, <1>8 DEF NewsTypeOK
    <2> QED BY <1>4, <1>8, <2>1, <2>2
  <1>9. CASE (Acquire(w) /\ jobLock # NoWorker) \/ WorkerDies(w)
    <2>1. /\ batch' = [batch EXCEPT ![w] = NoBatch]
          /\ UNCHANGED <<cache, jobLock, lapsed>>
          /\ newsFaults' \in Nat
      BY <1>1, <1>9 DEF Acquire, WorkerDies, Fault, NewsTypeOK
    <2> QED BY <1>1, <1>8, <2>1, BlankCalls DEF NewsTypeOK
  <1>10. CASE Scan(w)
    <2> DEFINE items == ScanMissing
               new   == [batch[w] EXCEPT !.at = "fill", !.items = items]
    <2>1. /\ batch' = [batch EXCEPT ![w] = new]
          /\ UNCHANGED <<cache, newsFaults, jobLock, lapsed>>
          /\ InBatch(w)
      BY <1>1, <1>10 DEF Scan, InBatch
    <2>2. new \in BatchRecords
      <3>1. items \in SUBSET Articles
        BY DEF ScanMissing, Scanned, Newest
      <3> QED BY <1>5, <3>1
    <2>3. new.over = batch[w].over
      BY <1>1 DEF BatchRecords
    <2> HIDE DEF new
    <2> QED BY <1>1, <1>8, <2>1, <2>2, <2>3 DEF NewsTypeOK
  <1>11. CASE Fill(w)
    <2> DEFINE new == [batch[w] EXCEPT !.at = "release", !.items = {}]
    <2>1. /\ batch' = [batch EXCEPT ![w] = new]
          /\ UNCHANGED <<jobLock, lapsed>>
          /\ InBatch(w)
      BY <1>1, <1>11 DEF Fill, InBatch
    <2>2. new \in BatchRecords
      BY <1>5
    <2>3. new.over = batch[w].over
      BY <1>1 DEF BatchRecords
    <2> HIDE DEF new
    <2>4. PICK got \in SUBSET (batch[w].items \X Locales) : cache' = cache \cup got
      <3>1. (batch[w].items \X Locales) \in SUBSET (batch[w].items \X Locales)
        OBVIOUS
      <3> QED BY <1>11, <3>1, Zenon DEF Fill
    <2>5. cache' \subseteq Articles \X Locales
      <3>1. batch[w].items \subseteq Articles
        BY <1>1 DEF BatchRecords
      <3>2. got \subseteq Articles \X Locales
        BY <2>4, <3>1
      <3> QED BY <1>1, <2>4, <3>2 DEF NewsTypeOK
    <2>6. newsFaults' \in Nat
      BY <1>1, <1>11 DEF Fill, Fault, NewsTypeOK
    <2> QED BY <1>8, <2>1, <2>2, <2>3, <2>5, <2>6
  <1>13. CASE BatchFails(w)
    <2> DEFINE new == [batch[w] EXCEPT !.at = "release", !.items = {}]
    <2>1. /\ batch' = [batch EXCEPT ![w] = new]
          /\ UNCHANGED <<cache, jobLock, lapsed>>
          /\ InBatch(w)
      BY <1>1, <1>13 DEF BatchFails, InBatch
    <2>2. new \in BatchRecords
      BY <1>5
    <2>3. new.over = batch[w].over
      BY <1>1 DEF BatchRecords
    <2>4. newsFaults' \in Nat
      BY <1>1, <1>13 DEF BatchFails, Fault, NewsTypeOK
    <2> HIDE DEF new
    <2> QED BY <1>1, <1>8, <2>1, <2>2, <2>3, <2>4 DEF NewsTypeOK
  <1>12. CASE Unlock(w)
    <2>1. /\ batch' = [batch EXCEPT ![w] = NoBatch]
          /\ jobLock' = IF jobLock = w THEN NoWorker ELSE jobLock
          /\ lapsed' = (lapsed /\ jobLock # w)
          /\ UNCHANGED <<cache, newsFaults>>
      BY <1>12 DEF Unlock
    <2>2. batch' \in [Workers -> BatchRecords]
      BY <1>1, <2>1, BlankCalls
    <2>3. LockOK'
      <3>1. \A v \in Workers : batch'[v] = IF v = w THEN NoBatch ELSE batch[v]
        BY <1>1, <2>1
      <3> QED BY <1>1, <2>1, <3>1, BlankCalls DEF LockOK, InBatch
    <2>4. lapsed' \in BOOLEAN
      BY <2>1
    <2> QED BY <1>1, <1>4, <2>1, <2>2, <2>3, <2>4 DEF NewsTypeOK
  <1> QED BY <1>6, <1>7, <1>9, <1>10, <1>11, <1>12, <1>13 DEF BatchStep

\* The worker whose time passes is the one that holds the lock.
LEMMA LapseKeeps == ASSUME NewsIInv, Lapse PROVE NewsIInv'
  <1>1. NewsTypeOK /\ LockOK /\ batch \in [Workers -> BatchRecords]
    BY DEF NewsIInv, NewsTypeOK, BatchRecords
  <1>2. UNCHANGED <<article, cache, ingest, jobLock, cleaner, newsFaults, collects, met>>
    BY DEF Lapse
  <1>3. \A w \in Workers : [batch[w] EXCEPT !.over = TRUE] \in BatchRecords
    BY <1>1, Zenon DEF BatchRecords
  <1>4. \A w \in Workers :
          batch'[w] = IF w = jobLock /\ InBatch(w)
                      THEN [batch[w] EXCEPT !.over = TRUE] ELSE batch[w]
    BY DEF Lapse
  <1>5. batch' \in [Workers -> BatchRecords]
    BY <1>1, <1>3 DEF Lapse
  <1>6. \A w \in Workers : /\ batch'[w].at = batch[w].at
                           /\ batch[w].over => batch'[w].over
                           /\ w = jobLock /\ InBatch(w) => batch'[w].over
    <2> SUFFICES ASSUME NEW w \in Workers
                 PROVE  /\ batch'[w].at = batch[w].at
                        /\ batch[w].over => batch'[w].over
                        /\ w = jobLock /\ InBatch(w) => batch'[w].over
      OBVIOUS
    <2>1. batch[w] \in BatchRecords
      BY <1>1
    <2>2. /\ [batch[w] EXCEPT !.over = TRUE].at = batch[w].at
          /\ [batch[w] EXCEPT !.over = TRUE].over
      BY <2>1 DEF BatchRecords
    <2> QED BY <1>4, <2>2
  <1>7. LockOK'
    BY <1>1, <1>2, <1>6 DEF LockOK, InBatch
  <1>8. lapsed' \in BOOLEAN
    BY DEF Lapse
  <1>9. NewsTypeOK'
    BY <1>1, <1>2, <1>5, <1>8 DEF NewsTypeOK, BatchRecords
  <1> QED BY <1>2, <1>7, <1>9, OtherIngests DEF NewsIInv

\* A call of the ingest that is given up, ends or has no more to write.
LEMMA IngestMoves ==
    ASSUME NewsIInv, NEW i \in Ingests, NEW new \in IngestRecords,
           ingest' = [ingest EXCEPT ![i] = new], UNCHANGED <<article, met>>,
           new.rows = ingest[i].rows, new.todo \subseteq ingest[i].todo,
           ingest[i].at = "idle" => new.at = "idle",
           new.at = "write" => \A a \in new.todo : article[a].domains \subseteq new.prev[a]
    PROVE  ingest' \in [Ingests -> IngestRecords] /\ ListedOK' /\ KnowsOK'
  <1>1. ingest \in [Ingests -> IngestRecords]
    BY DEF NewsIInv, NewsTypeOK, IngestRecords
  <1>2. \A k \in Ingests : ingest'[k] = IF k = i THEN new ELSE ingest[k]
    BY <1>1
  <1>3. ListedOK'
    BY <1>2 DEF NewsIInv, ListedOK
  <1>4. KnowsOK'
    BY <1>2 DEF NewsIInv, KnowsOK, Knows
  <1> QED BY <1>1, <1>3, <1>4

\* The same of a call that is over: it has nothing left to write.
LEMMA IngestEnds ==
    ASSUME NewsIInv, NEW i \in Ingests, ingest' = [ingest EXCEPT ![i] = NoIngest],
           UNCHANGED <<article, met>>
    PROVE  ingest' \in [Ingests -> IngestRecords] /\ ListedOK' /\ KnowsOK'
  <1>1. ingest \in [Ingests -> IngestRecords]
    BY DEF NewsIInv, NewsTypeOK, IngestRecords
  <1>2. \A k \in Ingests : ingest'[k] = IF k = i THEN NoIngest ELSE ingest[k]
    BY <1>1
  <1>3. ListedOK'
    BY <1>2, BlankCalls DEF NewsIInv, ListedOK
  <1>4. KnowsOK'
    BY <1>2, BlankCalls DEF NewsIInv, KnowsOK, Knows
  <1> QED BY <1>1, <1>3, <1>4, BlankCalls

\* The steps of an ingest keep the invariant.
LEMMA IngestKeeps ==
    ASSUME NewsIInv, NEW i \in Ingests, Collect(i) \/ IngestStep(i) \/ IngestFails(i)
    PROVE  NewsIInv'
  <1>1. /\ NewsTypeOK /\ ListedOK /\ KnowsOK
        /\ ingest \in [Ingests -> IngestRecords] /\ ingest[i] \in IngestRecords
        /\ article \in [Articles -> Row]
    BY DEF NewsIInv, NewsTypeOK, IngestRecords
  <1>2. UNCHANGED <<batch, jobLock, lapsed, cleaner>>
    BY DEF Collect, IngestStep, ReadExisting, Upsert, Quick, IngestFails
  <1>3. LockOK'
    BY <1>2, OtherBatches DEF BatchVars
  <1>4. ASSUME ListedOK', KnowsOK', article' \in [Articles -> Row],
               ingest' \in [Ingests -> IngestRecords],
               cache' \subseteq Articles \X Locales,
               newsFaults' \in Nat, collects' \in Nat, met' \in BOOLEAN
        PROVE  NewsIInv'
    <2>1. NewsTypeOK'
      BY <1>1, <1>2, <1>4 DEF NewsTypeOK, IngestRecords
    <2> QED BY <1>3, <1>4, <2>1 DEF NewsIInv
  <1>5. CASE Collect(i)
    <2>1. PICK S \in (SUBSET Articles) \ {{}}, d \in (SUBSET Domains) \ {{}},
               g \in {"fresh", "old"}, p \in BOOLEAN :
            ingest' = [ingest EXCEPT ![i] =
                [NoIngest EXCEPT !.at = "read", !.todo = S,
                    !.rows = [a \in Articles |->
                        IF a \in S THEN [age |-> g, recent |-> p, domains |-> d]
                        ELSE Nothing]]]
      BY <1>5 DEF Collect
    <2> DEFINE rows == [a \in Articles |->
                          IF a \in S THEN [age |-> g, recent |-> p, domains |-> d]
                          ELSE Nothing]
               new  == [NoIngest EXCEPT !.at = "read", !.todo = S, !.rows = rows]
    <2>2. rows \in [Articles -> Row] /\ \A a \in S : rows[a].age # "none"
      <3>1. [age |-> g, recent |-> p, domains |-> d] \in Row
        BY DEF Row
      <3> QED BY <3>1, BlankCalls
    <2> HIDE DEF rows
    <2>5. new \in IngestRecords /\ new.at = "read" /\ new.todo = S /\ new.rows = rows
      BY <2>2, BlankCalls DEF IngestRecords
    <2>6. ingest' = [ingest EXCEPT ![i] = new]
      BY <2>1 DEF rows
    <2> HIDE DEF new
    <2>7. \A k \in Ingests : ingest'[k] = IF k = i THEN new ELSE ingest[k]
      BY <1>1, <2>6
    <2>8. ListedOK'
      BY <1>1, <2>2, <2>5, <2>7 DEF ListedOK
    <2>9. /\ met' = (met \/ \E k \in Ingests \ {i} : ingest[k].at # "idle")
          /\ UNCHANGED <<article, cache, newsFaults>>
          /\ collects' \in Nat
      <3>1. collects' = collects + 1
        BY <1>5 DEF Collect
      <3>2. UNCHANGED <<article, cache, newsFaults>>
        BY <1>5 DEF Collect
      <3>3. met' = (met \/ \E k \in Ingests \ {i} : ingest[k].at # "idle")
        BY <1>5, Zenon DEF Collect
      <3> QED BY <1>1, <3>1, <3>2, <3>3 DEF NewsTypeOK
    <2>10. KnowsOK'
      <3> SUFFICES ASSUME ~met' PROVE KnowsOK'
        BY DEF KnowsOK
      <3>1. \A k \in Ingests \ {i} : ingest'[k].at = "idle"
        BY <2>7, <2>9
      <3> QED BY <2>5, <2>7, <3>1 DEF KnowsOK, Knows
    <2>11. met' \in BOOLEAN
      BY <2>9
    <2> QED BY <1>1, <1>4, <2>5, <2>6, <2>8, <2>9, <2>10, <2>11 DEF NewsTypeOK
  <1>6. CASE ReadExisting(i)
    <2> DEFINE prev == [a \in Articles |->
                          IF a \in ingest[i].todo THEN article[a].domains ELSE {}]
               known == {a \in ingest[i].todo : Exists(a)}
               new  == [ingest[i] EXCEPT !.at = "write", !.known = known, !.prev = prev]
    <2>1. /\ ingest' = [ingest EXCEPT ![i] = new]
          /\ ingest[i].at = "read"
          /\ UNCHANGED <<article, cache, newsFaults, collects, met>>
      BY <1>1, <1>6 DEF ReadExisting
    <2>2. prev \in [Articles -> SUBSET Domains] /\ known \in SUBSET Articles
      <3>1. \A a \in Articles : article[a].domains \in SUBSET Domains
        BY <1>1 DEF Row
      <3>2. ingest[i].todo \subseteq Articles
        BY <1>1 DEF IngestRecords
      <3> QED BY <3>1, <3>2
    <2>3. \A a \in ingest[i].todo : article[a].domains \subseteq prev[a]
      BY <1>1 DEF IngestRecords
    <2> HIDE DEF prev, known
    <2>4. /\ new \in IngestRecords
          /\ new.rows = ingest[i].rows /\ new.todo = ingest[i].todo /\ new.prev = prev
      BY <1>1, <2>2 DEF IngestRecords
    <2> HIDE DEF new
    <2>5. ingest' \in [Ingests -> IngestRecords] /\ ListedOK' /\ KnowsOK'
      BY <2>1, <2>3, <2>4, IngestMoves
    <2> QED BY <1>1, <1>4, <2>1, <2>5 DEF NewsTypeOK
  <1>7. CASE Upsert(i)
    <2>1. PICK a \in ingest[i].todo, made \in BOOLEAN :
            /\ article' = [article EXCEPT ![a] = Merged(i, a, made)]
            /\ LET left == ingest[i].todo \ {a}
               IN  ingest' = [ingest EXCEPT ![i].todo = left,
                                  ![i].at = IF left = {} THEN "quick" ELSE "write"]
      BY <1>7 DEF Upsert
    <2> DEFINE left == ingest[i].todo \ {a}
               new  == [ingest[i] EXCEPT !.todo = left,
                                         !.at = IF left = {} THEN "quick" ELSE "write"]
    <2>2. ingest' = [ingest EXCEPT ![i] = new] /\ ingest[i].at = "write"
      BY <1>1, <1>7, <2>1 DEF Upsert
    <2>3. /\ new \in IngestRecords
          /\ new.rows = ingest[i].rows /\ new.todo = left /\ new.prev = ingest[i].prev
          /\ new.at \in {"quick", "write"}
      BY <1>1 DEF IngestRecords
    <2> HIDE DEF new
    <2>4. UNCHANGED <<cache, newsFaults, collects, met>>
      BY <1>7 DEF Upsert
    <2>5. \A k \in Ingests : ingest'[k] = IF k = i THEN new ELSE ingest[k]
      BY <1>1, <2>2
    <2>6. ListedOK'
      BY <1>1, <2>3, <2>5 DEF ListedOK
    <2>7. a \in Articles /\ Merged(i, a, made) \in Row
      <3>1. a \in Articles /\ ingest[i].rows[a] \in Row /\ ingest[i].prev[a] \in SUBSET Domains
        BY <1>1 DEF IngestRecords
      <3>2. (ingest[i].rows[a].recent \/ made \/ ~Exists(a)) \in BOOLEAN
        OBVIOUS
      <3> QED BY <3>1, <3>2, Zenon DEF Merged, Row
    <2>8. article' \in [Articles -> Row]
      BY <1>1, <2>1, <2>7
    <2>9. KnowsOK'
      <3> SUFFICES ASSUME ~met' PROVE KnowsOK'
        BY DEF KnowsOK
      <3>1. Knows(i)
        BY <1>1, <2>2, <2>4 DEF KnowsOK
      <3>2. \A k \in Ingests \ {i} : ingest'[k].at = "idle"
        BY <2>5, <3>1 DEF Knows
      <3>3. \A b \in left : article'[b] = article[b]
        BY <1>1, <2>1, <2>7 DEF IngestRecords
      <3>4. \A b \in new.todo : article'[b].domains \subseteq new.prev[b]
        BY <2>2, <2>3, <3>1, <3>3 DEF Knows
      <3> QED BY <2>5, <3>2, <3>4 DEF KnowsOK, Knows
    <2>10. ingest' \in [Ingests -> IngestRecords]
      BY <1>1, <2>2, <2>3
    <2> QED BY <1>1, <1>4, <2>4, <2>6, <2>8, <2>9, <2>10 DEF NewsTypeOK
  <1>8. CASE Quick(i)
    <2>1. /\ ingest' = [ingest EXCEPT ![i] = NoIngest]
          /\ UNCHANGED <<article, newsFaults, collects, met>>
      BY <1>8 DEF Quick
    <2>2. cache' \subseteq Articles \X Locales
      <3> DEFINE fresh == {a \in Articles : /\ ingest[i].rows[a].age # "none"
                                            /\ a \notin ingest[i].known
                                            /\ Missing(a)}
      <3>1. PICK got \in SUBSET (fresh \X Locales) : cache' = cache \cup got
        BY <1>8, Zenon DEF Quick
      <3>2. fresh \subseteq Articles
        OBVIOUS
      <3> HIDE DEF fresh
      <3> QED BY <1>1, <3>1, <3>2 DEF NewsTypeOK
    <2>3. ingest' \in [Ingests -> IngestRecords] /\ ListedOK' /\ KnowsOK'
      BY <2>1, IngestEnds
    <2> QED BY <1>1, <1>4, <2>1, <2>2, <2>3 DEF NewsTypeOK
  <1>9. CASE IngestFails(i)
    <2>1. /\ ingest' = [ingest EXCEPT ![i] = NoIngest]
          /\ UNCHANGED <<article, cache, collects, met>>
          /\ newsFaults' \in Nat
      BY <1>1, <1>9 DEF IngestFails, Fault, NewsTypeOK
    <2>2. ingest' \in [Ingests -> IngestRecords] /\ ListedOK' /\ KnowsOK'
      BY <2>1, IngestEnds
    <2> QED BY <1>1, <1>4, <2>1, <2>2 DEF NewsTypeOK
  <1> QED BY <1>5, <1>6, <1>7, <1>8, <1>9 DEF IngestStep

\* An article that is deleted or grows old gains no domain.
LEMMA CleanupKeeps ==
    ASSUME NewsIInv, \/ FindStale \/ DeleteArticles \/ DeleteCaches
                     \/ CleanupFails \/ GrowOld \/ LeaveLookback
    PROVE  NewsIInv'
  <1>1. NewsTypeOK /\ ListedOK /\ KnowsOK /\ article \in [Articles -> Row]
    BY DEF NewsIInv, NewsTypeOK
  <1>2. UNCHANGED <<ingest, batch, jobLock, lapsed, collects, met>>
    BY DEF FindStale, DeleteArticles, DeleteCaches, CleanupFails, GrowOld, LeaveLookback
  <1>3. LockOK'
    BY <1>2, OtherBatches DEF BatchVars
  <1>4. ListedOK'
    BY <1>1, <1>2 DEF ListedOK
  <1>5. ASSUME article' \in [Articles -> Row],
               \A a \in Articles : article'[a].domains \subseteq article[a].domains,
               cache' \subseteq Articles \X Locales, newsFaults' \in Nat,
               cleaner' \in [at : {"idle", "articles", "caches"}, found : SUBSET Articles]
        PROVE  NewsIInv'
    <2>1. NewsTypeOK'
      BY <1>1, <1>2, <1>5 DEF NewsTypeOK
    <2>2. KnowsOK'
      <3>1. \A i \in Ingests : ingest[i].todo \subseteq Articles
        BY <1>1 DEF NewsTypeOK
      <3> QED BY <1>1, <1>2, <1>5, <3>1 DEF KnowsOK, Knows
    <2> QED BY <1>3, <1>4, <2>1, <2>2 DEF NewsIInv
  <1>6. ASSUME article' = article, cache' \subseteq cache, newsFaults' \in Nat,
               cleaner' \in [at : {"idle", "articles", "caches"}, found : SUBSET Articles]
        PROVE  NewsIInv'
    <2>1. cache' \subseteq Articles \X Locales
      BY <1>1, <1>6 DEF NewsTypeOK
    <2> QED BY <1>1, <1>5, <1>6, <2>1
  <1>7. CASE FindStale
    <2>1. cleaner' \in [at : {"idle", "articles", "caches"}, found : SUBSET Articles]
      BY <1>7 DEF FindStale
    <2> QED BY <1>1, <1>6, <1>7, <2>1 DEF FindStale, NewsTypeOK
  <1>8. CASE DeleteArticles
    <2>1. PICK D \in SUBSET Articles :
            article' = [a \in Articles |-> IF a \in D THEN Nothing ELSE article[a]]
      BY <1>8 DEF DeleteArticles
    <2>2. /\ article' \in [Articles -> Row]
          /\ \A a \in Articles : article'[a].domains \subseteq article[a].domains
      BY <1>1, <2>1, BlankCalls
    <2>3. cleaner' \in [at : {"idle", "articles", "caches"}, found : SUBSET Articles]
      BY <1>1, <1>8 DEF DeleteArticles, NewsTypeOK
    <2> QED BY <1>1, <1>5, <1>8, <2>2, <2>3 DEF DeleteArticles, NewsTypeOK
  <1>9. CASE DeleteCaches
    <2>1. cache' \subseteq cache /\ UNCHANGED <<article, newsFaults>> /\ cleaner' = NoCleanup
      BY <1>9 DEF DeleteCaches
    <2> QED BY <1>1, <1>6, <2>1, BlankCalls DEF NewsTypeOK
  <1>10. CASE CleanupFails
    <2>1. UNCHANGED <<article, cache>> /\ cleaner' = NoCleanup /\ newsFaults' \in Nat
      BY <1>1, <1>10 DEF CleanupFails, Fault, NewsTypeOK
    <2> QED BY <1>6, <2>1, BlankCalls
  <1>11. CASE GrowOld
    <2>1. PICK a \in Articles : article' = [article EXCEPT ![a].age = "old"]
      BY <1>11 DEF GrowOld
    <2>2. /\ article' \in [Articles -> Row]
          /\ \A b \in Articles : article'[b].domains = article[b].domains
      BY <1>1, <2>1 DEF Row
    <2> QED BY <1>1, <1>5, <1>11, <2>2 DEF GrowOld, NewsTypeOK
  <1>12. CASE LeaveLookback
    <2>1. PICK a \in Articles : article' = [article EXCEPT ![a].recent = FALSE]
      BY <1>12 DEF LeaveLookback
    <2>2. /\ article' \in [Articles -> Row]
          /\ \A b \in Articles : article'[b].domains = article[b].domains
      BY <1>1, <2>1 DEF Row
    <2> QED BY <1>1, <1>5, <1>12, <2>2 DEF LeaveLookback, NewsTypeOK
  <1> QED BY <1>7, <1>8, <1>9, <1>10, <1>11, <1>12

LEMMA NewsNextOK == NewsIInv /\ [NewsNext]_newsVars => NewsIInv'
  <1>1. NewsIInv /\ UNCHANGED newsVars => NewsIInv'
    <2> SUFFICES ASSUME NewsIInv, UNCHANGED newsVars PROVE NewsIInv'
      OBVIOUS
    <2>1. LockOK' /\ ListedOK' /\ KnowsOK'
      BY OtherBatches, OtherIngests DEF newsVars, BatchVars
    <2>2. NewsTypeOK'
      BY DEF newsVars, NewsIInv, NewsTypeOK
    <2> QED BY <2>1, <2>2 DEF NewsIInv
  <1> QED BY <1>1, BatchKeeps, LapseKeeps, IngestKeeps, CleanupKeeps DEF NewsNext

THEOREM NewsInvariant == NewsSpec => []NewsIInv
  BY NewsInitOK, NewsNextOK, PTL DEF NewsSpec

\* The articles, the calls and the lock only hold values they can have.
THEOREM NewsTypeCorrect == NewsSpec => []NewsTypeOK
  BY NewsInvariant, PTL DEF NewsIInv

\* Of two batches at once, one has outlived its lock.
THEOREM BatchesRunAlone == NewsSpec => []BatchRunsAlone
  <1>1. NewsIInv => BatchRunsAlone
    BY DEF NewsIInv, LockOK, BatchRunsAlone
  <1> QED BY <1>1, NewsInvariant, PTL

\* The cleanup takes no article that came back, and no ingest a domain, as
\* long as no two of them overlap.
THEOREM ArticlesStay == NewsSpec => ArticlesAreKept
  <1> DEFINE Kept ==
               \A a \in Articles :
                 /\ article[a].age = "fresh" => article'[a].age # "none"
                 /\ article'[a].age # "none" /\ ~met' =>
                        article[a].domains \subseteq article'[a].domains
  <1>1. ASSUME NewsIInv, NewsNext PROVE Kept
    <2>1. /\ article \in [Articles -> Row] /\ ListedOK /\ KnowsOK
          /\ ingest \in [Ingests -> IngestRecords]
      BY <1>1 DEF NewsIInv, NewsTypeOK, IngestRecords
    <2>2. ASSUME NEW i \in Ingests, Upsert(i) PROVE Kept
      <3>1. PICK a \in ingest[i].todo, made \in BOOLEAN :
                 article' = [article EXCEPT ![a] = Merged(i, a, made)]
        BY <2>2 DEF Upsert
      <3>2. /\ a \in Articles
            /\ ingest[i].rows[a] \in Row /\ ingest[i].prev[a] \in SUBSET Domains
            /\ ingest[i].rows[a].age # "none"
        BY <2>1, <3>1 DEF IngestRecords, ListedOK
      <3>3. /\ Merged(i, a, made).age = ingest[i].rows[a].age
            /\ ingest[i].prev[a] \subseteq Merged(i, a, made).domains
        BY <3>2 DEF Merged, Row
      <3>4. ~met => article[a].domains \subseteq ingest[i].prev[a]
        BY <2>1, <2>2, <3>1 DEF Upsert, KnowsOK, Knows
      <3>5. met' = met
        BY <2>2 DEF Upsert
      <3>6. \A b \in Articles : article'[b] = IF b = a THEN Merged(i, a, made) ELSE article[b]
        BY <2>1, <3>1
      <3> QED BY <3>2, <3>3, <3>4, <3>5, <3>6
    <2>3. CASE DeleteArticles
      <3>1. PICK D \in SUBSET Articles :
              /\ \A a \in D : article[a].age = "old"
              /\ article' = [a \in Articles |-> IF a \in D THEN Nothing ELSE article[a]]
        BY <2>3 DEF DeleteArticles, DeleteOlder
      <3>2. \A a \in Articles : article'[a] = IF a \in D THEN Nothing ELSE article[a]
        BY <3>1
      <3> QED BY <3>1, <3>2, BlankCalls
    <2>4. CASE GrowOld
      <3>1. PICK a \in Articles : article' = [article EXCEPT ![a].age = "old"]
        BY <2>4 DEF GrowOld
      <3>2. \A b \in Articles : /\ article'[b].domains = article[b].domains
                                /\ article'[b].age \in {article[b].age, "old"}
        BY <2>1, <3>1 DEF Row
      <3> QED BY <3>2
    <2>7. CASE LeaveLookback
      <3>1. PICK a \in Articles : article' = [article EXCEPT ![a].recent = FALSE]
        BY <2>7 DEF LeaveLookback
      <3>2. \A b \in Articles : /\ article'[b].domains = article[b].domains
                                /\ article'[b].age = article[b].age
        BY <2>1, <3>1 DEF Row
      <3> QED BY <3>2
    <2>5. article' = article => Kept
      OBVIOUS
    <2> HIDE DEF Kept
    <2>6. \/ \E i \in Ingests : Upsert(i)
          \/ DeleteArticles \/ GrowOld \/ LeaveLookback
          \/ article' = article
      BY <1>1 DEF NewsNext, Collect, IngestStep, ReadExisting, Quick, IngestFails,
                  BatchStep, DropLapsed, Acquire, Scan, Fill, Unlock, BatchFails,
                  WorkerDies,
                  Lapse, FindStale, DeleteCaches, CleanupFails
    <2> QED BY <2>2, <2>3, <2>4, <2>5, <2>6, <2>7
  <1>2. NewsIInv /\ [NewsNext]_newsVars => [Kept]_newsVars
    BY <1>1
  <1>3. NewsSpec => [][Kept]_newsVars
    BY <1>2, NewsInvariant, PTL DEF NewsSpec
  <1> QED BY <1>3 DEF ArticlesAreKept

-----------------------------------------------------------------------------
(***************************************************************************)
(* The billing cycle.                                                      *)
(***************************************************************************)
\* A month has 28 to 31 days.
LEMMA DaysInRange ==
    ASSUME NEW y \in Nat, NEW m \in Int
    PROVE  DaysIn(y, m) \in 28..31
  BY DEF DaysIn

\* Date.UTC gives the month it is asked for when that month is long enough,
\* and otherwise one of the first days of the next one.
LEMMA UtcNormalises ==
    ASSUME NEW y \in Nat \ {0}, NEW m \in 1..13, NEW d \in 1..32,
           NEW u, u = Utc(y, m, d)
    PROVE  /\ u \in Dates
           /\ \/ MonthIndex(u) = 12 * y + m /\ u.day = d
              \/ MonthIndex(u) = 12 * y + m + 1 /\ u.day <= d - 28 /\ d > 28
  <1> DEFINE base == MonthOf(y, m)
             next == MonthOf(base.year, base.month + 1)
             n    == DaysIn(base.year, base.month)
  <1>1. /\ base.year \in Nat \ {0}
        /\ base.month \in 1..12
        /\ 12 * base.year + base.month = 12 * y + m
    BY DEF MonthOf
  <1>2. /\ next.year \in Nat \ {0}
        /\ next.month \in 1..12
        /\ 12 * next.year + next.month = 12 * y + m + 1
    BY <1>1 DEF MonthOf
  <1>3. n \in 28..31 /\ DaysIn(next.year, next.month) \in 28..31
    BY <1>1, <1>2, DaysInRange
  <1>4. u = IF d - n > 0
            THEN [year |-> next.year, month |-> next.month, day |-> d - n]
            ELSE [year |-> base.year, month |-> base.month, day |-> d]
    BY DEF Utc
  <1>n. n = DaysIn(base.year, base.month)
    OBVIOUS
  <1> HIDE DEF base, next, n
  <1>5. CASE d - n > 0
    BY <1>2, <1>3, <1>4, <1>5 DEF Dates, MonthIndex
  <1>6. CASE ~(d - n > 0)
    <2>1. u.day <= DaysIn(u.year, u.month)
      BY <1>3, <1>4, <1>6, <1>n
    <2> QED BY <1>1, <1>3, <1>4, <1>6, <2>1 DEF Dates, MonthIndex
  <1> QED BY <1>5, <1>6

-----------------------------------------------------------------------------
\* OneMonthSparedAtMost is inductive with CycleTypeOK.
CycleIInv == CycleTypeOK /\ OneMonthSparedAtMost

LEMMA CycleInitOK == CycleInit => CycleIInv
  <1> SUFFICES ASSUME CycleInit PROVE CycleIInv
    OBVIOUS
  <1>1. paidAt \in Dates /\ rolls = 0
    BY BillingAssumption DEF CycleInit, Dates
  <1>2. /\ paidAt.year \in Nat \ {0} /\ paidAt.month + 1 \in 1..13
        /\ paidAt.day + 1 \in 1..32
        /\ paidAt.month \in Int /\ paidAt.day \in Int
    BY <1>1 DEF Dates
  <1>3. periodEnd = Utc(paidAt.year, paidAt.month + 1, paidAt.day + 1)
    BY DEF CycleInit, FirstExpire
  <1>4. /\ periodEnd \in Dates
        /\ \/ /\ MonthIndex(periodEnd) = 12 * paidAt.year + (paidAt.month + 1)
              /\ periodEnd.day = paidAt.day + 1
           \/ /\ MonthIndex(periodEnd) = 12 * paidAt.year + (paidAt.month + 1) + 1
              /\ periodEnd.day <= paidAt.day + 1 - 28
    <2>1. PICK y \in Nat \ {0}, m \in 1..13, d \in 1..32 :
            y = paidAt.year /\ m = paidAt.month + 1 /\ d = paidAt.day + 1
      BY <1>2
    <2>2. periodEnd = Utc(y, m, d)
      BY <1>3, <2>1
    <2>3. /\ periodEnd \in Dates
          /\ \/ MonthIndex(periodEnd) = 12 * y + m /\ periodEnd.day = d
             \/ MonthIndex(periodEnd) = 12 * y + m + 1 /\ periodEnd.day <= d - 28
      BY <2>2, UtcNormalises
    <2> QED BY <1>2, <2>1, <2>3
  <1> QED BY <1>1, <1>2, <1>4 DEF CycleIInv, CycleTypeOK, OneMonthSparedAtMost, Skipped, MonthIndex, Dates

\* Moving a period on keeps to the cycle: a day that was skipped past before
\* is at most the fourth, which every month has.
LEMMA RollPreserves == CycleIInv /\ [Roll]_cycleVars => CycleIInv'
  <1> SUFFICES ASSUME CycleIInv, [Roll]_cycleVars PROVE CycleIInv'
    OBVIOUS
  <1>1. CASE Roll
    <2>1. /\ periodEnd \in Dates /\ paidAt \in Dates /\ rolls \in Nat
          /\ periodEnd.year \in Nat \ {0} /\ periodEnd.month + 1 \in 1..13
          /\ periodEnd.month \in Int
          /\ periodEnd.day \in 1..32
          /\ paidAt.year \in Nat /\ paidAt.month \in Nat /\ paidAt.day \in 1..31
      BY DEF CycleIInv, CycleTypeOK, Dates
    <2>2. /\ periodEnd' = Utc(periodEnd.year, periodEnd.month + 1, periodEnd.day)
          /\ rolls' = rolls + 1
          /\ paidAt' = paidAt
      BY <1>1 DEF Roll, NextExpire
    <2>3. /\ periodEnd' \in Dates
          /\ \/ /\ MonthIndex(periodEnd') = 12 * periodEnd.year + (periodEnd.month + 1)
                /\ periodEnd'.day = periodEnd.day
             \/ /\ MonthIndex(periodEnd') = 12 * periodEnd.year + (periodEnd.month + 1) + 1
                /\ periodEnd'.day <= periodEnd.day - 28
                /\ periodEnd.day > 28
      <3>1. PICK y \in Nat \ {0}, m \in 1..13, d \in 1..32 :
              y = periodEnd.year /\ m = periodEnd.month + 1 /\ d = periodEnd.day
        BY <2>1
      <3>2. periodEnd' = Utc(y, m, d)
        BY <2>2, <3>1
      <3>3. /\ periodEnd' \in Dates
            /\ \/ MonthIndex(periodEnd') = 12 * y + m /\ periodEnd'.day = d
               \/ /\ MonthIndex(periodEnd') = 12 * y + m + 1
                  /\ periodEnd'.day <= d - 28
                  /\ d > 28
        BY <3>2, UtcNormalises
      <3> QED BY <3>1, <3>3
    <2>4. CycleTypeOK'
      BY <2>1, <2>2, <2>3 DEF CycleTypeOK
    <2>5. /\ MonthIndex(periodEnd) = 12 * periodEnd.year + periodEnd.month
          /\ MonthIndex(periodEnd) \in Int /\ MonthIndex(paidAt) \in Int
          /\ MonthIndex(periodEnd') \in Int /\ periodEnd'.day \in Int
      BY <2>1, <2>3 DEF MonthIndex, Dates
    <2>6. Skipped' = MonthIndex(periodEnd') - MonthIndex(paidAt) - 1 - (rolls + 1)
      BY <2>2 DEF Skipped, MonthIndex
    <2>7. \/ Skipped' = Skipped /\ periodEnd'.day = periodEnd.day
          \/ /\ Skipped' = Skipped + 1
             /\ periodEnd'.day <= periodEnd.day - 28
             /\ periodEnd.day > 28
      BY <2>1, <2>3, <2>5, <2>6 DEF Skipped
    <2>8. OneMonthSparedAtMost'
      BY <2>1, <2>2, <2>5, <2>7 DEF CycleIInv, OneMonthSparedAtMost
    <2> QED BY <2>4, <2>8 DEF CycleIInv
  <1>2. CASE UNCHANGED cycleVars
    BY <1>2 DEF CycleIInv, CycleTypeOK, OneMonthSparedAtMost, Skipped, MonthIndex, cycleVars
  <1> QED BY <1>1, <1>2

\* In every reachable state the cycle is kept.
THEOREM CycleInvariant == CycleSpec => []CycleIInv
  BY CycleInitOK, RollPreserves, PTL DEF CycleSpec

\* Both dates are dates of the calendar.
THEOREM CycleTypeCorrect == CycleSpec => []CycleTypeOK
  BY CycleInvariant, PTL DEF CycleIInv

\* A subscription of whatever payment date, however long it runs, misses at
\* most one month.
THEOREM CycleHolds == CycleSpec => []OneMonthSparedAtMost
  BY CycleInvariant, PTL DEF CycleIInv

-----------------------------------------------------------------------------
\* Leap years are counted from one year to the next.
LEMMA LeapsBeforeNext ==
    ASSUME NEW y \in Nat \ {0}
    PROVE  /\ LeapsBefore(y) \in Int
           /\ LeapsBefore(y + 1) = LeapsBefore(y) + (IF Leap(y) THEN 1 ELSE 0)
  BY DEF LeapsBefore, Leap

\* The first day of the next month is the day after the last of this one.
LEMMA MonthsFollow ==
    ASSUME NEW p \in Dates, NEW q \in Dates,
           q.year = MonthOf(p.year, p.month + 1).year,
           q.month = MonthOf(p.year, p.month + 1).month
    PROVE  DayNumber(q) = DayNumber(p) - p.day + DaysIn(p.year, p.month) + q.day
  <1>1. PICK y \in Nat \ {0}, m \in 1..12, d \in 1..31 :
          y = p.year /\ m = p.month /\ d = p.day
    BY DEF Dates
  <1>2. LeapsBefore(y) \in Int /\ LeapsBefore(y + 1) \in Int /\ q.day \in Int
    BY LeapsBeforeNext DEF Dates
  <1>3. CASE m = 12
    <2>1. q.year = y + 1 /\ q.month = 1
      BY <1>1, <1>3 DEF MonthOf
    <2> QED BY <1>1, <1>2, <1>3, <2>1, LeapsBeforeNext DEF DayNumber, MonthStart, DaysIn
  <1>4. CASE m \in 1..11
    <2>1. q.year = y /\ q.month = m + 1
      BY <1>1, <1>4 DEF MonthOf
    <2>2. MonthStart[m + 1] + (IF m + 1 > 2 /\ Leap(y) THEN 1 ELSE 0)
            = MonthStart[m] + (IF m > 2 /\ Leap(y) THEN 1 ELSE 0) + DaysIn(y, m)
      BY <1>4 DEF MonthStart, DaysIn
    <2>3. MonthStart[m] \in Int /\ MonthStart[m + 1] \in Int /\ DaysIn(y, m) \in Int
      BY <1>4 DEF MonthStart, DaysIn
    <2> HIDE DEF MonthStart
    <2> QED BY <1>1, <1>2, <2>1, <2>2, <2>3 DEF DayNumber
  <1> QED BY <1>3, <1>4

\* A step of the period is as long as the month it starts in.
LEMMA RollLasts == CycleIInv /\ [Roll]_cycleVars => [PeriodLasts]_cycleVars
  <1> SUFFICES ASSUME CycleIInv, Roll PROVE PeriodLasts
    OBVIOUS
  <1>1. PICK y \in Nat \ {0}, m \in 1..12, d \in 1..31 :
          y = periodEnd.year /\ m = periodEnd.month /\ d = periodEnd.day
    BY DEF CycleIInv, CycleTypeOK, Dates
  <1>2. PICK year \in Nat \ {0}, month \in 1..12 :
          /\ MonthOf(y, m + 1).year = year
          /\ MonthOf(y, m + 1).month = month
    BY DEF MonthOf
  <1>3. PICK n \in 28..31 : n = DaysIn(year, month)
    BY DaysInRange
  <1>4. PICK k \in 28..31 : k = DaysIn(y, m)
    BY DaysInRange
  <1>5. PICK today \in Int : today = DayNumber(periodEnd)
    BY <1>1, LeapsBeforeNext, SMTT(30) DEF DayNumber, MonthStart
  <1>6. SUFFICES DayNumber(periodEnd') = today + k
    BY <1>1, <1>4, <1>5 DEF PeriodLasts
  <1>7. periodEnd \in Dates /\ periodEnd' \in Dates
    BY RollPreserves DEF CycleIInv, CycleTypeOK
  <1>8. periodEnd' = IF d - n > 0
                     THEN [year |-> MonthOf(year, month + 1).year,
                           month |-> MonthOf(year, month + 1).month, day |-> d - n]
                     ELSE [year |-> year, month |-> month, day |-> d]
    BY <1>1, <1>2, <1>3 DEF Roll, NextExpire, Utc
  <1>9. CASE d - n > 0
    <2>1. PICK last \in Dates : last = [year |-> year, month |-> month, day |-> n]
      <3>1. [year |-> year, month |-> month, day |-> n] \in Dates
        BY <1>3 DEF Dates
      <3> QED BY <3>1
    <2>2. /\ last.year = MonthOf(periodEnd.year, periodEnd.month + 1).year
          /\ last.month = MonthOf(periodEnd.year, periodEnd.month + 1).month
      BY <1>1, <1>2, <2>1
    <2>3. DayNumber(last) = today - d + k + n
      BY <1>1, <1>4, <1>5, <1>7, <2>1, <2>2, MonthsFollow
    <2>4. /\ periodEnd'.year = MonthOf(last.year, last.month + 1).year
          /\ periodEnd'.month = MonthOf(last.year, last.month + 1).month
          /\ periodEnd'.day = d - n
      BY <1>8, <1>9, <2>1
    <2>5. DayNumber(periodEnd') = DayNumber(last) - n + n + (d - n)
      BY <1>3, <1>7, <2>1, <2>4, MonthsFollow
    <2> QED BY <2>3, <2>5
  <1>10. CASE ~(d - n > 0)
    <2>1. /\ periodEnd'.year = MonthOf(periodEnd.year, periodEnd.month + 1).year
          /\ periodEnd'.month = MonthOf(periodEnd.year, periodEnd.month + 1).month
          /\ periodEnd'.day = d
      BY <1>1, <1>2, <1>8, <1>10
    <2>2. DayNumber(periodEnd') = today - d + k + d
      BY <1>1, <1>4, <1>5, <1>7, <2>1, MonthsFollow
    <2> QED BY <2>2
  <1> QED BY <1>9, <1>10

\* Every period but the first lasts as long as the month it starts in.
THEOREM PeriodsLastAMonth == CycleSpec => PeriodsAreMonths
  <1>1. CycleSpec => [][Roll]_cycleVars
    BY PTL DEF CycleSpec
  <1> QED BY <1>1, CycleInvariant, RollLasts, PTL DEF PeriodsAreMonths

-----------------------------------------------------------------------------
(***************************************************************************)
(* The intervals of the jobs.                                              *)
(***************************************************************************)
\* The least of a set of numbers is there, since the numbers are well-founded.
LEMMA MinIs ==
    ASSUME NEW S \in SUBSET Nat, S # {}
    PROVE  Min(S) \in S /\ \A y \in S : Min(S) <= y
  <1> DEFINE less == {ss \in Nat \X Nat : ss[1] < ss[2]}
  <1>1. IsWellFoundedOn(less, Nat)
    BY NatLessThanWellFounded, Zenon DEF OpToRel
  <1>2. ASSUME NEW x \in Nat, NEW y \in Nat, y < x PROVE <<y, x>> \in less
    <2>1. <<y, x>> \in Nat \X Nat /\ <<y, x>>[1] = y /\ <<y, x>>[2] = x
      OBVIOUS
    <2> QED BY <1>2, <2>1
  <1> HIDE DEF less
  <1>3. PICK x \in S : \A y \in S : ~ (<<y, x>> \in less)
    BY <1>1, WFMin, Zenon
  <1>4. ASSUME NEW y \in S PROVE x <= y
    <2>1. x \in Nat /\ y \in Nat
      OBVIOUS
    <2>2. ~ (y < x)
      BY <1>2, <1>3, <2>1, Zenon
    <2> QED BY <2>1, <2>2
  <1> QED BY <1>4 DEF Min

\* A number in terms of a divisor.
LEMMA Parts ==
    ASSUME NEW a \in Nat, NEW n \in 1 .. 59
    PROVE  a % n \in 0 .. n - 1 /\ a \div n \in Nat /\ a = n * (a \div n) + (a % n)
  <1>1. a % n \in 0 .. n - 1
    OBVIOUS
  <1>2. a \div n \in Nat
    OBVIOUS
  <1>3. a = n * (a \div n) + (a % n)
    OBVIOUS
  <1> QED BY <1>1, <1>2, <1>3

\* One multiple of a number and the next.
LEMMA NextMultiple ==
    ASSUME NEW n \in 1 .. 59, NEW a \in 0 .. 59, a % n = 0
    PROVE  /\ (a + n) % n = 0
           /\ \A b \in 0 .. 59 : b % n = 0 /\ a < b => a + n <= b
           /\ 60 % n = 0 => a + n <= 60
  <1>1. (a + n) % n = 0
    OBVIOUS
  <1>2. ASSUME NEW b \in 0 .. 60, b % n = 0, a < b PROVE a + n <= b
    <2> DEFINE p == a \div n
               q == b \div n
    <2>1. p \in Nat /\ a = n * p
      BY Parts
    <2>2. q \in Nat /\ b = n * q
      BY <1>2, Parts
    <2> HIDE DEF p, q
    <2>3. p < q
      BY <1>2, <2>1, <2>2
    <2>4. n * p + n <= n * q
      BY <2>1, <2>2, <2>3
    <2> QED BY <2>1, <2>2, <2>4
  <1>3. 60 % n = 0 => a + n <= 60
    BY <1>2
  <1> QED BY <1>1, <1>2, <1>3

\* The minutes of the day and the hours they are in.
LEMMA MinuteOfDay ==
    ASSUME NEW t \in 0 .. 1439
    PROVE  /\ t \div 60 \in 0 .. 23 /\ t % 60 \in 0 .. 59
           /\ t = 60 * (t \div 60) + (t % 60)
  OBVIOUS

CronIInv == CronTypeOK /\ configured \in Nat /\ fallback \in 1 .. 59 /\ at \in Firings

LEMMA DayIs == Day = 1440
  BY DEF Day

\* What a firing is.
LEMMA MinutesFit ==
    ASSUME configured \in Nat, fallback \in 1 .. 59
    PROVE  Minutes \in 1 .. 1440
  <1>1. CASE configured < 1
    BY <1>1 DEF Minutes
  <1>2. CASE configured >= 1
    <2>1. {configured, Day} \in SUBSET Nat /\ {configured, Day} # {}
      BY DayIs
    <2>2. Min({configured, Day}) \in {configured, Day} /\ Min({configured, Day}) <= Day
      BY <2>1, MinIs
    <2> QED BY <1>2, <2>2, DayIs DEF Minutes
  <1> QED BY <1>1, <1>2

LEMMA FiringsAre ==
    ASSUME configured \in Nat, fallback \in 1 .. 59
    PROVE  /\ Firings \subseteq 0 .. Day - 1 /\ 0 \in Firings
           /\ Minutes < 60 => Firings = EveryMinutes(Minutes)
           /\ Minutes >= 60 /\ Minutes % 60 # 0 => Firings = EveryMinutes(59)
           /\ Minutes >= 60 /\ Minutes % 60 = 0 => Firings = EveryHours(Minutes \div 60)
  <1>1. Minutes \in 1 .. 1440
    BY MinutesFit
  <1>2. {59, Minutes} \in SUBSET Nat /\ {59, Minutes} # {}
    BY <1>1
  <1>3. Min({59, Minutes}) \in {59, Minutes} /\ \A y \in {59, Minutes} : Min({59, Minutes}) <= y
    BY <1>2, MinIs
  <1>4. Min({59, Minutes}) = IF Minutes < 60 THEN Minutes ELSE 59
    BY <1>1, <1>3
  <1>5. \A n \in 1 .. 59 : EveryMinutes(n) \subseteq 0 .. Day - 1 /\ 0 \in EveryMinutes(n)
    BY DayIs DEF EveryMinutes
  <1>6. \A n \in 1 .. 24 : EveryHours(n) \subseteq 0 .. Day - 1 /\ 0 \in EveryHours(n)
    BY DayIs DEF EveryHours
  <1>7. Minutes >= 60 /\ Minutes % 60 = 0 => Minutes \div 60 \in 1 .. 24
    BY <1>1
  <1>8. CASE Minutes < 60
    <2>1. Minutes \in 1 .. 59 /\ Firings = EveryMinutes(Minutes)
      BY <1>1, <1>4, <1>8 DEF Firings
    <2> QED BY <1>5, <1>8, <2>1
  <1>9. CASE Minutes >= 60 /\ Minutes % 60 # 0
    <2>1. Firings = EveryMinutes(59)
      BY <1>1, <1>4, <1>9 DEF Firings
    <2> QED BY <1>1, <1>5, <1>9, <2>1
  <1>10. CASE Minutes >= 60 /\ Minutes % 60 = 0
    <2>1. Firings = EveryHours(Minutes \div 60)
      BY <1>10 DEF Firings
    <2> QED BY <1>1, <1>6, <1>7, <1>10, <2>1
  <1> QED BY <1>1, <1>8, <1>9, <1>10

\* The next firing is no later than any other, and no other comes before it.
LEMMA NextFiring ==
    ASSUME CronIInv, Fire
    PROVE  /\ at' \in Firings /\ waited' \in Nat /\ at \in 0 .. Day - 1
           /\ \A g \in Nat : (at + g \in Firings /\ g > 0) \/ at + g >= Day => waited' <= g
           /\ \A g \in Nat : at + g <= Day /\ (\A t \in Firings : t > at => t >= at + g)
                  => waited' >= g
  <1> DEFINE today == {t \in Firings : t > at}
             next == IF today # {} THEN Min(today) ELSE Day + Min(Firings)
  <1>1. Firings \subseteq 0 .. Day - 1 /\ 0 \in Firings /\ at \in Firings
    BY FiringsAre DEF CronIInv
  <1>2. today \in SUBSET Nat /\ Firings \in SUBSET Nat /\ Firings # {}
    <2>1. \A t \in Firings : t \in Nat
      BY <1>1, DayIs
    <2> QED BY <1>1, <2>1
  <1>3. Min(Firings) = 0
    <2>1. \E m \in Firings : m = Min(Firings) /\ m <= 0
      BY <1>1, <1>2, MinIs
    <2> QED BY <1>2, <2>1
  <1>4. at' = next % Day /\ waited' = next - at
    BY DEF Fire
  <1>5. CASE today # {}
    <2>1. next = Min(today) /\ next \in today /\ \A t \in today : next <= t
      BY <1>2, <1>5, MinIs
    <2> HIDE DEF next
    <2>2. next \in Firings /\ next > at /\ next \in 0 .. Day - 1 /\ at \in 0 .. Day - 1
      BY <1>1, <2>1
    <2>3. at' = next
      BY <1>4, <2>2, DayIs
    <2>4. waited' = next - at /\ waited' \in Nat
      BY <1>4, <2>2, DayIs
    <2>5. ASSUME NEW g \in Nat, (at + g \in Firings /\ g > 0) \/ at + g >= Day
          PROVE  waited' <= g
      <3>1. CASE at + g \in Firings /\ g > 0
        <4>1. next <= at + g
          BY <2>1, <2>2, <3>1, DayIs
        <4> QED BY <2>2, <2>4, <4>1, DayIs
      <3>2. CASE at + g >= Day
        BY <2>2, <2>4, <3>2, DayIs
      <3> QED BY <2>5, <3>1, <3>2
    <2>6. ASSUME NEW g \in Nat, \A t \in Firings : t > at => t >= at + g
          PROVE  waited' >= g
      BY <2>2, <2>4, <2>6, DayIs
    <2> QED BY <2>2, <2>3, <2>4, <2>5, <2>6
  <1>6. CASE today = {}
    <2>1. next = Day
      BY <1>3, <1>6, DayIs
    <2> HIDE DEF next
    <2>2. at' = 0 /\ waited' = Day - at /\ at \in 0 .. Day - 1
      BY <1>1, <1>4, <2>1, DayIs
    <2> QED BY <1>1, <1>6, <2>2, DayIs
  <1> QED BY <1>5, <1>6

\* A job that fires at minutes of the hour waits for that many, or less when
\* the hour ends; for exactly that many when they divide the hour.
LEMMA MinutesWait ==
    ASSUME CronIInv, Fire, NEW n \in 1 .. 59, Firings = EveryMinutes(n)
    PROVE  waited' <= n /\ (60 % n = 0 => waited' = n)
  <1>1. at \in 0 .. Day - 1 /\ at \in 0 .. 1439 /\ waited' \in Nat /\ (at % 60) % n = 0
    BY NextFiring, DayIs DEF CronIInv, EveryMinutes
  <1>2. PICK h \in 0 .. 23, r \in 0 .. 59 : at = 60 * h + r /\ r = at % 60
    BY <1>1, MinuteOfDay
  <1>3. r % n = 0
    BY <1>1, <1>2
  <1>4. (r + n) % n = 0 /\ (60 % n = 0 => r + n <= 60)
    BY <1>2, <1>3, NextMultiple
  <1>5. waited' <= n
    <2>1. CASE r + n < 60
      <3>1. at + n \in 0 .. 1439 /\ at + n = 60 * h + (r + n) /\ r + n \in 0 .. 59
        BY <1>2, <2>1
      <3>2. (at + n) % 60 = r + n
        BY <1>2, <3>1
      <3>3. at + n \in Firings
        BY <1>4, <3>1, <3>2, DayIs DEF EveryMinutes
      <3> QED BY <3>3, NextFiring
    <2>2. CASE r + n >= 60 /\ h < 23
      <3>1. /\ 60 - r \in Nat /\ 60 - r > 0 /\ 60 - r <= n /\ at + (60 - r) = 60 * (h + 1) + 0
            /\ at + (60 - r) \in 0 .. 1439
        BY <1>2, <2>2
      <3>2. (at + (60 - r)) % 60 = 0
        BY <1>2, <3>1
      <3>3. at + (60 - r) \in Firings
        BY <3>1, <3>2, DayIs DEF EveryMinutes
      <3>4. waited' <= 60 - r
        BY <3>1, <3>3, NextFiring
      <3> QED BY <1>1, <1>2, <3>1, <3>4
    <2>3. CASE r + n >= 60 /\ h = 23
      <3>1. at + n >= Day
        BY <1>2, <2>3, DayIs
      <3> QED BY <3>1, NextFiring
    <2> QED BY <1>2, <2>1, <2>2, <2>3
  <1>6. ASSUME 60 % n = 0 PROVE waited' >= n
    <2>1. at + n <= Day
      BY <1>2, <1>4, <1>6, DayIs
    <2>2. ASSUME NEW t \in Firings, t > at PROVE t >= at + n
      <3>1. t \in 0 .. 1439 /\ (t % 60) % n = 0
        BY DayIs DEF EveryMinutes
      <3>2. t \div 60 \in 0 .. 23 /\ t % 60 \in 0 .. 59 /\ t = 60 * (t \div 60) + (t % 60)
        BY <3>1, MinuteOfDay, DayIs
      <3>3. CASE t \div 60 = h
        <4>1. r < t % 60
          BY <1>2, <2>2, <3>2, <3>3
        <4>2. r + n <= t % 60
          BY <1>2, <1>3, <3>1, <3>2, <4>1, NextMultiple
        <4> QED BY <1>2, <3>2, <3>3, <4>2
      <3>4. CASE t \div 60 # h
        <4>1. t \div 60 > h
          BY <1>2, <2>2, <3>2, <3>4
        <4> QED BY <1>2, <1>4, <1>6, <3>2, <4>1
      <3> QED BY <3>3, <3>4
    <2> QED BY <2>1, <2>2, NextFiring
  <1> QED BY <1>1, <1>5, <1>6

\* The same for hours of the day.
LEMMA HoursWait ==
    ASSUME CronIInv, Fire, NEW n \in 1 .. 24, Firings = EveryHours(n)
    PROVE  waited' <= 60 * n /\ (24 % n = 0 => waited' = 60 * n)
  <1>1. /\ at \in 0 .. Day - 1 /\ at \in 0 .. 1439 /\ waited' \in Nat
        /\ at % 60 = 0 /\ (at \div 60) % n = 0
    BY NextFiring, DayIs DEF CronIInv, EveryHours
  <1>2. PICK h \in 0 .. 23 : at = 60 * h /\ h = at \div 60
    BY <1>1, MinuteOfDay
  <1>3. h % n = 0
    BY <1>1, <1>2
  <1>4. (h + n) % n = 0 /\ (24 % n = 0 => h + n <= 24) /\ 60 * n \in Nat
    <2>1. (h + n) % n = 0
      BY <1>3, NextMultiple
    <2>2. ASSUME 24 % n = 0 PROVE h + n <= 24
      BY <1>3, <2>2, NextMultiple
    <2> QED BY <2>1, <2>2
  <1>5. waited' <= 60 * n
    <2>1. CASE h + n < 24
      <3>1. /\ at + 60 * n \in 0 .. 1439 /\ at + 60 * n = 60 * (h + n) + 0
            /\ 60 * n \in Nat /\ 60 * n > 0
        BY <1>2, <2>1
      <3>2. (at + 60 * n) \div 60 = h + n /\ (at + 60 * n) % 60 = 0
        BY <1>2, <3>1
      <3>3. at + 60 * n \in Firings
        BY <1>4, <3>1, <3>2, DayIs DEF EveryHours
      <3> QED BY <3>1, <3>3, NextFiring
    <2>2. CASE h + n >= 24
      <3>1. at + 60 * n >= Day /\ 60 * n \in Nat
        BY <1>2, <2>2, DayIs
      <3> QED BY <3>1, NextFiring
    <2> QED BY <1>2, <2>1, <2>2
  <1>6. ASSUME 24 % n = 0 PROVE waited' >= 60 * n
    <2>1. at + 60 * n <= Day /\ 60 * n \in Nat
      BY <1>2, <1>4, <1>6, DayIs
    <2>2. ASSUME NEW t \in Firings, t > at PROVE t >= at + 60 * n
      <3>1. t \in 0 .. 1439 /\ (t \div 60) % n = 0 /\ t % 60 = 0
        BY DayIs DEF EveryHours
      <3>2. t \div 60 \in 0 .. 23 /\ t = 60 * (t \div 60)
        BY <3>1, MinuteOfDay, DayIs
      <3>3. h < t \div 60
        BY <1>2, <2>2, <3>2
      <3>4. h + n <= t \div 60
        BY <1>2, <1>3, <3>1, <3>2, <3>3, NextMultiple
      <3> QED BY <1>2, <3>2, <3>4
    <2> QED BY <2>1, <2>2, NextFiring
  <1> QED BY <1>1, <1>5, <1>6

LEMMA FireKeeps == CronIInv /\ [Fire]_cronVars => CronIInv'
  <1> SUFFICES ASSUME CronIInv, [Fire]_cronVars PROVE CronIInv'
    OBVIOUS
  <1>1. UNCHANGED <<configured, fallback>>
    BY DEF Fire, cronVars
  <1>2. Firings' = Firings
    BY <1>1 DEF Firings, Minutes
  <1>3. /\ configured \in Nat /\ fallback \in 1 .. 59 /\ Firings \subseteq 0 .. Day - 1
    BY FiringsAre DEF CronIInv
  <1>4. CASE Fire
    <2>1. at' \in Firings /\ waited' \in Nat
      BY <1>4, NextFiring
    <2>2. waited' <= Day
      <3>1. at + Day >= Day /\ Day \in Nat
        BY <1>4, NextFiring, DayIs
      <3> QED BY <1>4, <3>1, NextFiring
    <2>3. waited' \in 0 .. Day
      BY <2>1, <2>2, DayIs
    <2> QED BY <1>1, <1>2, <1>3, <2>1, <2>3, DayIs DEF CronIInv, CronTypeOK
  <1>5. CASE UNCHANGED cronVars
    BY <1>1, <1>2, <1>5, DayIs DEF CronIInv, CronTypeOK, cronVars
  <1> QED BY <1>4, <1>5

LEMMA CronInitOK == CronInit => CronIInv
  <1> SUFFICES ASSUME CronInit PROVE CronIInv
    OBVIOUS
  <1>1. configured \in Nat /\ fallback \in 1 .. 59
    BY CronAssumption DEF CronInit
  <1> QED BY <1>1, FiringsAre, DayIs DEF CronInit, CronIInv, CronTypeOK

THEOREM CronInvariant == CronSpec => []CronIInv
  BY CronInitOK, FireKeeps, PTL DEF CronSpec

\* The last firing was at a minute of a day.
THEOREM CronTypeCorrect == CronSpec => []CronTypeOK
  BY CronInvariant, PTL DEF CronIInv

\* Whatever interval the environment gives, a job waits no longer for its next
\* firing, and exactly as long when the interval divides the hour, or the day
\* in whole hours (cronEveryMinutes in ainews-scheduler.util.ts).
THEOREM IntervalsHold == CronSpec => IntervalsAreKept
  <1>1. CronIInv /\ [Fire]_cronVars =>
            [ /\ waited' <= Minutes
              /\ 60 % Minutes = 0 \/ (Minutes % 60 = 0 /\ Day % Minutes = 0)
                    => waited' = Minutes]_cronVars
    <2> SUFFICES ASSUME CronIInv, Fire
                 PROVE  /\ waited' <= Minutes
                        /\ 60 % Minutes = 0 \/ (Minutes % 60 = 0 /\ Day % Minutes = 0)
                              => waited' = Minutes
      OBVIOUS
    <2>1. /\ configured \in Nat /\ fallback \in 1 .. 59 /\ Minutes \in 1 .. 1440
          /\ waited' \in Nat
      BY MinutesFit, NextFiring DEF CronIInv
    <2>2. CASE Minutes < 60
      <3>1. Minutes \in 1 .. 59
        BY <2>1, <2>2
      <3>2. Firings = EveryMinutes(Minutes)
        BY <2>1, <2>2, FiringsAre
      <3>3. \A n \in 1 .. 59 : n % 60 # 0
        OBVIOUS
      <3> QED BY <3>1, <3>2, <3>3, MinutesWait
    <2>3. CASE Minutes >= 60 /\ Minutes % 60 # 0
      <3>1. Firings = EveryMinutes(59) /\ 60 % Minutes # 0
        BY <2>1, <2>3, FiringsAre
      <3>2. waited' <= 59
        BY <3>1, MinutesWait
      <3> QED BY <2>1, <2>3, <3>1, <3>2
    <2>4. CASE Minutes >= 60 /\ Minutes % 60 = 0
      <3> DEFINE n == Minutes \div 60
      <3>1. n \in 1 .. 24 /\ Minutes = 60 * n /\ Firings = EveryHours(n)
        BY <2>1, <2>4, FiringsAre
      <3> HIDE DEF n
      <3>2. waited' <= Minutes /\ (24 % n = 0 => waited' = Minutes)
        BY <3>1, HoursWait
      <3>3. 60 % Minutes = 0 \/ (Minutes % 60 = 0 /\ Day % Minutes = 0) => 24 % n = 0
        BY <3>1, DayIs
      <3> QED BY <3>2, <3>3
    <2> QED BY <2>1, <2>2, <2>3, <2>4
  <1> QED BY <1>1, CronInvariant, PTL DEF CronSpec, IntervalsAreKept
=============================================================================
