------------------------------ MODULE AinewsJobs ------------------------------
(***************************************************************************)
(* The AI News scheduler (ainews-scheduler.service.ts) and the history of  *)
(* its runs (ops-job-tracker.service.ts).  Each job has a flag in the      *)
(* memory of the process; a tick that finds it set skips, and only the     *)
(* ingest takes the flag away from a run that lasts too long.  A run       *)
(* writes a row when it starts and settles it when it ends; both writes    *)
(* may fail, and a crash forgets the flags but not the rows.               *)
(***************************************************************************)
EXTENDS Naturals

CONSTANTS
    Jobs,          \* the jobs whose ticks the scheduler registers
    Ingest,        \* the one whose flag can be taken away
    Runs,          \* runs of jobs, one element each
    Stale,         \* INGEST_STALE_MS in units of the clock
    Debounce,      \* SKIP_DEBOUNCE_MS
    MaxNow,        \* bound of the clock
    MaxJobFaults   \* bound of crashes and failed writes of rows

ASSUME JobsAssumption ==
    /\ Ingest \in Jobs
    /\ Stale \in Nat \ {0} /\ Debounce \in Nat /\ MaxNow \in Nat /\ MaxJobFaults \in Nat

VARIABLES
    flag,      \* ingestRunning, summarizeRunning, digestRunning, cleanupRunning
    since,     \* ingestStartedAt ...: 0 for null
    run,       \* the calls of the ticks
    row,       \* OpsJobRun of each run: "none" before it is written
    lastSkip,  \* lastSkipAt of the tracker, 0 when the job has no entry
    now,       \* the clock, in minutes or so
    jobFaults, \* failed writes and crashes so far
    slow       \* history: a run of the ingest reached the limit

jobVars == <<flag, since, run, row, lastSkip, now, jobFaults, slow>>

Stages == {"idle", "start", "work", "finish", "release", "over"}
Idle == [at |-> "idle", job |-> Ingest, born |-> 0, ok |-> TRUE]
Over == [at |-> "over", job |-> Ingest, born |-> 0, ok |-> TRUE]

JobsInit ==
    /\ flag = [j \in Jobs |-> FALSE] /\ since = [j \in Jobs |-> 0]
    /\ run = [r \in Runs |-> Idle] /\ row = [r \in Runs |-> "none"]
    /\ lastSkip = [j \in Jobs |-> 0]
    /\ now = 1 /\ jobFaults = 0 /\ slow = FALSE

Alive(j) == {r \in Runs : run[r].job = j /\ run[r].at \notin {"idle", "over"}}

-----------------------------------------------------------------------------
\* A run of the job is going on, and is not to be replaced.
Busy(j) == flag[j] /\ ~(j = Ingest /\ now - since[j] >= Stale)

\* skip: one row an hour for a job and a reason.  The reason of the ingest
\* tells the seconds, so it is a new one each time.
SkipIsNew(j) == j = Ingest \/ lastSkip[j] = 0 \/ now - lastSkip[j] >= Debounce

\* A tick that finds the job busy.  The entry is made before the row (which
\* nothing here reads), so a row that cannot be written is not tried again.
SkipTick(j) ==
    /\ Busy(j)
    /\ lastSkip' = IF SkipIsNew(j) THEN [lastSkip EXCEPT ![j] = now] ELSE lastSkip
    /\ UNCHANGED <<flag, since, run, row, now, jobFaults, slow>>

\* A wrong Tick: the job is not claimed before the first await.
TickLate(r, j) ==
    /\ run[r].at = "idle"
    /\ ~Busy(j)
    /\ run' = [run EXCEPT ![r] = [at |-> "start", job |-> j, born |-> now, ok |-> TRUE]]
    /\ UNCHANGED <<flag, since, row, lastSkip, now, jobFaults, slow>>

\* ingestTick, summarizeTick, digestTick, cleanupTick: the flag is set before
\* the first await.
Tick(r, j) ==
    /\ run[r].at = "idle"
    /\ ~Busy(j)
    /\ flag' = [flag EXCEPT ![j] = TRUE]
    /\ since' = [since EXCEPT ![j] = now]
    /\ run' = [run EXCEPT ![r] = [at |-> "start", job |-> j, born |-> now, ok |-> TRUE]]
    /\ UNCHANGED <<row, lastSkip, now, jobFaults, slow>>

Move(r, to) == run' = [run EXCEPT ![r].at = to]

\* start of the tracker: a row, or none and the run goes on.
Start(r) ==
    /\ run[r].at = "start"
    /\ \/ row' = [row EXCEPT ![r] = "running"] /\ UNCHANGED jobFaults
       \/ jobFaults < MaxJobFaults /\ jobFaults' = jobFaults + 1 /\ UNCHANGED row
    /\ Move(r, "work")
    /\ UNCHANGED <<flag, since, lastSkip, now, slow>>

\* runIngest, runBatchSummarize, runDigest, runCleanup return or throw; they
\* may also never return.
Work(r) ==
    /\ run[r].at = "work"
    /\ \E ok \in BOOLEAN :
          run' = [run EXCEPT ![r].at = "finish", ![r].ok = ok]
    /\ UNCHANGED <<flag, since, row, lastSkip, now, jobFaults, slow>>

\* success and fail: the row is settled; an error of the write is swallowed,
\* and a run without a row has nothing to settle.
Finish(r) ==
    /\ run[r].at = "finish"
    /\ IF row[r] = "none" THEN UNCHANGED <<row, jobFaults>>
       ELSE \/ /\ row' = [row EXCEPT ![r] = IF run[r].ok THEN "success" ELSE "failed"]
               /\ UNCHANGED jobFaults
            \/ jobFaults < MaxJobFaults /\ jobFaults' = jobFaults + 1 /\ UNCHANGED row
    /\ Move(r, "release")
    /\ UNCHANGED <<flag, since, lastSkip, now, slow>>

\* A wrong Release: the flag is given back only by a run that succeeded.
ReleaseSuccess(r) ==
    /\ run[r].at = "release"
    /\ IF run[r].ok
       THEN /\ flag' = [flag EXCEPT ![run[r].job] = FALSE]
            /\ since' = [since EXCEPT ![run[r].job] = 0]
       ELSE UNCHANGED <<flag, since>>
    /\ run' = [run EXCEPT ![r] = Over]
    /\ UNCHANGED <<row, lastSkip, now, jobFaults, slow>>

\* finally: the flag is cleared, whichever run it now stands for.
Release(r) ==
    /\ run[r].at = "release"
    /\ flag' = [flag EXCEPT ![run[r].job] = FALSE]
    /\ since' = [since EXCEPT ![run[r].job] = 0]
    /\ run' = [run EXCEPT ![r] = Over]
    /\ UNCHANGED <<row, lastSkip, now, jobFaults, slow>>

-----------------------------------------------------------------------------
PassTime ==
    /\ now < MaxNow /\ now' = now + 1
    /\ slow' = (slow \/ \E r \in Alive(Ingest) : now + 1 - run[r].born >= Stale)
    /\ UNCHANGED <<flag, since, run, row, lastSkip, jobFaults>>

\* The process ends with everything it had in memory, and is started again.
Crash ==
    /\ jobFaults < MaxJobFaults /\ jobFaults' = jobFaults + 1
    /\ flag' = [j \in Jobs |-> FALSE] /\ since' = [j \in Jobs |-> 0]
    /\ lastSkip' = [j \in Jobs |-> 0]
    /\ run' = [r \in Runs |-> IF run[r].at = "idle" THEN Idle ELSE Over]
    /\ UNCHANGED <<row, now, slow>>

Advance(r) == Start(r) \/ Work(r) \/ Finish(r) \/ Release(r)

JobsNext ==
    \/ \E r \in Runs : Advance(r) \/ \E j \in Jobs : Tick(r, j)
    \/ \E j \in Jobs : SkipTick(j)
    \/ PassTime \/ Crash

JobsSpec == JobsInit /\ [][JobsNext]_jobVars

-----------------------------------------------------------------------------
JobsTypeOK ==
    /\ flag \in [Jobs -> BOOLEAN] /\ since \in [Jobs -> Nat]
    /\ run \in [Runs -> [at : Stages, job : Jobs, born : Nat, ok : BOOLEAN]]
    /\ row \in [Runs -> {"none", "running", "success", "failed"}]
    /\ lastSkip \in [Jobs -> Nat]
    /\ now \in Nat /\ jobFaults \in Nat /\ slow \in BOOLEAN

(***************************************************************************)
(* A job runs once at a time in a process, and its flag (what the console  *)
(* shows as running) is set exactly while it runs: ticks during a slow     *)
(* write of the row, failed runs and crashes included.  The ingest is      *)
(* excepted once one of its runs has lasted longer than the limit.         *)
(***************************************************************************)
JobsRunAlone ==
    \A j \in Jobs :
        \/ j = Ingest /\ slow
        \/ /\ \A r, s \in Alive(j) : r = s
           /\ flag[j] <=> Alive(j) # {}

(***************************************************************************)
(* A tick of the ingest is skipped only while a run younger than the limit *)
(* is alive: a run that hangs or dies cannot keep the ingest from running, *)
(* which is what the limit is for.                                         *)
(***************************************************************************)
SkipsAreJustified ==
    [][SkipTick(Ingest) => \E r \in Alive(Ingest) : now - run[r].born < Stale]_jobVars

=============================================================================
