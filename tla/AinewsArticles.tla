---------------------------- MODULE AinewsArticles ----------------------------
(***************************************************************************)
(* The articles of AI News and the summaries kept of them: the ingest      *)
(* (ainews-ingest.service.ts) upserts what the feeds list, the batch       *)
(* (ainews-ingest-summarize.service.ts) fills the summaries that are       *)
(* missing under a lock in the database, the cleanup                       *)
(* (ainews-cleanup.service.ts) deletes what is old.  An article is a       *)
(* number, greater ones are newer.  Of its dates the model keeps what is   *)
(* asked of them: `age` is old when it was published before the cutoff of  *)
(* the cleanup, `recent` says that it was published or created within the  *)
(* lookback of the batch.  Either of the two spans may be the longer one.  *)
(***************************************************************************)
EXTENDS Naturals, FiniteSets

CONSTANTS
    Articles,      \* canonical URLs, greater is newer
    Domains,       \* preset domains somebody follows
    Locales,       \* the target locales: zh, en and those of the users
    Ingests,       \* calls of runIngest that may overlap
    Workers,       \* calls of runBatchSummarize, in one process or several
    NoWorker,
    MaxScanned,    \* MAX_ARTICLES_SCANNED
    MaxPerRun,     \* the smaller of SUMMARIZE_SCAN_LIMIT and SUMMARIZE_ITEMS_PER_RUN
    MaxCollects,   \* bound of the ingests
    MaxNewsFaults  \* bound of errors of feeds, model and database, and crashes

ASSUME ArticlesAssumption ==
    /\ Articles \subseteq Nat
    /\ NoWorker \notin Workers
    /\ {MaxScanned, MaxPerRun} \subseteq Nat \ {0} /\ MaxCollects \in Nat /\ MaxNewsFaults \in Nat

Nothing == [age |-> "none", recent |-> FALSE, domains |-> {}]

VARIABLES
    article,   \* AinewsArticle by URL; age "none" when there is no row
    cache,     \* AinewsArticleSummaryCache: pairs of URL and locale
    ingest,    \* the calls of runIngest
    batch,     \* the calls of runBatchSummarize
    jobLock,   \* AinewsEdgeJobLock: its worker, or NoWorker
    lapsed,    \* lockedUntil of the row has passed
    cleaner,   \* the call of runCleanup
    newsFaults, collects, \* counters of the bounds
    met        \* history: two ingests were under way at once

newsVars == <<article, cache, ingest, batch, jobLock, lapsed, cleaner, newsFaults, collects, met>>

NoIngest == [at |-> "idle", rows |-> [a \in Articles |-> Nothing],
             prev |-> [a \in Articles |-> {}], known |-> {}, todo |-> {}]
NoBatch == [at |-> "idle", items |-> {}, over |-> FALSE]
NoCleanup == [at |-> "idle", found |-> {}]

NewsInit ==
    /\ article = [a \in Articles |-> Nothing] /\ cache = {}
    /\ ingest = [i \in Ingests |-> NoIngest] /\ batch = [w \in Workers |-> NoBatch]
    /\ jobLock = NoWorker /\ lapsed = FALSE
    /\ cleaner = NoCleanup /\ newsFaults = 0 /\ collects = 0 /\ met = FALSE

Exists(a) == article[a].age # "none"
Fault == newsFaults < MaxNewsFaults /\ newsFaults' = newsFaults + 1

\* Between the lock and its release.
InBatch(w) == batch[w].at \in {"scan", "fill", "release"}

\* isMissingAnyLocale
Missing(a) == \E l \in Locales : <<a, l>> \notin cache

-----------------------------------------------------------------------------
\* runIngest: the feeds are fetched one by one, a feed that fails is left
\* out; the rows are whatever they list, which may be nothing, and each has
\* a title.
Collect(i) ==
    /\ ingest[i].at = "idle" /\ collects < MaxCollects
    /\ \E S \in (SUBSET Articles) \ {{}}, d \in (SUBSET Domains) \ {{}}, 
          g \in {"fresh", "old"}, p \in BOOLEAN :
          ingest' = [ingest EXCEPT ![i] =
              [NoIngest EXCEPT !.at = "read", !.todo = S,
                  !.rows = [a \in Articles |->
                      IF a \in S THEN [age |-> g, recent |-> p, domains |-> d]
                      ELSE Nothing]]]
    /\ met' = (met \/ \E k \in Ingests \ {i} : ingest[k].at # "idle")
    /\ collects' = collects + 1
    /\ UNCHANGED <<article, cache, batch, jobLock, lapsed, cleaner, newsFaults>>

\* The rows that are there already, with their domains; then images and the
\* id sequence.
ReadExisting(i) ==
    /\ ingest[i].at = "read"
    /\ ingest' = [ingest EXCEPT ![i].at = "write",
                     ![i].known = {a \in ingest[i].todo : Exists(a)},
                     ![i].prev = [a \in Articles |->
                         IF a \in ingest[i].todo THEN article[a].domains ELSE {}]]
    /\ UNCHANGED <<article, cache, batch, jobLock, lapsed, cleaner, newsFaults, collects, met>>

\* The row of the feed, with the domains of the row that was read.  A row that
\* is not there is created now; one that is there may have been created within
\* the lookback, if it counted as recent.
Merged(i, a, new) ==
    [ingest[i].rows[a] EXCEPT !.domains = @ \cup ingest[i].prev[a],
                              !.recent = @ \/ new \/ ~Exists(a)]

Upsert(i) ==
    /\ ingest[i].at = "write"
    /\ \E a \in ingest[i].todo, new \in BOOLEAN :
          /\ new => article[a].recent
          /\ article' = [article EXCEPT ![a] = Merged(i, a, new)]
          /\ LET left == ingest[i].todo \ {a}
             IN  ingest' = [ingest EXCEPT ![i].todo = left,
                                ![i].at = IF left = {} THEN "quick" ELSE "write"]
    /\ UNCHANGED <<cache, batch, jobLock, lapsed, cleaner, newsFaults, collects, met>>

\* quickSummarizeAfterIngest: of the articles that were not there, the model
\* answers for some, and each answer is upserted on its own.
Quick(i) ==
    LET fresh == {a \in Articles : /\ ingest[i].rows[a].age # "none"
                                   /\ a \notin ingest[i].known
                                   /\ Missing(a)}
    IN  /\ ingest[i].at = "quick"
        /\ \E got \in SUBSET (fresh \X Locales) : cache' = cache \cup got
        /\ ingest' = [ingest EXCEPT ![i] = NoIngest]
        /\ UNCHANGED <<article, batch, jobLock, lapsed, cleaner, newsFaults, collects, met>>

\* An error of the database, or a crash: what is written stays.
IngestFails(i) ==
    /\ ingest[i].at # "idle" /\ Fault
    /\ ingest' = [ingest EXCEPT ![i] = NoIngest]
    /\ UNCHANGED <<article, cache, batch, jobLock, lapsed, cleaner, collects, met>>

-----------------------------------------------------------------------------
\* A wrong DropLapsed: the lock is deleted whether its time has passed or not.
DropAny(w) ==
    /\ batch[w].at = "idle"
    /\ jobLock' = NoWorker /\ lapsed' = FALSE
    /\ batch' = [batch EXCEPT ![w].at = "create"]
    /\ UNCHANGED <<article, cache, ingest, cleaner, newsFaults, collects, met>>

\* Another: a lock that was left behind stays.
DropNever(w) ==
    /\ batch[w].at = "idle"
    /\ batch' = [batch EXCEPT ![w].at = "create"]
    /\ UNCHANGED <<article, cache, ingest, jobLock, lapsed, cleaner, newsFaults, collects, met>>

\* tryAcquireJobLock: the lock is deleted if its time has passed ...
DropLapsed(w) ==
    /\ batch[w].at = "idle"
    /\ jobLock' = IF lapsed THEN NoWorker ELSE jobLock
    /\ lapsed' = FALSE
    /\ batch' = [batch EXCEPT ![w].at = "create"]
    /\ UNCHANGED <<article, cache, ingest, cleaner, newsFaults, collects, met>>

\* ... then it is created, which the unique name refuses to the second.
Acquire(w) ==
    /\ batch[w].at = "create"
    /\ IF jobLock = NoWorker
       THEN /\ jobLock' = w /\ lapsed' = FALSE
            /\ batch' = [batch EXCEPT ![w].at = "scan"]
       ELSE batch' = [batch EXCEPT ![w] = NoBatch] /\ UNCHANGED <<jobLock, lapsed>>
    /\ UNCHANGED <<article, cache, ingest, cleaner, newsFaults, collects, met>>

\* The time of the lock passes; its worker, if it still runs, does not see it.
Lapse ==
    /\ jobLock # NoWorker /\ ~lapsed /\ lapsed' = TRUE
    /\ batch' = [w \in Workers |->
                   IF w = jobLock /\ InBatch(w)
                   THEN [batch[w] EXCEPT !.over = TRUE] ELSE batch[w]]
    /\ UNCHANGED <<article, cache, ingest, jobLock, cleaner, newsFaults, collects, met>>

Newest(S, n) == {a \in S : Cardinality({b \in S : b > a}) < n}

\* loadArticlesMissingLocaleCache: of the articles published or created within
\* the lookback the newest are looked through, and of those the newest that
\* miss a summary are taken.
Scanned == Newest({a \in Articles : article[a].recent}, MaxScanned)

ScanMissing == Newest({a \in Scanned : Missing(a)}, MaxPerRun)

Scan(w) ==
    /\ batch[w].at = "scan"
    /\ batch' = [batch EXCEPT ![w].at = "fill", ![w].items = ScanMissing]
    /\ UNCHANGED <<article, cache, ingest, jobLock, lapsed, cleaner, newsFaults, collects, met>>

\* generateLocaleSummariesForIngest and upsertCacheRows: all the rows, or only
\* some of them when the model or an upsert fails.
Fill(w) ==
    /\ batch[w].at = "fill"
    /\ \/ cache' = cache \cup (batch[w].items \X Locales) /\ UNCHANGED newsFaults
       \/ /\ Fault
          /\ \E got \in SUBSET (batch[w].items \X Locales) : cache' = cache \cup got
    /\ batch' = [batch EXCEPT ![w].at = "release", ![w].items = {}]
    /\ UNCHANGED <<article, ingest, jobLock, lapsed, cleaner, collects, met>>

\* An error of the database on the way; the lock is released all the same.
BatchFails(w) ==
    /\ batch[w].at \in {"scan", "fill"} /\ Fault
    /\ batch' = [batch EXCEPT ![w].at = "release", ![w].items = {}]
    /\ UNCHANGED <<article, cache, ingest, jobLock, lapsed, cleaner, collects, met>>

\* releaseJobLock: only the worker's own lock.
Unlock(w) ==
    /\ batch[w].at = "release"
    /\ jobLock' = IF jobLock = w THEN NoWorker ELSE jobLock
    /\ lapsed' = (lapsed /\ jobLock # w)
    /\ batch' = [batch EXCEPT ![w] = NoBatch]
    /\ UNCHANGED <<article, cache, ingest, cleaner, newsFaults, collects, met>>

\* The process dies: the lock stays until its time has passed.
WorkerDies(w) ==
    /\ batch[w].at # "idle" /\ Fault
    /\ batch' = [batch EXCEPT ![w] = NoBatch]
    /\ UNCHANGED <<article, cache, ingest, jobLock, lapsed, cleaner, collects, met>>

-----------------------------------------------------------------------------
\* runCleanup: what is older than the cutoff is listed, ...
FindStale ==
    /\ cleaner.at = "idle"
    /\ \E a \in Articles : article[a].age = "old"
    /\ cleaner' = [at |-> "articles", found |-> {a \in Articles : article[a].age = "old"}]
    /\ UNCHANGED <<article, cache, ingest, batch, jobLock, lapsed, newsFaults, collects, met>>

\* A wrong DeleteOlder: the articles that were listed, whatever their date now.
DeleteFound(D) == D = cleaner.found

\* Those older than the cutoff now; an article that has only
\* become old since is not.
DeleteOlder(D) ==
    /\ \A a \in D : article[a].age = "old"
    /\ \A a \in cleaner.found : article[a].age = "old" => a \in D

DeleteArticles ==
    /\ cleaner.at = "articles"
    /\ \E D \in SUBSET Articles :
          DeleteOlder(D) /\ article' = [a \in Articles |-> IF a \in D THEN Nothing ELSE article[a]]
    /\ cleaner' = [cleaner EXCEPT !.at = "caches"]
    /\ UNCHANGED <<cache, ingest, batch, jobLock, lapsed, newsFaults, collects, met>>

\* ... and then the summaries of what was listed, refreshed since or not.
DeleteCaches ==
    /\ cleaner.at = "caches"
    /\ cache' = {c \in cache : c[1] \notin cleaner.found}
    /\ cleaner' = NoCleanup
    /\ UNCHANGED <<article, ingest, batch, jobLock, lapsed, newsFaults, collects, met>>

CleanupFails ==
    /\ cleaner.at # "idle" /\ Fault
    /\ cleaner' = NoCleanup
    /\ UNCHANGED <<article, cache, ingest, batch, jobLock, lapsed, collects, met>>

\* NEWS_RETENTION_DAYS go by.
GrowOld ==
    /\ \E a \in Articles : /\ article[a].age = "fresh"
                           /\ article' = [article EXCEPT ![a].age = "old"]
    /\ UNCHANGED <<cache, ingest, batch, jobLock, lapsed, cleaner, newsFaults, collects, met>>

\* SUMMARIZE_LOOKBACK_DAYS go by.
LeaveLookback ==
    /\ \E a \in Articles : /\ article[a].recent
                           /\ article' = [article EXCEPT ![a].recent = FALSE]
    /\ UNCHANGED <<cache, ingest, batch, jobLock, lapsed, cleaner, newsFaults, collects, met>>

-----------------------------------------------------------------------------
IngestStep(i) == ReadExisting(i) \/ Upsert(i) \/ Quick(i)
BatchStep(w) == DropLapsed(w) \/ Acquire(w) \/ Scan(w) \/ Fill(w) \/ Unlock(w)

NewsNext ==
    \/ \E i \in Ingests : Collect(i) \/ IngestStep(i) \/ IngestFails(i)
    \/ \E w \in Workers : BatchStep(w) \/ BatchFails(w) \/ WorkerDies(w)
    \/ Lapse \/ FindStale \/ DeleteArticles \/ DeleteCaches \/ CleanupFails
    \/ GrowOld \/ LeaveLookback

NewsSpec == NewsInit /\ [][NewsNext]_newsVars

\* The cron job of the batch keeps coming, calls end, and time passes.
FairNewsSpec ==
    /\ NewsSpec
    /\ \A w \in Workers : WF_newsVars(BatchStep(w))
    /\ WF_newsVars(Lapse)

-----------------------------------------------------------------------------
Row == [age : {"none", "fresh", "old"}, recent : BOOLEAN, domains : SUBSET Domains]

NewsTypeOK ==
    /\ article \in [Articles -> Row]
    /\ cache \subseteq Articles \X Locales
    /\ ingest \in [Ingests -> [at : {"idle", "read", "write", "quick"},
                               rows : [Articles -> Row], prev : [Articles -> SUBSET Domains],
                               known : SUBSET Articles, todo : SUBSET Articles]]
    /\ batch \in [Workers -> [at : {"idle", "create", "scan", "fill", "release"},
                              items : SUBSET Articles, over : BOOLEAN]]
    /\ jobLock \in Workers \cup {NoWorker} /\ lapsed \in BOOLEAN
    /\ cleaner \in [at : {"idle", "articles", "caches"}, found : SUBSET Articles]
    /\ newsFaults \in Nat /\ collects \in Nat /\ met \in BOOLEAN

(***************************************************************************)
(* Two batches run at once only if one of them has outlived its lock: the  *)
(* deletion of the lapsed lock, its creation and the release of a worker   *)
(* that was overtaken never let a third one in.                            *)
(***************************************************************************)
BatchRunsAlone ==
    \A w, v \in Workers :
        InBatch(w) /\ InBatch(v) /\ w # v => batch[w].over \/ batch[v].over

(***************************************************************************)
(* What the ingest found is not taken away.  The cleanup never deletes an  *)
(* article that was made fresh again since it listed the old ones; and an  *)
(* article never loses a domain it was found under, so that its readers    *)
(* keep seeing it, as long as no two ingests overlap.                      *)
(***************************************************************************)
ArticlesAreKept ==
    [][\A a \in Articles :
         /\ article[a].age = "fresh" => article'[a].age # "none"
         /\ article'[a].age # "none" /\ ~met' =>
                article[a].domains \subseteq article'[a].domains]_newsVars

(***************************************************************************)
(* An article gets its summaries in all the target locales, unless it goes *)
(* or is beyond the scan at some time from then on, published and created  *)
(* before the lookback or behind MAX_ARTICLES_SCANNED newer ones: after    *)
(* crashed workers that leave the lock behind, answers of the model that   *)
(* miss articles, and a cleanup that takes the summaries of an article     *)
(* that came back; once the feeds list nothing new.                        *)
(***************************************************************************)
SummariesArrive ==
    \A a \in Articles : [](Exists(a) => <>(a \notin Scanned \/ ~Missing(a)))
=============================================================================
