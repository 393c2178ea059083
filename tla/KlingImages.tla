----------------------------- MODULE KlingImages -----------------------------
(***************************************************************************)
(* Image generation at the upstream Kling API (KlingImageService) and the  *)
(* room decoration built on it (TuringRoomDecorationService).              *)
(*                                                                         *)
(* A call reads the settings, creates a task upstream and, when it is      *)
(* synchronous, asks for the task's state until it is settled or the time  *)
(* for polling is over.  A room decoration does this once for every theme, *)
(* one theme after the other.  Every request carries a bearer token taken  *)
(* from a cache.  The upstream settles its tasks whenever it likes, may    *)
(* refuse a request and may create a task whose answer never arrives.      *)
(***************************************************************************)
EXTENDS Naturals, Sequences, FiniteSets, SequencesExt

CONSTANTS
    KlingCalls,         \* calls of the service
    IdMax,              \* bound of the tasks of each kind
    AccessKeys,         \* access keys an administrator may configure
    Themes,             \* decoration themes
    Blank,              \* a theme that is empty after trim
    Wishes,             \* what the calls may ask for
    NoCall,             \* no call
    PollMax,            \* the queries that fit into POLL_MAX_MS
    Refresh,            \* age at which a cached token is renewed (25 minutes)
    Validity,           \* age at which a token expires (30 minutes)
    MaxClock,           \* bound of the clock
    MaxPatches,         \* bound of the changes of the settings
    MaxTroubles         \* bound of upstream errors and restarts

ASSUME KlingAssumption ==
    /\ PollMax \in Nat \ {0} /\ IdMax \in Nat
    /\ Refresh \in Nat \ {0}
    /\ Validity \in Nat /\ Refresh < Validity
    /\ MaxClock \in Nat /\ MaxPatches \in Nat /\ MaxTroubles \in Nat
    /\ AccessKeys # {}
    /\ Blank \notin Themes
    /\ NoCall \notin KlingCalls

VARIABLES
    settings,           \* the row klingImage: [enabled, key], "none" without keys
    cache,              \* tokenCache: {} or one [key, made]
    task,               \* task[m, i]: the upstream task i of kind m
    gen,                \* gen[c]: the state of call c
    clock,              \* time, in units of the token's life
    patches, troubles   \* bounded counters

klingVars == <<settings, cache, task, gen, clock, patches, troubles>>

Modes == {"gen", "mi2i"}
Settled == {"succeed", "failed"}

\* What a call is asked for: the themes of a room decoration, or none of
\* them for one image; the number of reference images; whether to wait.
ASSUME WishAssumption ==
    /\ Wishes \subseteq [themes : Seq(Themes \cup {Blank}), images : 0..4, sync : BOOLEAN]
    /\ Wishes # {}

Ids == 1..IdMax

\* dedupeRoomDecorationThemes: the themes that are not empty, each once.
Dedupe(themes) == Range(themes) \ {Blank}

ItemsTwice(wish) ==
    IF wish.themes = <<>> THEN 1 ELSE Cardinality({k \in DOMAIN wish.themes : wish.themes[k] # Blank})
Items(wish) == IF wish.themes = <<>> THEN 1 ELSE Cardinality(Dedupe(wish.themes))

\* The credits the room decoration controller charges for the call.
Charge(wish) == Cardinality(Dedupe(wish.themes))

\* Two or more reference images go to the multi image endpoint.
ModeOf(wish) == IF wish.images >= 2 THEN "mi2i" ELSE "gen"

-----------------------------------------------------------------------------
\* Public task ids: the kind, a colon and the upstream id.
Encode(mode, id) == <<mode, ":", id>>

Decode(raw) == IF raw[1] = "mi2i" THEN <<"mi2i", Last(raw)>> ELSE <<"gen", Last(raw)>>

-----------------------------------------------------------------------------
\* The upstream numbers the tasks of each kind.
NextId(m) == 1 + Cardinality({i \in Ids : task[<<m, i>>].state # "none"})

NoTask == [state |-> "none", by |-> NoCall, item |-> 0]
Idle == [pc |-> "idle", wish |-> CHOOSE w \in Wishes : TRUE, item |-> 1, key |-> "none",
         ticket |-> <<>>, polls |-> 0, got |-> <<>>, sent |-> {}]

KlingInit ==
    /\ settings = [enabled |-> TRUE, key |-> CHOOSE k \in AccessKeys : TRUE]
    /\ cache = {}
    /\ task = [x \in Modes \X Ids |-> NoTask]
    /\ gen = [c \in KlingCalls |-> Idle]
    /\ clock = 0 /\ patches = 0 /\ troubles = 0

Trouble == troubles < MaxTroubles /\ troubles' = troubles + 1

\* A wrong GetBearer: the cached token is taken whatever keys it was made with.
TokenAnyKey(key) ==
    LET fit == {t \in cache : clock < t.made + Refresh}
    IN  IF fit # {} THEN CHOOSE t \in fit : TRUE ELSE [key |-> key, made |-> clock]

\* getBearer: the cached token if it is for these keys and young enough,
\* otherwise a new one, which is cached.
GetBearer(key) ==
    LET fit == {t \in cache : t.key = key /\ clock < t.made + Refresh}
    IN  IF fit # {} THEN CHOOSE t \in fit : TRUE ELSE [key |-> key, made |-> clock]

\* A request of call c, which is r afterwards: it carries a token, and the age
\* of that is noted.
Send(c, r) ==
    LET token == GetBearer(gen[c].key)
    IN  /\ cache' = {token}
        /\ gen' = [gen EXCEPT ![c] =
              [r EXCEPT !.sent = {[key |-> token.key, age |-> clock - token.made]}]]

Become(c, r) == gen' = [gen EXCEPT ![c] = r]

GenFailed(c) == [gen[c] EXCEPT !.pc = "failed"]

-----------------------------------------------------------------------------
\* generateFromDto / generateViaKling: one to four themes, checked first.
Ask(c, wish) ==
    /\ gen[c].pc = "idle"
    /\ Items(wish) \in 1..4
    /\ Become(c, [gen[c] EXCEPT !.pc = IF wish.themes = <<>> THEN "settings" ELSE "model",
                                !.wish = wish])
    /\ UNCHANGED <<settings, cache, task, clock, patches, troubles>>

\* Kling is switched on and has keys.
Ready == settings.enabled /\ settings.key # "none"

\* resolveModelForRoomDecoration: only when neither the call nor the settings
\* name a model for decorations must Kling be ready.
ResolveModel(c) ==
    /\ gen[c].pc = "model"
    /\ \/ Become(c, [gen[c] EXCEPT !.pc = "settings"])
       \/ ~Ready /\ Become(c, GenFailed(c))
    /\ UNCHANGED <<settings, cache, task, clock, patches, troubles>>

\* assertActiveConfig, for every item again.
ReadSettings(c) ==
    /\ gen[c].pc = "settings"
    /\ Become(c, IF Ready
                    THEN [gen[c] EXCEPT !.pc = "create", !.key = settings.key, !.sent = {}]
                    ELSE GenFailed(c))
    /\ UNCHANGED <<settings, cache, task, clock, patches, troubles>>

\* The end of an item: the next theme, or the answer.
Collected(c, id) ==
    LET more == gen[c].item < Items(gen[c].wish)
    IN  [gen[c] EXCEPT !.pc = IF more THEN "settings" ELSE "ok",
                       !.item = IF more THEN @ + 1 ELSE @,
                       !.got = Append(@, id), !.polls = 0]

\* runOfficialTask, the request that creates a task: it succeeds ...
Create(c) ==
    LET m == ModeOf(gen[c].wish)
        id == NextId(m)
    IN  /\ gen[c].pc = "create"
        /\ id \in Ids
        /\ task' = [task EXCEPT ![<<m, id>>] = [state |-> "running", by |-> c, item |-> gen[c].item]]
        /\ Send(c, IF gen[c].wish.sync
                     THEN [gen[c] EXCEPT !.pc = "poll", !.ticket = Encode(m, id), !.polls = 0]
                     ELSE Collected(c, Encode(m, id)))
        /\ UNCHANGED <<settings, clock, patches, troubles>>

\* ... or is refused, or its answer is lost after the task was created.
CreateFails(c) ==
    /\ gen[c].pc = "create"
    /\ Trouble
    /\ Send(c, GenFailed(c))
    /\ \/ UNCHANGED task
       \/ LET m == ModeOf(gen[c].wish)
          IN  /\ NextId(m) \in Ids
              /\ task' = [task EXCEPT ![<<m, NextId(m)>>] =
                            [state |-> "running", by |-> c, item |-> gen[c].item]]
    /\ UNCHANGED <<settings, clock, patches>>

\* The task that a query for an id of the given kind reads.
QueryPath(m, id) == <<m, id>>

\* pollOfficial: one query; a settled task ends the polling, and so does the
\* end of the time for it.
Poll(c) ==
    LET at == QueryPath(ModeOf(gen[c].wish), Last(gen[c].ticket))
        seen == task[at].state
    IN  /\ gen[c].pc = "poll"
        /\ gen[c].polls < PollMax
        /\ \/ seen = "succeed" /\ Send(c, Collected(c, at))
           \/ seen \in {"failed", "none"} /\ Send(c, GenFailed(c))
           \/ seen = "running" /\ Send(c, [gen[c] EXCEPT !.polls = @ + 1])
        /\ UNCHANGED <<settings, task, clock, patches, troubles>>

\* A query that fails or times out ends the call at once.
PollFails(c) ==
    /\ gen[c].pc = "poll"
    /\ gen[c].polls < PollMax
    /\ Trouble
    /\ Send(c, GenFailed(c))
    /\ UNCHANGED <<settings, task, clock, patches>>

PollTimesOut(c) ==
    /\ gen[c].pc = "poll"
    /\ gen[c].polls = PollMax
    /\ Become(c, GenFailed(c))
    /\ UNCHANGED <<settings, cache, task, clock, patches, troubles>>

\* getTaskStatus: the client asks for a task it was given an id of.
AskStatus(c, raw) ==
    /\ gen[c].pc = "idle"
    /\ Become(c, [gen[c] EXCEPT !.pc = IF Ready THEN "query" ELSE "failed",
                                !.key = settings.key, !.ticket = raw, !.sent = {}])
    /\ UNCHANGED <<settings, cache, task, clock, patches, troubles>>

QueryStatus(c) ==
    /\ gen[c].pc = "query"
    /\ Send(c, [gen[c] EXCEPT !.pc = "told", !.got = <<Decode(gen[c].ticket)>>])
    /\ UNCHANGED <<settings, task, clock, patches, troubles>>

-----------------------------------------------------------------------------
\* patchAdminSettings: the settings are written and the token is dropped.
Patch(new) ==
    /\ patches < MaxPatches
    /\ new # settings
    /\ settings' = new
    /\ cache' = {}
    /\ patches' = patches + 1
    /\ UNCHANGED <<task, gen, clock, troubles>>

Settle(x, s) ==
    /\ task[x].state = "running"
    /\ task' = [task EXCEPT ![x].state = s]
    /\ UNCHANGED <<settings, cache, gen, clock, patches, troubles>>

Tick ==
    /\ clock < MaxClock
    /\ clock' = clock + 1
    /\ UNCHANGED <<settings, cache, task, gen, patches, troubles>>

\* The process restarts: the calls under way are cut off, the cache is lost.
RestartKling ==
    /\ Trouble
    /\ cache' = {}
    /\ gen' = [c \in KlingCalls |->
                 IF gen[c].pc \in {"idle", "ok", "failed", "told"} THEN gen[c]
                 ELSE [gen[c] EXCEPT !.pc = "failed"]]
    /\ UNCHANGED <<settings, task, clock, patches>>

Tickets == UNION {{t \in Range(gen[c].got) : Len(t) = 3} : c \in {d \in KlingCalls : gen[d].pc = "ok"}}

CallStep(c) ==
    \/ ResolveModel(c) \/ ReadSettings(c) \/ Create(c)
    \/ Poll(c) \/ PollTimesOut(c) \/ QueryStatus(c)

KlingNext ==
    \/ \E c \in KlingCalls :
         \/ \E w \in Wishes : Ask(c, w)
         \/ \E raw \in Tickets : AskStatus(c, raw)
         \/ CallStep(c) \/ CreateFails(c) \/ PollFails(c)
    \/ Patch([settings EXCEPT !.enabled = FALSE])
    \/ \E k \in AccessKeys \cup {"none"} : Patch([settings EXCEPT !.key = k])
    \/ \E x \in Modes \X Ids, s \in Settled : Settle(x, s)
    \/ Tick \/ RestartKling

KlingSpec == KlingInit /\ [][KlingNext]_klingVars

-----------------------------------------------------------------------------
(* Type invariant of the calls, the tasks and the token cache.             *)
KlingTypeOK ==
    /\ settings \in [enabled : BOOLEAN, key : AccessKeys \cup {"none"}]
    /\ Cardinality(cache) <= 1
    /\ cache \subseteq [key : AccessKeys, made : 0..MaxClock]
    /\ task \in [Modes \X Ids -> [state : {"none", "running"} \cup Settled,
                                  by : KlingCalls \cup {NoCall}, item : 0..4]]
    /\ \A c \in KlingCalls :
         /\ gen[c].pc \in {"idle", "model", "settings", "create", "poll", "query", "ok", "failed", "told"}
         /\ gen[c].polls \in 0..PollMax /\ gen[c].item \in 1..4

TaskOf(t) == IF Len(t) = 3 THEN <<t[1], t[3]>> ELSE t

(* Every image, or task id, of an answer is that of the task the call      *)
(* itself created for that item, and a status query reads the task whose   *)
(* id it was given, although the two kinds of tasks use the same ids       *)
(* (encodePublicTaskId, decodePublicTaskId, queryPath).                    *)
AnswersAreOwn ==
    \A c \in KlingCalls :
      /\ gen[c].pc = "ok" =>
           \A k \in DOMAIN gen[c].got :
             LET t == task[TaskOf(gen[c].got[k])] IN t.by = c /\ t.item = k
      /\ gen[c].pc = "told" => gen[c].got[1] = TaskOf(gen[c].ticket)

(* A request is signed with the keys its call read from the settings and   *)
(* its token has not expired, whatever keys other calls cached a token     *)
(* for, and however long ago (getBearer, patchAdminSettings).              *)
BearersFit ==
    \A c \in KlingCalls : \A s \in gen[c].sent :
      s.key = gen[c].key /\ s.age < Validity

(* Calls that run at once do not mix up what is theirs: tasks by their ids, *)
(* tokens by their keys.                                                   *)
CallsKeepTheirOwn == AnswersAreOwn /\ BearersFit

(* A room decoration never creates more upstream tasks than the themes it  *)
(* was charged for, and one that succeeds created exactly as many: the     *)
(* controller and the service count the same themes.                       *)
TasksArePaid ==
    \A c \in KlingCalls :
      LET made == Cardinality({x \in Modes \X Ids : task[x].by = c})
      IN  gen[c].pc # "idle" /\ gen[c].wish.themes # <<>> =>
            /\ made <= Charge(gen[c].wish)
            /\ gen[c].pc = "ok" => made = Charge(gen[c].wish)

=============================================================================
