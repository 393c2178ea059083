----------------------------- MODULE AinewsDigest -----------------------------
(***************************************************************************)
(* The mail digest of AI News: runDigest (ainews-digest.service.ts) reads  *)
(* who pays, who may get a trial and their preferences once, and then      *)
(* goes through them one by one: window, brief, mail, record.  Meanwhile   *)
(* readers change their preferences (ainews-preferences.service.ts), opt   *)
(* out by the link of a mail (public-ainews.controller.ts), buy or cancel. *)
(* A run may fail at any user, and the process may crash.                  *)
(***************************************************************************)
EXTENDS Integers, FiniteSets

CONSTANTS
    Readers,        \* end users of the app
    East,           \* those whose local date is an hour ahead
    Hours,          \* hours of a day; the last one is the window (22:00)
    MaxHour,        \* bound of the clock
    MaxChanges,     \* bound of the readers' changes
    MaxDigestFaults \* bound of failures and crashes

ASSUME DigestAssumption ==
    /\ East \subseteq Readers
    /\ Hours \in Nat \ {0} /\ MaxHour \in Nat
    /\ MaxChanges \in Nat /\ MaxDigestFaults \in Nat

VARIABLES
    prefs,    \* AinewsExtensionPreferences by reader, row FALSE when absent
    paying,   \* readers with an unlimited subscription
    bare,     \* readers without an address, industries or articles for a mail
    hour,     \* the clock
    digest,   \* the run: digestRunning and the local variables of runDigest
    daily,    \* history: daily mails by reader and local date
    trials,   \* history: trial mails by reader
    changes, digestFaults \* counters of the bounds

digestVars == <<prefs, paying, bare, hour, digest, daily, trials, changes, digestFaults>>

NoDate == -1
Dates == 0..(MaxHour + 1) \div Hours

Prefs == [row : BOOLEAN, optOut : BOOLEAN, trialSent : BOOLEAN, lastDaily : Dates \cup {NoDate}]
NoPrefs == [row |-> FALSE, optOut |-> FALSE, trialSent |-> FALSE, lastDaily |-> NoDate]

\* localDateTimeParts: the local hour and date of a reader.
Local(u, h) == h + (IF u \in East THEN 1 ELSE 0)
DateKey(u, h) == Local(u, h) \div Hours
InWindow(u, h) == Local(u, h) % Hours = Hours - 1

Asleep == [at |-> "idle", now |-> 0, who |-> {}, paid |-> {}, boot |-> {}, dailies |-> {},
           trialists |-> {}, seen |-> [u \in Readers |-> NoPrefs], deaf |-> {}]

DigestTypeOK ==
    /\ prefs \in [Readers -> Prefs] /\ paying \subseteq Readers /\ bare \subseteq Readers
    /\ hour \in 0..MaxHour
    /\ digest \in [at : {"idle", "rows", "trialRows", "boot", "create", "loop", "record", "recordTrial"},
                    now : 0..MaxHour, who : SUBSET Readers, paid : SUBSET Readers,
                    boot : SUBSET Readers, dailies : SUBSET Readers,
                    trialists : SUBSET Readers, seen : [Readers -> Prefs],
                    deaf : SUBSET Readers]
    /\ daily \in [Readers -> [Dates -> Nat]] /\ trials \in [Readers -> Nat]
    /\ changes \in 0..MaxChanges /\ digestFaults \in 0..MaxDigestFaults

DigestInit ==
    /\ prefs \in [Readers -> {NoPrefs, [NoPrefs EXCEPT !.row = TRUE]}]
    /\ paying \in SUBSET Readers /\ bare = {}
    /\ hour = 0 /\ digest = Asleep
    /\ daily = [u \in Readers |-> [d \in Dates |-> 0]]
    /\ trials = [u \in Readers |-> 0]
    /\ changes = 0 /\ digestFaults = 0

Failing == digestFaults < MaxDigestFaults /\ digestFaults' = digestFaults + 1

-----------------------------------------------------------------------------
\* digestTick, which digestRunning keeps from starting a second run, and
\* findUnlimitedSubscriberUserIds.
ReadPaying ==
    /\ digest.at = "idle"
    /\ digest' = [Asleep EXCEPT !.at = "rows", !.now = hour, !.paid = paying,
                     !.deaf = {u \in Readers : prefs[u].optOut}]
    /\ UNCHANGED <<prefs, paying, bare, hour, daily, trials, changes, digestFaults>>

\* A wrong Open: the preferences of anybody.
OpenAny(u) == prefs[u].row

\* Those who did not opt out ...
Open(u) == prefs[u].row /\ ~prefs[u].optOut

\* ... are read into the queue: first the daily mail for who pays, ...
ReadDailyRows ==
    /\ digest.at = "rows"
    /\ digest' = [digest EXCEPT !.at = "trialRows", !.seen = prefs,
                     !.dailies = {u \in digest.paid : Open(u)}]
    /\ UNCHANGED <<prefs, paying, bare, hour, daily, trials, changes, digestFaults>>

\* ... then the trial for who does not and had none.
ReadTrialRows ==
    /\ digest.at = "trialRows"
    /\ digest' = [digest EXCEPT !.at = "boot",
                     !.trialists = {u \in Readers \ digest.paid :
                                       Open(u) /\ ~prefs[u].trialSent},
                     !.boot = Readers \ digest.paid]
    /\ UNCHANGED <<prefs, paying, bare, hour, daily, trials, changes, digestFaults>>

\* bootstrapTrialPrefsFromAnon: a reader with a contact address and no
\* preferences gets some, and a trial.  Readers that the profile query does
\* not return are passed over.
BootFind(u) ==
    /\ digest.at = "boot" /\ u \in digest.boot
    /\ \/ digest' = [digest EXCEPT !.boot = @ \ {u}]
       \/ /\ ~prefs[u].row
          /\ digest' = [digest EXCEPT !.at = "create", !.who = {u}]
    /\ UNCHANGED <<prefs, paying, bare, hour, daily, trials, changes, digestFaults>>

\* A row made in between refuses the create, and the run fails.
BootCreate(u) ==
    /\ digest.at = "create" /\ u \in digest.who
    /\ IF prefs[u].row
       THEN digest' = Asleep /\ UNCHANGED prefs
       ELSE /\ prefs' = [prefs EXCEPT ![u] = [NoPrefs EXCEPT !.row = TRUE]]
            /\ digest' = [digest EXCEPT !.at = "boot", !.who = {}, !.boot = @ \ {u},
                             !.trialists = @ \cup {u},
                             !.seen[u] = [NoPrefs EXCEPT !.row = TRUE]]
    /\ UNCHANGED <<paying, bare, hour, daily, trials, changes, digestFaults>>

BootEnd ==
    /\ digest.at = "boot" /\ digest.boot = {}
    /\ digest' = [digest EXCEPT !.at = "loop"]
    /\ UNCHANGED <<prefs, paying, bare, hour, daily, trials, changes, digestFaults>>

-----------------------------------------------------------------------------
\* A wrong DueToday: whoever is in the window of the day.
DueInWindow(u) == InWindow(u, digest.now)

\* The reader is in the window and had no daily mail with this local date, in the row that was read.
DueToday(u) ==
    /\ InWindow(u, digest.now)
    /\ digest.seen[u].lastDaily # DateKey(u, digest.now)

\* Not due, no address, no industries, no articles; or the articles or the
\* brief cannot be had.
SkipReader(u) ==
    /\ digest.at = "loop"
    /\ \/ u \in digest.dailies /\ ~DueToday(u) /\ UNCHANGED digestFaults
       \/ u \in (digest.dailies \cup digest.trialists) \cap bare /\ UNCHANGED digestFaults
       \/ u \in digest.dailies \cup digest.trialists /\ Failing
    /\ digest' = [digest EXCEPT !.dailies = @ \ {u}, !.trialists = @ \ {u}]
    /\ UNCHANGED <<prefs, paying, bare, hour, daily, trials, changes>>

\* The brief is stored and the mail sent.
SendDaily(u) ==
    /\ digest.at = "loop" /\ u \in digest.dailies \ bare /\ DueToday(u)
    /\ daily' = [daily EXCEPT ![u][DateKey(u, digest.now)] = @ + 1]
    /\ digest' = [digest EXCEPT !.at = "record", !.dailies = @ \ {u}, !.who = {u}]
    /\ UNCHANGED <<prefs, paying, bare, hour, trials, changes, digestFaults>>

SendTrial(u) ==
    /\ digest.at = "loop" /\ digest.dailies = {} /\ u \in digest.trialists \ bare
    /\ trials' = [trials EXCEPT ![u] = @ + 1]
    /\ digest' = [digest EXCEPT !.at = "recordTrial", !.trialists = @ \ {u}, !.who = {u}]
    /\ UNCHANGED <<prefs, paying, bare, hour, daily, changes, digestFaults>>

\* What was sent is recorded: the column of the mail is written and nothing else.
RecordColumn(u) ==
    IF digest.at = "record" THEN [prefs[u] EXCEPT !.lastDaily = DateKey(u, digest.now)]
                            ELSE [prefs[u] EXCEPT !.trialSent = TRUE]

Record(u) ==
    /\ digest.at \in {"record", "recordTrial"} /\ u \in digest.who
    /\ prefs' = [prefs EXCEPT ![u] = RecordColumn(u)]
    /\ digest' = [digest EXCEPT !.at = "loop", !.who = {}]
    /\ UNCHANGED <<paying, bare, hour, daily, trials, changes, digestFaults>>

EndRun ==
    /\ digest.at = "loop" /\ digest.dailies \cup digest.trialists = {}
    /\ digest' = Asleep
    /\ UNCHANGED <<prefs, paying, bare, hour, daily, trials, changes, digestFaults>>

\* A wrong RunFails: digestRunning stays.
RunFailsHeld ==
    /\ digest.at # "idle" /\ Failing
    /\ digest' = [Asleep EXCEPT !.at = "held"]
    /\ UNCHANGED <<prefs, paying, bare, hour, daily, trials, changes>>

\* A query, the call that sends or the record throws, or the process dies:
\* the readers that are left get nothing from this run.
RunFails ==
    /\ digest.at # "idle" /\ Failing
    /\ digest' = Asleep
    /\ UNCHANGED <<prefs, paying, bare, hour, daily, trials, changes>>

-----------------------------------------------------------------------------
\* upsertForEndUser: a column that is not given is kept.
PutPrefs(u, optOut) ==
    /\ changes < MaxChanges /\ changes' = changes + 1
    /\ prefs' = [prefs EXCEPT ![u] = [@ EXCEPT !.row = TRUE, !.optOut = optOut]]
    /\ digest' = IF optOut THEN digest ELSE [digest EXCEPT !.deaf = @ \ {u}]
    /\ UNCHANGED <<paying, bare, hour, daily, trials, digestFaults>>

\* emailUnsubscribe: fails when there is no row.
EmailUnsubscribe(u) ==
    /\ changes < MaxChanges /\ changes' = changes + 1
    /\ prefs[u].row
    /\ prefs' = [prefs EXCEPT ![u].optOut = TRUE]
    /\ UNCHANGED <<paying, bare, hour, digest, daily, trials, digestFaults>>

\* A subscription starts or ends.
Subscribe(u) ==
    /\ changes < MaxChanges /\ changes' = changes + 1
    /\ paying' = IF u \in paying THEN paying \ {u} ELSE paying \cup {u}
    /\ UNCHANGED <<prefs, bare, hour, digest, daily, trials, digestFaults>>

\* What a mail needs comes or goes: an address, an industry, today's articles.
Change(u) ==
    /\ changes < MaxChanges /\ changes' = changes + 1
    /\ bare' = IF u \in bare THEN bare \ {u} ELSE bare \cup {u}
    /\ UNCHANGED <<prefs, paying, hour, digest, daily, trials, digestFaults>>

NextHour ==
    /\ hour < MaxHour /\ hour' = hour + 1
    /\ UNCHANGED <<prefs, paying, bare, digest, daily, trials, changes, digestFaults>>

RunStep ==
    \/ ReadPaying \/ ReadDailyRows \/ ReadTrialRows \/ BootEnd \/ EndRun
    \/ \E u \in Readers : \/ BootFind(u) \/ BootCreate(u)
                          \/ SkipReader(u) \/ SendDaily(u) \/ SendTrial(u) \/ Record(u)

ReaderStep(u) ==
    EmailUnsubscribe(u) \/ Subscribe(u) \/ Change(u) \/ \E o \in BOOLEAN : PutPrefs(u, o)

DigestNext == RunStep \/ RunFails \/ NextHour \/ \E u \in Readers : ReaderStep(u)

DigestSpec == DigestInit /\ [][DigestNext]_digestVars

\* The cron job comes every hour and its calls end.
FairDigestSpec == DigestSpec /\ WF_digestVars(RunStep)

-----------------------------------------------------------------------------
(***************************************************************************)
(* A reader gets at most one daily mail for a local date: however long a   *)
(* run takes, and whatever the reader changes meanwhile.  Only a failure   *)
(* between the mail and its record can repeat it.                          *)
(***************************************************************************)
DailyOnce ==
    digestFaults = 0 =>
        \A u \in Readers : \A d \in DOMAIN daily[u] : daily[u][d] <= 1

(***************************************************************************)
(* A reader gets the trial mail at most once, with the same exception.     *)
(***************************************************************************)
TrialOnce == digestFaults = 0 => \A u \in Readers : trials[u] <= 1

\* No mail is sent twice.
MailsAreSentOnce == DailyOnce /\ TrialOnce

(***************************************************************************)
(* A reader who had opted out when the run began, and did not come back,   *)
(* gets no mail of it, one who opts out later may still get one; and a run *)
(* changes no opt-out, whenever it was made.                               *)
(***************************************************************************)
OptOutIsRespected ==
    [][/\ \A u \in digest.deaf : daily'[u] = daily[u] /\ trials'[u] = trials[u]
       /\ RunStep => \A u \in Readers : prefs[u].optOut => prefs'[u].optOut]_digestVars

(***************************************************************************)
(* A reader who stays open for the trial, and has what a mail needs, gets  *)
(* it: a run that fails at somebody else, or at the creation of            *)
(* preferences, delays it.                                                 *)
(***************************************************************************)
Awaited(u) == Open(u) /\ u \notin paying \cup bare

TrialArrives ==
    \A u \in Readers : [](Awaited(u) => <>(trials[u] > 0 \/ ~ Awaited(u)))
=============================================================================
