-------------------------------- MODULE Console --------------------------------
(***************************************************************************)
(* The administration of the platform: sign-in (auth.service.ts), the      *)
(* check of every request (jwt.strategy.ts, rbac.guard.ts), administrators *)
(* and roles (admin.service.ts, role.service.ts), the removal of an        *)
(* application (app-registry.service.ts), and the operation log that the   *)
(* audit interceptor and the webhooks write.  A handler reads and then     *)
(* writes; the log is written after the answer.                            *)
(***************************************************************************)
EXTENDS Integers, FiniteSets

CONSTANTS
    AdminEmails, Env,        \* addresses, and the one of ADMIN_LOGIN_EMAIL
    Spellings,          \* addresses that differ from Env by upper case only, and Env
    Ids, NoId,          \* keys of administrators, given out once, and no key
    Roles, Super,       \* names of roles, and the system role super_admin
    Apps,               \* applications
    ConsoleCalls,       \* requests served at once
    MaxActs             \* bound of requests with a token, events, failing log
                        \* statements and restarts, all together

ASSUME ConsoleAssumption ==
    /\ Env \in Spellings /\ Spellings \subseteq AdminEmails /\ Super \in Roles
    /\ Ids \cap {NoId, "unset", "null"} = {}
    /\ IsFiniteSet(ConsoleCalls) /\ MaxActs \in Nat

VARIABLES
    admins,         \* adminUser by key; a removed key is not used again
    spent,          \* keys that were given out
    roles, may,     \* roles, and those whose permissions allow the changes
    apps,           \* applications
    opLog,          \* opLog[i]: rows of system_operation_log of i's changes
    tokens,         \* keys that hold an access token
    actor,          \* SystemOperationLogService.automationActor
    consoleCall,    \* the requests
    done,           \* history: done[i]: changes i has made
    acts,           \* requests, events and faults so far
    dropped, nobody, \* history: events not recorded though no statement failed, and
                    \* whether one came when there was no active super_admin
    troubled        \* history: a log statement failed, or the server restarted

consoleVars == <<admins, spent, roles, may, apps, opLog, tokens, actor, consoleCall,
                 done, acts, dropped, nobody, troubled>>
staff == <<admins, spent>>
rights == <<roles, may>>
automation == <<actor, dropped, nobody>>

Nobody == [email |-> Env, here |-> FALSE, active |-> FALSE, role |-> Super, apps |-> {}]
Rows == [email : AdminEmails, here : BOOLEAN, active : BOOLEAN, role : Roles, apps : SUBSET Apps]

Changes ==
    [op : {"makeAdmin"}, email : AdminEmails, role : Roles]
      \cup [op : {"setActive"}, id : Ids, to : BOOLEAN]
      \cup [op : {"setRole"}, id : Ids, to : Roles]
      \cup [op : {"setApps"}, id : Ids, to : SUBSET Apps]
      \cup [op : {"dropAdmin"}, id : Ids]
      \cup [op : {"makeRole", "grant", "deny", "dropRole"}, role : Roles]
      \cup [op : {"dropApp"}, app : Apps]

Here == {i \in Ids : admins[i].here}
Active(i) == admins[i].here /\ admins[i].active

ConsolePCs == {"idle", "find", "ensure", "again", "stamp", "validate", "read", "commit", "log"}
Quiet == [pc |-> "idle", by |-> NoId, ask |-> [op |-> "none"], email |-> Env, env |-> FALSE,
          seen |-> [i \in {} |-> {}], met |-> {}]

ConsoleRequests ==
    [pc : ConsolePCs, by : Ids \cup {NoId}, ask : Changes \cup {Quiet.ask}, email : AdminEmails,
     env : BOOLEAN, seen : UNION {[is -> SUBSET Apps] : is \in SUBSET Ids}, met : SUBSET Ids]

ConsoleTypeOK ==
    /\ admins \in [Ids -> Rows]
    /\ spent \subseteq Ids /\ Here \subseteq spent /\ tokens \subseteq spent
    /\ roles \subseteq Roles /\ may \subseteq roles /\ apps \subseteq Apps
    /\ \A i \in Here : admins[i].role \in roles
    /\ \A i, j \in Here : admins[i].email = admins[j].email => i = j
    /\ opLog \in [Ids -> Nat] /\ done \in [Ids -> Nat]
    /\ actor \in Ids \cup {"unset", "null"}
    /\ consoleCall \in [ConsoleCalls -> ConsoleRequests]
    /\ acts \in 0 .. MaxActs /\ dropped \in Nat
    /\ nobody \in BOOLEAN /\ troubled \in BOOLEAN

AdminRow(email, role) ==
    [email |-> email, here |-> TRUE, active |-> TRUE, role |-> role, apps |-> Apps]

\* Before the first sign-in, and with a second administrator of another role.
ConsoleInit ==
    /\ \/ admins = [i \in Ids |-> Nobody] /\ spent = {} /\ roles = {Super}
       \/ /\ roles = Roles
          /\ \E i, j \in Ids, e \in AdminEmails \ {Env}, r \in Roles \ {Super} :
                /\ i # j /\ spent = {i, j}
                /\ admins = [[x \in Ids |-> Nobody] EXCEPT ![i] = AdminRow(Env, Super), ![j] = AdminRow(e, r)]
    /\ may = {Super} /\ apps = Apps /\ tokens = {}
    /\ opLog = [i \in Ids |-> 0] /\ done = [i \in Ids |-> 0]
    /\ actor = "unset" /\ acts = 0 /\ dropped = 0 /\ nobody = FALSE
    /\ consoleCall = [c \in ConsoleCalls |-> Quiet]
    /\ troubled = FALSE

Is(c, pc) == consoleCall[c].pc = pc
To(c, pc) == consoleCall' = [consoleCall EXCEPT ![c].pc = pc]
Bye(c) == consoleCall' = [consoleCall EXCEPT ![c] = Quiet]
\* The lookup of a new address is exact, the one of a sign-in is not.
Of(email) == {i \in Here : admins[i].email = email}
Like(email) ==
    {i \in Here : admins[i].email = email \/ {email, admins[i].email} \subseteq Spellings}
Act == acts < MaxActs /\ acts' = acts + 1
LogFault == Act /\ troubled' = TRUE

-----------------------------------------------------------------------------
\* login, with the credentials of the environment or with a password.
StartLogin(c, email, env) ==
    /\ Is(c, "idle")
    /\ env => email = Env
    /\ consoleCall' = [consoleCall EXCEPT ![c] = [Quiet EXCEPT !.pc = "find", !.email = email,
                                                              !.env = env]]
    /\ UNCHANGED <<staff, rights, apps, opLog, tokens, automation, done, acts, troubled>>

\* The account is disabled or the password wrong, or the sign-in goes on.
Admit(c, i) ==
    \/ admins[i].active /\ consoleCall' = [consoleCall EXCEPT ![c].by = i, ![c].pc = "stamp"]
    \/ ~(admins[i].active /\ consoleCall[c].env) /\ Bye(c)

FindAdmin(c) ==
    LET call == consoleCall[c]
    IN  /\ Is(c, "find")
        /\ IF Like(call.email) # {} THEN \E i \in Like(call.email) : Admit(c, i)
           ELSE IF call.env THEN To(c, "ensure") ELSE Bye(c)
        /\ UNCHANGED <<staff, rights, apps, opLog, tokens, automation, done, acts, troubled>>

\* ensureAdminUserFromEnvCredentials: without the role the sign-in fails; an
\* administrator made in between is as good.
EnsureAdmin(c) ==
    /\ Is(c, "ensure")
    /\ IF Super \notin roles THEN Bye(c) /\ UNCHANGED staff
       ELSE /\ To(c, "again")
            /\ IF Of(Env) # {} THEN UNCHANGED staff
               ELSE \E i \in Ids \ spent :
                        /\ spent' = spent \cup {i}
                        /\ admins' = [admins EXCEPT ![i] = [AdminRow(Env, Super) EXCEPT !.apps = {}]]
    /\ UNCHANGED <<rights, apps, opLog, tokens, automation, done, acts, troubled>>

FindAgain(c) ==
    /\ Is(c, "again")
    /\ IF Like(Env) # {} THEN \E i \in Like(Env) : Admit(c, i) ELSE Bye(c)
    /\ UNCHANGED <<staff, rights, apps, opLog, tokens, automation, done, acts, troubled>>

\* lastLoginAt, whose update fails when the row is gone; the log row of the
\* sign-in, whose errors are ignored, is left out; the token.
FinishLogin(c) ==
    /\ Is(c, "stamp")
    /\ tokens' = IF consoleCall[c].by \in Here THEN tokens \cup {consoleCall[c].by} ELSE tokens
    /\ Bye(c)
    /\ UNCHANGED <<staff, rights, apps, opLog, automation, done, acts, troubled>>

-----------------------------------------------------------------------------
\* A request with a token.
Arrive(c, i, ask) ==
    /\ Is(c, "idle")
    /\ Act
    /\ i \in tokens
    /\ "id" \in DOMAIN ask => ask.id \in spent
    /\ consoleCall' = [consoleCall EXCEPT ![c] = [Quiet EXCEPT !.pc = "validate", !.by = i,
                                                  !.ask = ask]]
    /\ UNCHANGED <<staff, rights, apps, opLog, tokens, automation, done, troubled>>

\* JwtStrategy.validate, which reads the row and its role, and
\* RbacGuard, which looks for the permission.
Allowed(i) == Active(i) /\ admins[i].role \in may

Validate(c) ==
    /\ Is(c, "validate")
    /\ IF Allowed(consoleCall[c].by) THEN To(c, "read") ELSE Bye(c)
    /\ UNCHANGED <<staff, rights, apps, opLog, tokens, automation, done, acts, troubled>>

\* A wrong Removable: as if no role were a system role.
RemovableRole(r) == r \in roles /\ \A i \in Here : admins[i].role # r

\* RoleService.remove refuses a system role and a role that
\* somebody has.
Removable(r) == r \in roles /\ r # Super /\ \A i \in Here : admins[i].role # r

\* What the handler reads first.
Found(ask) ==
    CASE ask.op = "makeAdmin" -> Of(ask.email) = {}
      [] ask.op \in {"setActive", "setRole", "setApps", "dropAdmin"} -> ask.id \in Here
      [] ask.op = "makeRole" -> ask.role \notin roles
      [] ask.op \in {"grant", "deny"} -> ask.role \in roles
      [] ask.op = "dropRole" -> Removable(ask.role)
      [] ask.op = "dropApp" -> ask.app \in apps

\* Whose lists AppRegistryService.remove reads.
Listers(app) == {i \in Here : app \in admins[i].apps}

ReadTarget(c) ==
    LET ask == consoleCall[c].ask
    IN  /\ Is(c, "read")
        /\ IF ~Found(ask) THEN Bye(c)
           ELSE consoleCall' =
                  [consoleCall EXCEPT ![c].pc = "commit",
                      ![c].seen = IF ask.op # "dropApp" THEN @
                                  ELSE [i \in Listers(ask.app) |-> admins[i].apps]]
        /\ UNCHANGED <<staff, rights, apps, opLog, tokens, automation, done, acts, troubled>>

-----------------------------------------------------------------------------
\* What the database accepts: the row is there, a key is not taken, a key that
\* is referred to exists.
Accepts(c) ==
    LET ask == consoleCall[c].ask
    IN  CASE ask.op = "makeAdmin" -> Of(ask.email) = {} /\ ask.role \in roles /\ Ids # spent
          [] ask.op \in {"setActive", "setApps"} -> ask.id \in Here
          [] ask.op = "setRole" -> ask.id \in Here /\ ask.to \in roles
          [] ask.op = "dropAdmin" -> ask.id \in Here
          [] ask.op = "makeRole" -> ask.role \notin roles
          [] ask.op \in {"grant", "deny"} -> ask.role \in roles
          [] ask.op = "dropRole" -> /\ ask.role \in roles
                                    /\ \A i \in Here : admins[i].role # ask.role
          [] ask.op = "dropApp" -> ask.app \in apps /\ DOMAIN consoleCall[c].seen \subseteq Here

\* A log row that comes between the statements of its administrator's removal
\* undoes the removal; one that comes later fails.
Collides(c) ==
    /\ consoleCall[c].ask.op = "dropAdmin"
    /\ \E d \in ConsoleCalls : Is(d, "log") /\ consoleCall[d].by = consoleCall[c].ask.id

MakeAdmin(ask) ==
    \E i \in Ids \ spent :
        /\ spent' = spent \cup {i}
        /\ admins' = [admins EXCEPT ![i] = [AdminRow(ask.email, ask.role) EXCEPT !.apps = {}]]
        /\ UNCHANGED <<rights, apps, opLog>>

SetAdmin(ask) ==
    /\ admins' = [admins EXCEPT ![ask.id] =
                    CASE ask.op = "setActive" -> [@ EXCEPT !.active = ask.to]
                      [] ask.op = "setApps" -> [@ EXCEPT !.apps = ask.to]
                      [] ask.op = "setRole" -> [@ EXCEPT !.role = ask.to]]
    /\ UNCHANGED <<spent, rights, apps, opLog>>

\* A wrong LogWithout: the condition of the deletion is forgotten.
LogEmptied(i) == [x \in Ids |-> 0]

\* The log rows of an administrator go with the administrator.
LogWithout(i) == [opLog EXCEPT ![i] = 0]

DropAdmin(ask) ==
    /\ admins' = [admins EXCEPT ![ask.id] = Nobody]
    /\ opLog' = LogWithout(ask.id)
    /\ UNCHANGED <<spent, rights, apps>>

SetRoles(ask) ==
    /\ roles' = CASE ask.op = "makeRole" -> roles \cup {ask.role}
                  [] ask.op = "dropRole" -> roles \ {ask.role}
                  [] OTHER -> roles
    /\ may' = CASE ask.op = "grant" -> may \cup {ask.role}
                [] ask.op \in {"deny", "dropRole"} -> may \ {ask.role}
                [] OTHER -> may
    /\ UNCHANGED <<staff, apps, opLog>>

\* The lists as they were read, without the application.
DropApp(c, app) ==
    LET seen == consoleCall[c].seen
    IN  /\ apps' = apps \ {app}
        /\ admins' = [i \in Ids |-> IF i \in DOMAIN seen
                                    THEN [admins[i] EXCEPT !.apps = seen[i] \ {app}]
                                    ELSE admins[i]]
        /\ UNCHANGED <<spent, rights, opLog>>

Write(c) ==
    LET ask == consoleCall[c].ask
    IN  CASE ask.op = "makeAdmin" -> MakeAdmin(ask)
          [] ask.op \in {"setActive", "setRole", "setApps"} -> SetAdmin(ask)
          [] ask.op = "dropAdmin" -> DropAdmin(ask)
          [] ask.op \in {"makeRole", "grant", "deny", "dropRole"} -> SetRoles(ask)
          [] ask.op = "dropApp" -> DropApp(c, ask.app)

\* The histories of the other requests: the rows with the address of the
\* environment that were removed under them.
Noted(d, ask) ==
    LET call == consoleCall[d]
    IN  IF Is(d, "idle") \/ Is(d, "log") THEN call
        ELSE [call EXCEPT !.met = IF ask.op = "dropAdmin" /\ admins[ask.id].email \in Spellings
                                  THEN @ \cup {ask.id} ELSE @]

Commit(c) ==
    /\ Is(c, "commit")
    /\ Accepts(c)
    /\ Write(c)
    /\ done' = [done EXCEPT ![consoleCall[c].by] = @ + 1]
    /\ consoleCall' = [d \in ConsoleCalls |->
                         IF d = c THEN [Quiet EXCEPT !.pc = "log", !.by = consoleCall[c].by]
                         ELSE Noted(d, consoleCall[c].ask)]
    /\ UNCHANGED <<tokens, automation, acts, troubled>>

Refused(c) ==
    /\ Is(c, "commit")
    /\ ~Accepts(c) \/ Collides(c)
    /\ Bye(c)
    /\ UNCHANGED <<staff, rights, apps, opLog, tokens, automation, done, acts, troubled>>

\* persistOperationLog, after the answer; its errors are ignored, as when the
\* administrator is gone.
PersistLog(c) ==
    LET i == consoleCall[c].by
    IN  /\ Is(c, "log")
        /\ \/ opLog' = (IF i \in Here THEN [opLog EXCEPT ![i] = @ + 1] ELSE opLog)
              /\ UNCHANGED <<acts, troubled>>
           \/ LogFault /\ UNCHANGED opLog
        /\ Bye(c)
        /\ UNCHANGED <<staff, rights, apps, tokens, automation, done>>

-----------------------------------------------------------------------------
\* recordAutomationEvent: the first active super_admin is looked for once,
\* and what was found, or that there is none, is kept until the restart; an
\* error keeps nothing.
RecordEvent ==
    LET candidates == {i \in Here : Active(i) /\ admins[i].role = Super}
    IN  /\ Act
        /\ \/ /\ actor = "unset" /\ candidates = {}
              /\ actor' = "null" /\ nobody' = TRUE /\ dropped' = dropped + 1
              /\ UNCHANGED troubled
           \/ /\ actor = "unset" /\ actor' \in candidates
              /\ UNCHANGED <<nobody, dropped, troubled>>
           \/ /\ actor # "unset" /\ UNCHANGED <<actor, nobody, troubled>>
              /\ dropped' = IF actor \in Here THEN dropped ELSE dropped + 1
           \/ /\ actor # "null" /\ troubled' = TRUE
              /\ UNCHANGED <<actor, nobody, dropped>>
        /\ UNCHANGED <<staff, rights, apps, opLog, tokens, consoleCall, done>>

\* Requests and log rows that are under way are lost.
ServerRestarts ==
    /\ LogFault
    /\ actor' = "unset" /\ nobody' = FALSE
    /\ consoleCall' = [c \in ConsoleCalls |-> Quiet]
    /\ UNCHANGED <<staff, rights, apps, opLog, tokens, dropped, done>>

ConsoleNext ==
    \/ \E c \in ConsoleCalls :
          \/ \E e \in AdminEmails, k \in BOOLEAN : StartLogin(c, e, k)
          \/ FindAdmin(c) \/ EnsureAdmin(c) \/ FindAgain(c) \/ FinishLogin(c)
          \/ \E i \in Ids, ask \in Changes : Arrive(c, i, ask)
          \/ Validate(c) \/ ReadTarget(c) \/ Commit(c) \/ Refused(c) \/ PersistLog(c)
    \/ RecordEvent \/ ServerRestarts

ConsoleSpec == ConsoleInit /\ [][ConsoleNext]_consoleVars

-----------------------------------------------------------------------------
(***************************************************************************)
(* Every change that an administrator made is in the log under that        *)
(* administrator, or about to be, as long as the administrator exists and  *)
(* no statement of the log fails.                                          *)
(***************************************************************************)
ChangesAreLogged ==
    ~troubled =>
        \A i \in Here : done[i] = opLog[i] + Cardinality({c \in ConsoleCalls :
                                                  Is(c, "log") /\ consoleCall[c].by = i})

(***************************************************************************)
(* Nothing is missing in the log without a cause.  A change is there, or   *)
(* about to be, unless a statement of the log failed; and an event of a    *)
(* webhook is dropped only when the cached actor is gone, or when there    *)
(* was nobody to log it under at the first event, never for an earlier     *)
(* error.                                                                  *)
(***************************************************************************)
LogIsComplete ==
    [][/\ ChangesAreLogged'
       /\ dropped' > dropped => nobody' \/ actor \in Ids \ Here]_consoleVars

(***************************************************************************)
(* The credentials of the environment let their owner in, also after all   *)
(* administrators were removed: the role they need cannot be.  Only a      *)
(* deactivated row of that address, the removal of such a row during the   *)
(* sign-in, or a restart refuses them.  The row may be one that an         *)
(* administrator made with that address in any spelling, and its role any. *)
(***************************************************************************)
EnvGetsIn ==
    [][\A c \in ConsoleCalls :
         LET call == consoleCall[c]
         IN  call.pc \in {"find", "ensure", "again", "stamp"} /\ call.env
               /\ consoleCall'[c].pc = "idle"
             => \/ call.by \in tokens' \/ call.met # {}
                \/ \E i \in Like(Env) : ~admins[i].active
                \/ acts' > acts]_consoleVars
=============================================================================
