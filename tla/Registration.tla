---------------------------- MODULE Registration ----------------------------
(***************************************************************************)
(* How an end user of one application comes to an account                  *)
(* (PublicEndUserAuthService): a code is mailed to an address, typed in,   *)
(* exchanged for a registration token and that for a user with a credit    *)
(* account; or Google vouches for the address.  A signed-in user then      *)
(* makes the API key of the image endpoints.                               *)
(*                                                                         *)
(* Every call is split where the code awaits between a reading and the     *)
(* write that relies on it, so calls interleave there.                     *)
(***************************************************************************)
EXTENDS Integers, FiniteSets, Sequences, SequencesExt

CONSTANTS
    Emails,             \* normalised addresses
    Subs,               \* Google accounts (the claim 'sub')
    NoSub,              \* the null of the column oauthId
    Requests,           \* calls that can be served at once
    CodeIds,            \* identities of rows of email_verification_code
    Keys,               \* API keys
    NoKey,              \* the null of the column apiKey
    Cooldown,           \* SEND_COOLDOWN_MS in ticks
    CodeTTL,            \* CODE_TTL_MS in ticks
    TokenTTL,           \* life of a registration token in ticks
    MaxCodeAttempts,    \* MAX_CODE_ATTEMPTS
    MaxAdmin,           \* bound on what administrators do
    MaxFaults           \* bound on mails and database calls that fail

ASSUME RegistrationAssumption ==
    /\ NoSub \notin Subs /\ NoKey \notin Keys /\ IsFiniteSet(Requests)
    /\ \A f \in [Emails -> Keys \cup {NoKey}] : \E k \in Keys : \A e \in Emails : f[e] # k
    /\ CodeTTL \in Nat /\ TokenTTL \in Nat \ {0}
    /\ Cooldown \in 0..CodeTTL
    /\ MaxCodeAttempts \in Nat \ {0}
    /\ MaxAdmin \in Nat /\ MaxFaults \in Nat

VARIABLES
    codes,              \* codes[e]: unconsumed rows of e, the newest first
    consumed,           \* rows consumed while another call still holds them
    token,              \* token[e]: what is left of a registration token
    user,               \* user[e]: the row of end_user
    bonus,              \* bonus[e]: grants of the sign-up bonus to e
    session,            \* users who were given an access token
    call,               \* call[r]: the request being served
    admin,              \* what administrators did so far
    faults              \* faults so far

vars == <<codes, consumed, token, user, bonus, session, call, admin, faults>>
codeVars == <<codes, consumed, token>>
userVars == <<user, bonus, session>>
bounds == <<admin, faults>>

\* enum UserStatus ("suspended" for deleted and banned too, which no call tells
\* apart), and "none" while there is no row.
Statuses == {"none", "active", "suspended"}

Row == [id : CodeIds, age : 0..CodeTTL, attempts : Nat, mailed : BOOLEAN]

User == [status : Statuses, password : BOOLEAN, google : Subs \cup {NoSub},
         key : Keys \cup {NoKey}]

Call == [pc : {"idle"}]
        \cup [pc : {"clear", "insert", "complete"}, email : Emails]
        \cup [pc : {"mail", "wrong", "right"}, email : Emails, id : CodeIds]
        \cup [pc : {"look", "link", "create"}, email : Emails, sub : Subs]
        \cup [pc : {"generate", "regenerate"}, email : Emails, alone : BOOLEAN]

TypeOK ==
    /\ codes \in [Emails -> Seq(Row)]
    /\ consumed \subseteq CodeIds
    /\ token \in [Emails -> 0..TokenTTL]
    /\ user \in [Emails -> User]
    /\ bonus \in [Emails -> Nat]
    /\ session \subseteq Emails
    /\ call \in [Requests -> Call]
    /\ admin \in 0..MaxAdmin /\ faults \in 0..MaxFaults

NoUser == [status |-> "none", password |-> FALSE, google |-> NoSub, key |-> NoKey]

Init ==
    /\ codes = [e \in Emails |-> <<>>]
    /\ consumed = {}
    /\ token = [e \in Emails |-> 0]
    /\ user = [e \in Emails |-> NoUser]
    /\ bonus = [e \in Emails |-> 0]
    /\ session = {}
    /\ call = [r \in Requests |-> [pc |-> "idle"]]
    /\ admin = 0 /\ faults = 0

Registered(e) == user[e].status # "none"
Idle(r) == call[r].pc = "idle"
Become(r, state) == call' = [call EXCEPT ![r] = state]
Finish(r) == Become(r, [pc |-> "idle"])

\* Rows that the calls R refer to by id.
HeldBy(R) == {call[r].id : r \in {t \in R : call[t].pc \in {"mail", "wrong", "right"}}}
LiveIds(e) == {codes[e][i].id : i \in DOMAIN codes[e]}
FreshIds == CodeIds \ ((UNION {LiveIds(e) : e \in Emails}) \cup HeldBy(Requests))

Fault == faults < MaxFaults /\ faults' = faults + 1
Intervene == admin < MaxAdmin /\ admin' = admin + 1

-----------------------------------------------------------------------------
\* The newest unconsumed row of e is younger than the cooldown.
CoolingDown(e) == codes[e] # <<>> /\ Head(codes[e]).age < Cooldown

\* sendRegisterCode: an unknown address that is not cooling down.
SendCheck(r, e) ==
    /\ Idle(r)
    /\ ~Registered(e)
    /\ ~CoolingDown(e)
    /\ Become(r, [pc |-> "clear", email |-> e])
    /\ UNCHANGED <<codeVars, userVars, bounds>>

\* deleteMany of the unconsumed rows.
SendClear(r) ==
    /\ call[r].pc = "clear"
    /\ codes' = [codes EXCEPT ![call[r].email] = <<>>]
    /\ Become(r, [call[r] EXCEPT !.pc = "insert"])
    /\ UNCHANGED <<consumed, token, userVars, bounds>>

\* create; the mail goes out after it.
SendInsert(r) ==
    LET e == call[r].email
    IN  /\ call[r].pc = "insert"
        /\ FreshIds # {}
        /\ LET id == CHOOSE i \in FreshIds : TRUE
               row == [id |-> id, age |-> 0, attempts |-> 0, mailed |-> FALSE]
           IN  /\ codes' = [codes EXCEPT ![e] = <<row>> \o @]
               /\ Become(r, [pc |-> "mail", email |-> e, id |-> id])
        /\ UNCHANGED <<consumed, token, userVars, bounds>>

\* sendRegisterVerificationEmail delivers the code; what of the row is left.
MailOk(r) ==
    /\ call[r].pc = "mail"
    /\ codes' = [codes EXCEPT ![call[r].email] =
                   [i \in DOMAIN @ |-> IF @[i].id = call[r].id
                                       THEN [@[i] EXCEPT !.mailed = TRUE] ELSE @[i]]]
    /\ Finish(r)
    /\ UNCHANGED <<consumed, token, userVars, bounds>>

\* No SMTP settings, or the mail server fails: the row stays.
MailFail(r) ==
    /\ call[r].pc = "mail"
    /\ Fault
    /\ Finish(r)
    /\ UNCHANGED <<codeVars, userVars, admin>>

\* The newest row that is neither consumed nor expired.
Valid(e) == codes[e] # <<>> /\ Head(codes[e]).age < CodeTTL

\* A limit that is looked at one guess late.
VerifyReadLate(r, e) ==
    /\ Idle(r)
    /\ Valid(e)
    /\ Head(codes[e]).attempts <= MaxCodeAttempts
    /\ \E guess \in {"wrong"} \cup (IF Head(codes[e]).mailed THEN {"right"} ELSE {}) :
          Become(r, [pc |-> guess, email |-> e, id |-> Head(codes[e]).id])
    /\ UNCHANGED <<codeVars, userVars, bounds>>

\* verifyRegisterCode up to the comparison; only the mail tells the code.
VerifyRead(r, e) ==
    /\ Idle(r)
    /\ Valid(e)
    /\ Head(codes[e]).attempts < MaxCodeAttempts
    /\ \E guess \in {"wrong"} \cup (IF Head(codes[e]).mailed THEN {"right"} ELSE {}) :
          Become(r, [pc |-> guess, email |-> e, id |-> Head(codes[e]).id])
    /\ UNCHANGED <<codeVars, userVars, bounds>>

Guessed(row) == [row EXCEPT !.attempts = @ + 1]

\* A wrong guess is counted on the row it was compared with, by id; when the
\* row is gone the update fails.
VerifyWrong(r) ==
    /\ call[r].pc = "wrong"
    /\ codes' = [codes EXCEPT ![call[r].email] =
                   [i \in DOMAIN @ |-> IF @[i].id = call[r].id
                                       THEN Guessed(@[i]) ELSE @[i]]]
    /\ Finish(r)
    /\ UNCHANGED <<consumed, token, userVars, bounds>>

\* The row is consumed, once more if another call was faster, and the token
\* signed.
VerifyRight(r) ==
    LET e == call[r].email
        id == call[r].id
        others == HeldBy(Requests \ {r})
    IN  /\ call[r].pc = "right"
        /\ id \in LiveIds(e) \cup consumed
        /\ codes' = [codes EXCEPT ![e] =
                       IF id \in LiveIds(e)
                       THEN RemoveAt(@, CHOOSE i \in DOMAIN @ : @[i].id = id) ELSE @]
        /\ consumed' = (consumed \cup {id}) \cap others
        /\ token' = [token EXCEPT ![e] = TokenTTL]
        /\ Finish(r)
        /\ UNCHANGED <<userVars, bounds>>

\* A new code deleted the row in the meantime: the update fails.
VerifyRightGone(r) ==
    /\ call[r].pc = "right"
    /\ call[r].id \notin LiveIds(call[r].email) \cup consumed
    /\ Finish(r)
    /\ UNCHANGED <<codeVars, userVars, bounds>>

\* completeRegister up to the hash of the password.
CompleteCheck(r, e) ==
    /\ Idle(r)
    /\ token[e] > 0
    /\ ~Registered(e)
    /\ Become(r, [pc |-> "complete", email |-> e])
    /\ UNCHANGED <<codeVars, userVars, bounds>>

-----------------------------------------------------------------------------
\* createAccountWithSignupBonus, in the transaction that creates the user.
CreateUser(e, row) ==
    /\ user' = [user EXCEPT ![e] = row]
    /\ bonus' = [bonus EXCEPT ![e] = @ + 1]
    /\ session' = session \cup {e}

\* A creation that updates the row when the address is taken.
CompleteUpsert(r) ==
    LET e == call[r].email
    IN  /\ call[r].pc = "complete"
        /\ CreateUser(e, [NoUser EXCEPT !.status = "active", !.password = TRUE])
        /\ Finish(r)
        /\ UNCHANGED <<codeVars, bounds>>

Complete(r) ==
    LET e == call[r].email
    IN  /\ call[r].pc = "complete"
        /\ ~Registered(e)
        /\ CreateUser(e, [NoUser EXCEPT !.status = "active", !.password = TRUE])
        /\ Finish(r)
        /\ UNCHANGED <<codeVars, bounds>>

\* The unique key (appId, email) undoes the second creation of an address.
CreateConflict(r) ==
    /\ call[r].pc \in {"complete", "create"}
    /\ Registered(call[r].email)
    /\ Finish(r)
    /\ UNCHANGED <<codeVars, userVars, bounds>>

\* A statement or a transaction of the call fails: nothing is written.
DatabaseError(r) ==
    /\ ~Idle(r) /\ call[r].pc # "mail"
    /\ Fault
    /\ Finish(r)
    /\ consumed' = consumed \cap HeldBy(Requests \ {r})
    /\ UNCHANGED <<codes, token, userVars, admin>>

\* login of an active user who has a password.
Login(e) ==
    /\ user[e].status = "active" /\ user[e].password
    /\ session' = session \cup {e}
    /\ UNCHANGED <<codeVars, user, bonus, call, bounds>>

OwnersOf(s) == {e \in Emails : user[e].google = s}

\* googleLogin of account s, whose address is e now: no user is linked with s,
GoogleRead(r, s, e) ==
    /\ Idle(r)
    /\ OwnersOf(s) = {}
    /\ Become(r, [pc |-> "look", email |-> e, sub |-> s])
    /\ UNCHANGED <<codeVars, userVars, bounds>>

\* so the user of the address is looked for, to be linked, or created.  (The
\* only other sign-in method is that of guests, whose addresses nobody has, so
\* an address is never turned away for it.)
GoogleLook(r) ==
    LET c == call[r]
    IN  /\ c.pc = "look"
        /\ Become(r, [pc |-> IF Registered(c.email) THEN "link" ELSE "create",
                      email |-> c.email, sub |-> c.sub])
        /\ UNCHANGED <<codeVars, userVars, bounds>>

\* A user linked with s signs in, whatever the status and the address.
GoogleReturn(s) ==
    /\ \E e \in OwnersOf(s) : session' = session \cup {e}
    /\ UNCHANGED <<codeVars, user, bonus, call, bounds>>

GoogleLink(r) ==
    LET e == call[r].email
    IN  /\ call[r].pc = "link"
        /\ user' = [user EXCEPT ![e].google = call[r].sub]
        /\ session' = session \cup {e}
        /\ Finish(r)
        /\ UNCHANGED <<codeVars, bonus, bounds>>

GoogleCreate(r) ==
    LET e == call[r].email
    IN  /\ call[r].pc = "create"
        /\ ~Registered(e)
        /\ CreateUser(e, [NoUser EXCEPT !.status = "active", !.google = call[r].sub])
        /\ Finish(r)
        /\ UNCHANGED <<codeVars, bounds>>

-----------------------------------------------------------------------------
\* requireEndUserSession
SignedIn(e) == e \in session /\ user[e].status = "active"

\* Generating a key without looking for one.
KeyReadBlind(r, e) ==
    /\ Idle(r)
    /\ SignedIn(e)
    /\ Become(r, [pc |-> "generate", email |-> e, alone |-> TRUE])
    /\ UNCHANGED <<codeVars, userVars, bounds>>

\* generateApiKey wants that there is no key, regenerateApiKey that there is.
KeyRead(r, e) ==
    /\ Idle(r)
    /\ SignedIn(e)
    /\ Become(r, [pc |-> IF user[e].key = NoKey THEN "generate" ELSE "regenerate",
                  email |-> e, alone |-> TRUE])
    /\ UNCHANGED <<codeVars, userVars, bounds>>

\* The new key is written and shown; 'alone' remembers in the calls that read
\* before it that they were not.
KeyWrite(r) ==
    LET e == call[r].email
        others == {s \in Requests \ {r} : /\ call[s].pc \in {"generate", "regenerate"}
                                          /\ call[s].email = e}
    IN  /\ call[r].pc \in {"generate", "regenerate"}
        /\ user' = [user EXCEPT ![e].key =
                      CHOOSE k \in Keys : \A x \in Emails : user[x].key # k]
        /\ call' = [s \in Requests |->
                      IF s = r THEN [pc |-> "idle"]
                      ELSE IF s \in others THEN [call[s] EXCEPT !.alone = FALSE]
                      ELSE call[s]]
        /\ UNCHANGED <<codeVars, bonus, session, bounds>>

\* An administrator creates a user (without a credit account) ...
AdminCreate(e) ==
    /\ Intervene
    /\ ~Registered(e)
    /\ user' = [user EXCEPT ![e].status = "active"]
    /\ UNCHANGED <<codeVars, bonus, session, call, faults>>

\* ... or changes the status of one; a deleted user keeps the row.
AdminStatus(e, status) ==
    /\ Intervene
    /\ Registered(e) /\ user[e].status # status
    /\ user' = [user EXCEPT ![e].status = status]
    /\ UNCHANGED <<codeVars, bonus, session, call, faults>>

\* Time passes for the codes and the tokens.
Tick ==
    /\ codes' = [e \in Emails |-> [i \in DOMAIN codes[e] |->
                   [codes[e][i] EXCEPT !.age = IF @ < CodeTTL THEN @ + 1 ELSE @]]]
    /\ token' = [e \in Emails |-> IF token[e] > 0 THEN token[e] - 1 ELSE 0]
    /\ UNCHANGED <<consumed, userVars, call, bounds>>

Serve(r) ==
    \/ SendClear(r) \/ SendInsert(r) \/ MailOk(r) \/ MailFail(r)
    \/ VerifyWrong(r) \/ VerifyRight(r) \/ VerifyRightGone(r)
    \/ Complete(r) \/ CreateConflict(r) \/ DatabaseError(r)
    \/ GoogleLook(r) \/ GoogleLink(r) \/ GoogleCreate(r) \/ KeyWrite(r)

Next ==
    \/ \E r \in Requests :
          \/ \E e \in Emails :
                \/ SendCheck(r, e) \/ VerifyRead(r, e) \/ CompleteCheck(r, e)
                \/ KeyRead(r, e)
                \/ \E s \in Subs : GoogleRead(r, s, e)
          \/ Serve(r)
    \/ \E e \in Emails :
          \/ Login(e) \/ AdminCreate(e)
          \/ \E status \in {"active", "suspended"} : AdminStatus(e, status)
    \/ \E s \in Subs : GoogleReturn(s)
    \/ Tick

Spec == Init /\ [][Next]_vars

-----------------------------------------------------------------------------
(***************************************************************************)
(* The bonus is granted once to whoever registers, however completions,    *)
(* Google sign-ins and administrators race for one address, and a user     *)
(* who can sign in always has the credit account it came with.             *)
(***************************************************************************)
BonusOnce ==
    \A e \in Emails :
        /\ bonus[e] <= (IF Registered(e) THEN 1 ELSE 0)
        /\ user[e].password => bonus[e] = 1

(***************************************************************************)
(* A mailed code stands a bounded number of guesses: those the limit       *)
(* allows and one for every other call that was comparing at the same      *)
(* time.                                                                   *)
(***************************************************************************)
GuessesAreBounded ==
    \A e \in Emails : \A i \in DOMAIN codes[e] :
        codes[e][i].attempts < MaxCodeAttempts + Cardinality(Requests)

(***************************************************************************)
(* A key that was shown "only once" goes on working until its owner asks   *)
(* for another one; a second key is generated over it only by a call that  *)
(* looked before the first was written.                                    *)
(***************************************************************************)
KeysDieByRegeneration ==
    [][\A e \in Emails :
          user[e].key # NoKey /\ user'[e].key # user[e].key =>
             \E r \in Requests :
                /\ call[r].pc \in {"generate", "regenerate"} /\ call[r].email = e
                /\ call[r].pc = "generate" => ~call[r].alone]_vars

=============================================================================
