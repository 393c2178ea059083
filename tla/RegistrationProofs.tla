-------------------------- MODULE RegistrationProofs --------------------------
(***************************************************************************)
(* Proofs about Registration, for any number of addresses, of Google       *)
(* accounts, of calls served at once and of faults, and any times.         *)
(***************************************************************************)
EXTENDS Registration, FiniteSetTheorems, SequenceTheorems, TLAPS

-----------------------------------------------------------------------------
UsersOK == user \in [Emails -> User] /\ bonus \in [Emails -> Nat]

\* Of the calls only what they write to users matters, and that they keep the
\* fields of their step.
CallOK(c) ==
    /\ c.pc = "clear" => c \in [pc : {"clear"}, email : Emails]
    /\ c.pc \in {"look", "link", "create"} => c.sub \in Subs
    /\ c.pc \in {"generate", "regenerate"} =>
          c \in [pc : {"generate", "regenerate"}, email : Emails, alone : BOOLEAN]

CallsOK ==
    /\ call = [r \in Requests |-> call[r]]
    /\ \A r \in Requests : CallOK(call[r])

\* Only users have keys or ask for them, and a call that goes on to make a first
\* key, and was not told of another one, finds none.
AsksRightly(c) ==
    /\ c.pc \in {"generate", "regenerate"} => Registered(c.email)
    /\ c.pc = "generate" /\ c.alone => user[c.email].key = NoKey

KeysOK ==
    /\ \A e \in Emails : user[e].key # NoKey => Registered(e)
    /\ \A r \in Requests : AsksRightly(call[r])

IInv == UsersOK /\ CallsOK /\ KeysOK /\ BonusOnce

LEMMA InitEstablishes == Init => IInv
  <1> SUFFICES ASSUME Init PROVE IInv
    OBVIOUS
  <1>1. NoUser \in User
    BY Zenon DEF NoUser, User, Statuses
  <1>2. UsersOK
    BY <1>1 DEF Init, UsersOK
  <1>3. CallsOK
    BY DEF Init, CallsOK, CallOK
  <1>4. KeysOK /\ BonusOnce
    BY DEF Init, KeysOK, AsksRightly, BonusOnce, Registered, NoUser
  <1> QED BY <1>2, <1>3, <1>4 DEF IInv

-----------------------------------------------------------------------------
\* A step that moves one call and writes no user.
LEMMA BecomeKeeps ==
  ASSUME IInv, UNCHANGED <<user, bonus>>, NEW r \in Requests, NEW c, Become(r, c),
         CallOK(c), AsksRightly(c)
  PROVE  IInv'
  <1>1. /\ call' = [s \in Requests |-> call'[s]]
        /\ call'[r] = c
        /\ \A s \in Requests : s # r => call'[s] = call[s]
    BY DEF Become, IInv, CallsOK
  <1>2. KeysOK'
    <2>1. ASSUME NEW s \in Requests PROVE AsksRightly(call'[s])
      BY <1>1 DEF IInv, KeysOK
    <2>2. \A s \in Requests : AsksRightly(call[s])'
      BY <2>1 DEF AsksRightly, Registered
    <2> QED BY <2>2 DEF IInv, KeysOK, Registered
  <1>3. CallsOK'
    <2>1. ASSUME NEW s \in Requests PROVE CallOK(call'[s])
      BY <1>1 DEF IInv, CallsOK
    <2> QED BY <1>1, <2>1 DEF CallsOK, CallOK
  <1> QED BY <1>2, <1>3 DEF IInv, UsersOK, BonusOnce, Registered

\* The steps of a call that only read users, or give up.
LEMMA ReadingKeeps ==
  ASSUME IInv, NEW r \in Requests,
         \/ \E e \in Emails : \/ SendCheck(r, e) \/ VerifyRead(r, e) \/ CompleteCheck(r, e)
                              \/ KeyRead(r, e)
                              \/ \E s \in Subs : GoogleRead(r, s, e)
         \/ SendClear(r) \/ SendInsert(r) \/ MailOk(r) \/ MailFail(r)
         \/ VerifyWrong(r) \/ VerifyRight(r) \/ VerifyRightGone(r)
         \/ CreateConflict(r) \/ DatabaseError(r) \/ GoogleLook(r)
  PROVE  IInv'
  <1>1. CASE \/ MailOk(r) \/ MailFail(r) \/ VerifyWrong(r) \/ VerifyRight(r)
             \/ VerifyRightGone(r) \/ CreateConflict(r) \/ DatabaseError(r)
    <2>1. Become(r, [pc |-> "idle"]) /\ UNCHANGED <<user, bonus>>
      BY <1>1 DEF MailOk, MailFail, VerifyWrong, VerifyRight, VerifyRightGone,
                  CreateConflict, DatabaseError, Finish, userVars
    <2>2. CallOK([pc |-> "idle"])
      BY DEF CallOK
    <2> QED BY <2>1, <2>2, BecomeKeeps DEF AsksRightly
  <1>2. CASE SendClear(r)
    <2> DEFINE next == [call[r] EXCEPT !.pc = "insert"]
    <2>1. Become(r, next) /\ UNCHANGED <<user, bonus>>
      BY <1>2 DEF SendClear, userVars
    <2>2. next.pc = "insert"
      BY <1>2 DEF SendClear, IInv, CallsOK, CallOK
    <2> HIDE DEF next
    <2>3. CallOK(next)
      BY <2>2 DEF CallOK
    <2> QED BY <2>1, <2>2, <2>3, BecomeKeeps DEF AsksRightly
  <1>3. CASE SendInsert(r)
    <2>1. PICK i : /\ Become(r, [pc |-> "mail", email |-> call[r].email, id |-> i])
                   /\ UNCHANGED <<user, bonus>>
      BY <1>3 DEF SendInsert, userVars
    <2>2. CallOK([pc |-> "mail", email |-> call[r].email, id |-> i])
      BY DEF CallOK
    <2> QED BY <2>1, <2>2, BecomeKeeps DEF AsksRightly
  <1>4. ASSUME NEW e \in Emails, SendCheck(r, e) \/ CompleteCheck(r, e)
        PROVE  IInv'
    <2>1. PICK pc \in {"clear", "complete"} : /\ Become(r, [pc |-> pc, email |-> e])
                                              /\ UNCHANGED <<user, bonus>>
      BY <1>4 DEF SendCheck, CompleteCheck, userVars
    <2>2. CallOK([pc |-> pc, email |-> e])
      BY DEF CallOK
    <2> QED BY <2>1, <2>2, BecomeKeeps DEF AsksRightly
  <1>5. ASSUME NEW e \in Emails, VerifyRead(r, e)
        PROVE  IInv'
    <2>1. PICK guess \in {"wrong", "right"} :
             /\ Become(r, [pc |-> guess, email |-> e, id |-> Head(codes[e]).id])
             /\ UNCHANGED <<user, bonus>>
      BY <1>5 DEF VerifyRead, userVars
    <2>2. CallOK([pc |-> guess, email |-> e, id |-> Head(codes[e]).id])
      BY DEF CallOK
    <2> QED BY <2>1, <2>2, BecomeKeeps DEF AsksRightly
  <1>6. ASSUME NEW e \in Emails, KeyRead(r, e)
        PROVE  IInv'
    <2>1. PICK pc \in {"generate", "regenerate"} :
             /\ Become(r, [pc |-> pc, email |-> e, alone |-> TRUE])
             /\ pc = "generate" => user[e].key = NoKey
             /\ Registered(e)
             /\ UNCHANGED <<user, bonus>>
      BY <1>6 DEF KeyRead, SignedIn, Registered, userVars
    <2>2. CallOK([pc |-> pc, email |-> e, alone |-> TRUE])
      BY DEF CallOK
    <2> QED BY <2>1, <2>2, BecomeKeeps DEF AsksRightly
  <1>7. ASSUME NEW e \in Emails, NEW s \in Subs, GoogleRead(r, s, e)
        PROVE  IInv'
    <2>1. /\ Become(r, [pc |-> "look", email |-> e, sub |-> s])
          /\ UNCHANGED <<user, bonus>>
      BY <1>7 DEF GoogleRead, userVars
    <2>2. CallOK([pc |-> "look", email |-> e, sub |-> s])
      BY DEF CallOK
    <2> QED BY <2>1, <2>2, BecomeKeeps DEF AsksRightly
  <1>8. CASE GoogleLook(r)
    <2>1. PICK pc \in {"link", "create"} :
             /\ Become(r, [pc |-> pc, email |-> call[r].email, sub |-> call[r].sub])
             /\ UNCHANGED <<user, bonus>>
      BY <1>8 DEF GoogleLook, userVars
    <2>2. call[r].sub \in Subs
      BY <1>8 DEF GoogleLook, IInv, CallsOK, CallOK
    <2>3. CallOK([pc |-> pc, email |-> call[r].email, sub |-> call[r].sub])
      BY <2>2 DEF CallOK
    <2> QED BY <2>1, <2>3, BecomeKeeps DEF AsksRightly
  <1> QED BY <1>1, <1>2, <1>3, <1>4, <1>5, <1>6, <1>7, <1>8

-----------------------------------------------------------------------------
\* A call that ends leaves the others as they were.
LEMMA FinishKeepsCalls ==
  ASSUME IInv, NEW r \in Requests, Finish(r)
  PROVE  /\ CallsOK'
         /\ call'[r].pc = "idle"
         /\ \A s \in Requests : s # r => call'[s] = call[s]
  <1>1. /\ call' = [s \in Requests |-> call'[s]]
        /\ call'[r] = [pc |-> "idle"]
        /\ \A s \in Requests : s # r => call'[s] = call[s]
    BY DEF Finish, Become, IInv, CallsOK
  <1>2. ASSUME NEW s \in Requests PROVE CallOK(call'[s])
    <2>1. CASE s = r
      BY <1>1, <2>1 DEF CallOK
    <2>2. CASE s # r
      BY <1>1, <2>2 DEF IInv, CallsOK
    <2> QED BY <2>1, <2>2
  <1> QED BY <1>1, <1>2 DEF CallsOK, CallOK

\* Whoever writes users, keeps them users and their keys, and at most ends a
\* call, respects those that ask for keys.
LEMMA RowsKeepKeys ==
  ASSUME IInv,
         \A x \in Emails : user'[x].key = user[x].key,
         \A x \in Emails : user[x].status # "none" => user'[x].status # "none",
         \A s \in Requests : call'[s] = call[s] \/ call'[s].pc = "idle"
  PROVE  KeysOK'
  <1>1. ASSUME NEW s \in Requests PROVE AsksRightly(call[s])'
    <2>1. CASE call'[s].pc = "idle"
      BY <2>1 DEF AsksRightly
    <2>2. CASE call'[s] = call[s]
      <3>1. call[s].pc \in {"generate", "regenerate"} => call[s].email \in Emails
        BY DEF IInv, CallsOK, CallOK
      <3> QED BY <2>2, <3>1 DEF IInv, KeysOK, AsksRightly, Registered
    <2> QED BY <2>1, <2>2
  <1> QED BY <1>1 DEF IInv, KeysOK, Registered

LEMMA RowsKeepBonus ==
  ASSUME IInv, bonus' = bonus,
         \A x \in Emails : user'[x].password = user[x].password,
         \A x \in Emails : user[x].status # "none" => user'[x].status # "none"
  PROVE  BonusOnce'
  <1> SUFFICES ASSUME NEW x \in Emails
               PROVE  /\ bonus'[x] <= (IF user'[x].status # "none" THEN 1 ELSE 0)
                      /\ user'[x].password => bonus'[x] = 1
    BY DEF BonusOnce, Registered
  <1>1. bonus[x] <= (IF user[x].status # "none" THEN 1 ELSE 0) /\ bonus[x] \in Nat
    BY DEF IInv, UsersOK, BonusOnce, Registered
  <1>2. bonus'[x] <= (IF user'[x].status # "none" THEN 1 ELSE 0)
    BY <1>1
  <1>3. user'[x].password => bonus'[x] = 1
    BY Zenon DEF IInv, BonusOnce
  <1> QED BY <1>2, <1>3

\* The creation of a user finds no row, so no bonus and no key.
LEMMA CreatingKeeps ==
  ASSUME IInv, NEW r \in Requests, Complete(r) \/ GoogleCreate(r)
  PROVE  IInv'
  <1> PICK e : e = call[r].email
    OBVIOUS
  <1>1. PICK row \in User : /\ CreateUser(e, row)
                            /\ row.status = "active" /\ row.key = NoKey
                            /\ ~Registered(e)
                            /\ Finish(r)
    <2>1. NoUser \in User
      BY Zenon DEF NoUser, User, Statuses
    <2>2. CASE Complete(r)
      <3>1. /\ [NoUser EXCEPT !.status = "active", !.password = TRUE] \in User
            /\ [NoUser EXCEPT !.status = "active", !.password = TRUE].status = "active"
            /\ [NoUser EXCEPT !.status = "active", !.password = TRUE].key = NoKey
        BY <2>1 DEF User, NoUser, Statuses
      <3> QED BY <2>2, <3>1 DEF Complete
    <2>3. CASE GoogleCreate(r)
      <3>1. call[r].sub \in Subs
        BY <2>3 DEF GoogleCreate, IInv, CallsOK, CallOK
      <3>2. /\ [NoUser EXCEPT !.status = "active", !.google = call[r].sub] \in User
            /\ [NoUser EXCEPT !.status = "active", !.google = call[r].sub].status = "active"
            /\ [NoUser EXCEPT !.status = "active", !.google = call[r].sub].key = NoKey
        BY <2>1, <3>1 DEF User, NoUser, Statuses
      <3> QED BY <2>3, <3>2 DEF GoogleCreate
    <2> QED BY <2>2, <2>3
  <1>2. UsersOK'
    <2>1. user' = [user EXCEPT ![e] = row] /\ bonus' = [bonus EXCEPT ![e] = @ + 1]
      BY <1>1 DEF CreateUser
    <2>2. user \in [Emails -> User] /\ bonus \in [Emails -> Nat]
      BY DEF IInv, UsersOK
    <2>3. user' \in [Emails -> User]
      BY <2>1, <2>2
    <2>4. ASSUME NEW x \in Emails PROVE bonus'[x] \in Nat
      BY <2>1, <2>2
    <2>5. bonus' = [x \in Emails |-> bonus'[x]]
      BY <2>1, <2>2
    <2>6. bonus' \in [Emails -> Nat]
      BY <2>4, <2>5
    <2> QED BY <2>3, <2>6 DEF UsersOK
  <1>3. /\ \A x \in Emails : x # e => user'[x] = user[x] /\ bonus'[x] = bonus[x]
        /\ e \in Emails => user'[e] = row /\ bonus'[e] = bonus[e] + 1
    BY <1>1 DEF IInv, UsersOK, CreateUser
  <1>4. BonusOnce'
    <2> SUFFICES ASSUME NEW x \in Emails
                 PROVE  /\ bonus'[x] <= (IF user'[x].status # "none" THEN 1 ELSE 0)
                        /\ user'[x].password => bonus'[x] = 1
      BY DEF BonusOnce, Registered
    <2>1. CASE x # e
      BY <1>3, <2>1 DEF IInv, BonusOnce, Registered
    <2>2. CASE x = e
      <3>1. bonus[x] = 0
        BY <1>1, <2>2 DEF IInv, UsersOK, BonusOnce
      <3> QED BY <1>1, <1>3, <2>2, <3>1
    <2> QED BY <2>1, <2>2
  <1>5. KeysOK'
    <2>1. /\ \A x \in Emails : user'[x].key = user[x].key
          /\ \A x \in Emails : user[x].status # "none" => user'[x].status # "none"
      BY <1>1, <1>3 DEF IInv, KeysOK, Registered
    <2>2. \A s \in Requests : call'[s] = call[s] \/ call'[s].pc = "idle"
      BY <1>1, FinishKeepsCalls
    <2> QED BY <2>1, <2>2, RowsKeepKeys
  <1> QED BY <1>1, <1>2, <1>4, <1>5, FinishKeepsCalls DEF IInv

\* A Google account is written into a row that goes on to exist as it does.
LEMMA LinkKeeps ==
  ASSUME IInv, NEW r \in Requests, GoogleLink(r)
  PROVE  IInv'
  <1>1. /\ call[r].sub \in Subs
        /\ Finish(r)
        /\ bonus' = bonus
    BY DEF GoogleLink, IInv, CallsOK, CallOK
  <1>2. /\ user' \in [Emails -> User]
        /\ \A x \in Emails : /\ user'[x].status = user[x].status
                             /\ user'[x].password = user[x].password
                             /\ user'[x].key = user[x].key
    BY <1>1 DEF GoogleLink, IInv, UsersOK, User
  <1>3. KeysOK'
    <2>1. \A s \in Requests : call'[s] = call[s] \/ call'[s].pc = "idle"
      BY <1>1, FinishKeepsCalls
    <2> QED BY <1>2, <2>1, RowsKeepKeys
  <1> QED BY <1>1, <1>2, <1>3, FinishKeepsCalls DEF IInv, UsersOK, BonusOnce, Registered

\* A key is written: the other calls that read before learn of it.
LEMMA FreshKey ==
  ASSUME IInv
  PROVE  /\ (CHOOSE k \in Keys : \A x \in Emails : user[x].key # k) \in Keys
         /\ \A x \in Emails :
               user[x].key # (CHOOSE k \in Keys : \A y \in Emails : user[y].key # k)
  <1> DEFINE f == [x \in Emails |-> user[x].key]
  <1>1. f \in [Emails -> Keys \cup {NoKey}]
    BY DEF IInv, UsersOK, User
  <1>2. \E k \in Keys : \A x \in Emails : f[x] # k
    <2> HIDE DEF f
    <2> QED BY <1>1, RegistrationAssumption
  <1>3. \E k \in Keys : \A x \in Emails : user[x].key # k
    BY <1>2
  <1> QED BY <1>3, Zenon

LEMMA KeyWriteKeeps ==
  ASSUME IInv, NEW r \in Requests, KeyWrite(r)
  PROVE  IInv'
  <1>1. PICK e \in Emails : e = call[r].email
    BY DEF KeyWrite, IInv, CallsOK, CallOK
  <1>2. PICK k \in Keys : user' = [user EXCEPT ![e].key = k]
    BY <1>1, FreshKey DEF KeyWrite
  <1>3. bonus' = bonus
    BY DEF KeyWrite
  <1>4. /\ user' \in [Emails -> User]
        /\ \A x \in Emails : /\ user'[x].status = user[x].status
                             /\ user'[x].password = user[x].password
                             /\ x # e => user'[x] = user[x]
    BY <1>2 DEF IInv, UsersOK, User
  <1>11. \A x \in Emails : x # e => user'[x] = user[x]
    BY <1>4, Zenon
  <1>12. \A x \in Emails : user[x].status # "none" => user'[x].status # "none"
    BY <1>4, Zenon
  <1>13. \A x \in Emails : user'[x].password = user[x].password
    BY <1>4, Zenon
  <1>5. Registered(e) /\ user'[e].status # "none"
    BY <1>1, <1>4 DEF KeyWrite, IInv, KeysOK, AsksRightly, Registered
  <1>6. /\ call' = [s \in Requests |-> call'[s]]
        /\ call'[r].pc = "idle"
        /\ \A s \in Requests \ {r} :
              IF call[s].pc \in {"generate", "regenerate"} /\ call[s].email = e
              THEN call'[s] = [call[s] EXCEPT !.alone = FALSE]
              ELSE call'[s] = call[s]
    BY <1>1, Zenon DEF KeyWrite
  <1>7. ASSUME NEW s \in Requests
        PROVE  CallOK(call'[s]) /\ AsksRightly(call[s])'
    <2>1. CASE s = r
      BY <1>6, <2>1 DEF CallOK, AsksRightly
    <2>2. CASE s # r /\ call'[s] = call[s]
      <3>1. call[s].pc \in {"generate", "regenerate"} /\ s # r => call[s].email \in Emails
        BY DEF IInv, CallsOK, CallOK
      <3>2. call[s].pc = "generate" /\ call[s].alone => call[s].email # e
        <4>1. ASSUME call[s].pc = "generate", call[s].alone, call[s].email = e
              PROVE  FALSE
          <5>1. call'[s] = [call[s] EXCEPT !.alone = FALSE]
            BY <1>6, <2>2, <4>1
          <5>2. call[s] \in [pc : {"generate", "regenerate"}, email : Emails, alone : BOOLEAN]
            BY <4>1 DEF IInv, CallsOK, CallOK
          <5>3. ~[call[s] EXCEPT !.alone = FALSE].alone
            BY <5>2
          <5> QED BY <2>2, <4>1, <5>1, <5>3
        <4> QED BY <4>1
      <3>3. CallOK(call'[s])
        BY <2>2 DEF IInv, CallsOK
      <3>4. AsksRightly(call[s]) /\ s # r
        BY <2>2 DEF IInv, KeysOK
      <3>5. ASSUME call'[s].pc \in {"generate", "regenerate"}
            PROVE  user'[call'[s].email].status # "none"
        BY <1>12, <2>2, <3>1, <3>4, <3>5 DEF AsksRightly, Registered
      <3>6. ASSUME call'[s].pc = "generate", call'[s].alone
            PROVE  user'[call'[s].email].key = NoKey
        <4>1. call[s].pc = "generate" /\ call[s].alone /\ call'[s].email = call[s].email
          BY <2>2, <3>6
        <4>2. user'[call[s].email] = user[call[s].email]
          BY <1>11, <3>1, <3>2, <3>4, <4>1
        <4> QED BY <3>4, <4>1, <4>2 DEF AsksRightly
      <3>7. AsksRightly(call[s])'
        BY <3>5, <3>6, Zenon DEF AsksRightly, Registered
      <3> QED BY <3>3, <3>7
    <2>3. CASE s # r /\ call'[s] # call[s]
      <3>1. /\ call[s].pc \in {"generate", "regenerate"} /\ call[s].email = e
            /\ call'[s] = [call[s] EXCEPT !.alone = FALSE]
        BY <1>6, <2>3
      <3>2. call[s] \in [pc : {"generate", "regenerate"}, email : Emails, alone : BOOLEAN]
        BY <3>1 DEF IInv, CallsOK, CallOK
      <3>3. /\ call'[s] \in [pc : {"generate", "regenerate"}, email : Emails, alone : BOOLEAN]
            /\ ~call'[s].alone /\ call'[s].email = e
        BY <3>1, <3>2
      <3>4. CallOK(call'[s])
        BY <3>3 DEF CallOK
      <3>5. AsksRightly(call[s])'
        BY <1>5, <3>3, Zenon DEF AsksRightly, Registered
      <3> QED BY <3>4, <3>5
    <2> QED BY <2>1, <2>2, <2>3
  <1>8. CallsOK'
    BY <1>6, <1>7 DEF CallsOK, CallOK
  <1>9. KeysOK'
    <2>1. ASSUME NEW x \in Emails, user'[x].key # NoKey PROVE user'[x].status # "none"
      <3>1. CASE x = e
        BY <1>5, <3>1
      <3>2. CASE x # e
        BY <1>11, <2>1, <3>2 DEF IInv, KeysOK, Registered
      <3> QED BY <3>1, <3>2
    <2> QED BY <1>7, <2>1 DEF KeysOK, Registered
  <1>10. BonusOnce'
    BY <1>3, <1>12, <1>13, RowsKeepBonus
  <1> QED BY <1>3, <1>4, <1>8, <1>9, <1>10 DEF IInv, UsersOK

\* The steps that belong to no call.
LEMMA OthersKeep ==
  ASSUME IInv,
         \/ \E e \in Emails : \/ Login(e) \/ AdminCreate(e)
                              \/ \E status \in {"active", "suspended"} : AdminStatus(e, status)
         \/ \E s \in Subs : GoogleReturn(s)
         \/ Tick
  PROVE  IInv'
  <1>1. call' = call /\ bonus' = bonus
    BY DEF Login, AdminCreate, AdminStatus, GoogleReturn, Tick, userVars
  <1>2. \/ user' = user
        \/ \E e \in Emails, status \in {"active", "suspended"} :
              user' = [user EXCEPT ![e].status = status]
    BY DEF Login, AdminCreate, AdminStatus, GoogleReturn, Tick, userVars
  <1>3. user \in [Emails -> User]
    BY DEF IInv, UsersOK
  <1>4. /\ user' \in [Emails -> User]
        /\ \A x \in Emails : /\ user'[x].key = user[x].key
                             /\ user'[x].password = user[x].password
                             /\ user[x].status # "none" => user'[x].status # "none"
    <2>1. CASE user' = user
      BY <1>3, <2>1
    <2>2. ASSUME NEW e \in Emails, NEW status \in {"active", "suspended"},
                 user' = [user EXCEPT ![e].status = status]
          PROVE  /\ user' \in [Emails -> User]
                 /\ \A x \in Emails : /\ user'[x].key = user[x].key
                                      /\ user'[x].password = user[x].password
                                      /\ user'[x].status # "none" \/ user'[x] = user[x]
      <3>1. /\ user[e] \in User
            /\ [user[e] EXCEPT !.status = status] \in User
            /\ [user[e] EXCEPT !.status = status].status # "none"
            /\ [user[e] EXCEPT !.status = status].key = user[e].key
            /\ [user[e] EXCEPT !.status = status].password = user[e].password
        BY <1>3 DEF User, Statuses
      <3>2. user' = [user EXCEPT ![e] = [user[e] EXCEPT !.status = status]]
        BY <2>2
      <3>3. PICK row \in User : /\ row = [user[e] EXCEPT !.status = status]
                                /\ row.status # "none" /\ row.key = user[e].key
                                /\ row.password = user[e].password
        BY <3>1
      <3>4. \A x \in Emails : user'[x] = IF x = e THEN row ELSE user[x]
        BY <1>3, <3>2, <3>3
      <3>5. user' \in [Emails -> User]
        BY <1>3, <3>2, <3>3
      <3> QED BY <3>3, <3>4, <3>5
    <2> QED BY <1>2, <2>1, <2>2
  <1>8. \A x \in Emails : user[x].status # "none" => user'[x].status # "none"
    BY <1>4, Zenon
  <1>5. KeysOK'
    <2>1. \A s \in Requests : call'[s] = call[s] \/ call'[s].pc = "idle"
      BY <1>1
    <2>2. \A x \in Emails : user'[x].key = user[x].key
      BY <1>4, Zenon
    <2> QED BY <1>8, <2>1, <2>2, RowsKeepKeys
  <1>6. BonusOnce'
    <2>1. \A x \in Emails : user'[x].password = user[x].password
      BY <1>4, Zenon
    <2> QED BY <1>1, <1>8, <2>1, RowsKeepBonus
  <1>7. CallsOK'
    BY <1>1 DEF IInv, CallsOK, CallOK
  <1> QED BY <1>1, <1>4, <1>5, <1>6, <1>7 DEF IInv, UsersOK

LEMMA NextKeeps == IInv /\ [Next]_vars => IInv'
  <1> SUFFICES ASSUME IInv, [Next]_vars PROVE IInv'
    OBVIOUS
  <1>1. CASE UNCHANGED vars
    BY <1>1 DEF vars, IInv, UsersOK, CallsOK, CallOK, KeysOK, AsksRightly, BonusOnce,
                Registered
  <1>2. ASSUME NEW r \in Requests,
               \/ \E e \in Emails :
                     \/ SendCheck(r, e) \/ VerifyRead(r, e) \/ CompleteCheck(r, e)
                     \/ KeyRead(r, e)
                     \/ \E s \in Subs : GoogleRead(r, s, e)
               \/ Serve(r)
        PROVE  IInv'
    BY <1>2, ReadingKeeps, CreatingKeeps, LinkKeeps, KeyWriteKeeps DEF Serve
  <1>3. CASE \/ \E e \in Emails : \/ Login(e) \/ AdminCreate(e)
                                  \/ \E status \in {"active", "suspended"} :
                                       AdminStatus(e, status)
             \/ \E s \in Subs : GoogleReturn(s)
             \/ Tick
    BY <1>3, OthersKeep
  <1> QED BY <1>1, <1>2, <1>3 DEF Next

LEMMA InvariantHolds == Spec => []IInv
  <1> QED BY InitEstablishes, NextKeeps, PTL DEF Spec

-----------------------------------------------------------------------------
(***************************************************************************)
(* Whoever registers gets the bonus once, and whoever can sign in with a   *)
(* password has it (createAccountWithSignupBonus), for any number of calls *)
(* that race for an address.                                               *)
(***************************************************************************)
THEOREM BonusIsOnce == Spec => []BonusOnce
  <1>1. IInv => BonusOnce
    BY DEF IInv
  <1> QED BY <1>1, InvariantHolds, PTL

(***************************************************************************)
(* A key that exists is replaced only by a call that was asked to replace  *)
(* it, or that looked before it was written (generateApiKey,               *)
(* regenerateApiKey), for any number of users, keys and calls.             *)
(***************************************************************************)
THEOREM KeysDie == Spec => KeysDieByRegeneration
  <1> DEFINE Excused(e) == \E r \in Requests :
                /\ call[r].pc \in {"generate", "regenerate"} /\ call[r].email = e
                /\ call[r].pc = "generate" => ~call[r].alone
  <1>1. ASSUME IInv, [Next]_vars, NEW e \in Emails,
               user[e].key # NoKey, user'[e].key # user[e].key
        PROVE  Excused(e)
    <2>1. user \in [Emails -> User] /\ Registered(e)
      BY <1>1 DEF IInv, UsersOK, KeysOK
    <2>2. user' # user
      BY <1>1
    <2>3. ASSUME NEW r \in Requests, KeyWrite(r)
          PROVE  Excused(e)
      <3>1. call[r].email = e /\ call[r].pc \in {"generate", "regenerate"}
        BY <1>1, <2>1, <2>3 DEF KeyWrite, User
      <3>2. call[r].pc = "generate" => ~call[r].alone
        BY <1>1, <3>1 DEF IInv, KeysOK, AsksRightly
      <3> QED BY <3>1, <3>2
    <2>4. ASSUME NEW r \in Requests, Complete(r) \/ GoogleCreate(r)
          PROVE  FALSE
      <3>1. ~Registered(call[r].email)
        BY <2>4 DEF Complete, GoogleCreate
      <3>2. call[r].email # e
        BY <2>1, <3>1
      <3>3. PICK row : user' = [user EXCEPT ![call[r].email] = row]
        BY <2>4 DEF Complete, GoogleCreate, CreateUser
      <3>4. user'[e] = user[e]
        BY <2>1, <3>2, <3>3
      <3> QED BY <1>1, <3>4
    <2>5. ASSUME NEW r \in Requests, GoogleLink(r)
          PROVE  FALSE
      <3>1. user' = [user EXCEPT ![call[r].email].google = call[r].sub]
        BY <2>5 DEF GoogleLink
      <3>2. user'[e].key = user[e].key
        BY <2>1, <3>1 DEF User
      <3> QED BY <1>1, <3>2
    <2>6. ASSUME NEW x \in Emails, NEW status, user' = [user EXCEPT ![x].status = status]
          PROVE  FALSE
      <3>1. user'[e].key = user[e].key
        BY <2>1, <2>6 DEF User
      <3> QED BY <1>1, <3>1
    <2>7. \/ user' = user
          \/ \E r \in Requests : \/ KeyWrite(r) \/ GoogleLink(r)
                                 \/ Complete(r) \/ GoogleCreate(r)
          \/ \E x \in Emails, status \in {"active", "suspended"} :
                user' = [user EXCEPT ![x].status = status]
      <3>1. CASE UNCHANGED vars
        BY <3>1 DEF vars
      <3>2. CASE Next
        BY <3>2 DEF Next, Serve, SendCheck, VerifyRead, CompleteCheck, KeyRead, GoogleRead,
              GoogleLook, SendClear, SendInsert, MailOk, MailFail, VerifyWrong, VerifyRight,
              VerifyRightGone, CreateConflict, DatabaseError, Login, AdminCreate,
              AdminStatus, GoogleReturn, Tick, userVars
      <3> QED BY <1>1, <3>1, <3>2
    <2> QED BY <2>2, <2>3, <2>4, <2>5, <2>6, <2>7
  <1>2. IInv /\ [Next]_vars =>
          [\A e \in Emails : user[e].key # NoKey /\ user'[e].key # user[e].key => Excused(e)]_vars
    BY <1>1
  <1> QED BY <1>2, InvariantHolds, PTL DEF Spec, KeysDieByRegeneration

-----------------------------------------------------------------------------
\* Sequences of rows.
LEMMA RowsOf ==
  ASSUME NEW S, NEW s \in Seq(S)
  PROVE  /\ Len(s) \in Nat /\ DOMAIN s = 1..Len(s) /\ \A i \in DOMAIN s : s[i] \in S
         /\ s # <<>> => Head(s) = s[1] /\ 1 \in DOMAIN s
  OBVIOUS

LEMMA SameLength ==
  ASSUME NEW S, NEW s \in Seq(S), NEW t, DOMAIN t = DOMAIN s,
         t = [i \in DOMAIN t |-> t[i]], \A i \in DOMAIN t : t[i] \in S
  PROVE  t \in Seq(S)
  <1>1. Len(s) \in Nat /\ DOMAIN s = 1..Len(s)
    BY RowsOf
  <1>2. t \in [1..Len(s) -> S]
    BY <1>1
  <1> QED BY <1>1, <1>2

LEMMA RemovingOne ==
  ASSUME NEW S, NEW s \in Seq(S), NEW i \in DOMAIN s
  PROVE  /\ RemoveAt(s, i) \in Seq(S)
         /\ \A j \in DOMAIN RemoveAt(s, i) : \E k \in DOMAIN s : RemoveAt(s, i)[j] = s[k]
  <1>1. Len(s) \in Nat /\ i \in 1..Len(s) /\ \A k \in 1..Len(s) : s[k] \in S
    BY RowsOf
  <1>2. PICK a : a = SubSeq(s, 1, i - 1)
    OBVIOUS
  <1>3. PICK b : b = SubSeq(s, i + 1, Len(s))
    OBVIOUS
  <1>4. a \in Seq(S) /\ Len(a) = i - 1 /\ \A j \in 1..i - 1 : a[j] = s[j]
    BY <1>1, <1>2
  <1>5. b \in Seq(S) /\ Len(b) = Len(s) - i /\ \A j \in 1..Len(s) - i : b[j] = s[i + j]
    BY <1>1, <1>3
  <1>6. PICK t : t = a \o b
    OBVIOUS
  <1>7. /\ t \in Seq(S) /\ Len(t) = Len(a) + Len(b)
        /\ \A j \in 1..Len(a) + Len(b) : t[j] = IF j <= Len(a) THEN a[j] ELSE b[j - Len(a)]
    BY <1>4, <1>5, <1>6, ConcatProperties
  <1>8. DOMAIN t = 1..Len(s) - 1 /\ DOMAIN s = 1..Len(s)
    BY <1>1, <1>4, <1>5, <1>7, RowsOf
  <1>9. ASSUME NEW j \in 1..Len(s) - 1 PROVE \E k \in 1..Len(s) : t[j] = s[k]
    <2>1. j \in 1..Len(a) + Len(b) /\ j \in Int /\ i \in Int /\ Len(s) \in Int
      BY <1>1, <1>4, <1>5
    <2>2. t[j] = IF j <= Len(a) THEN a[j] ELSE b[j - Len(a)]
      BY <1>7, <2>1
    <2>3. CASE j <= i - 1
      <3>1. t[j] = a[j] /\ j \in 1..i - 1 /\ j \in 1..Len(s)
        BY <1>1, <1>4, <2>1, <2>2, <2>3
      <3>2. t[j] = s[j]
        BY <1>4, <3>1
      <3> QED BY <3>1, <3>2
    <2>4. CASE j > i - 1
      <3>1. t[j] = b[j - (i - 1)]
        BY <1>4, <2>1, <2>2, <2>4
      <3>2. PICK k : k = j - (i - 1)
        OBVIOUS
      <3>3. k \in 1..Len(s) - i /\ i + k = j + 1 /\ j + 1 \in 1..Len(s)
        BY <1>1, <2>1, <2>4, <3>2
      <3>4. b[k] = s[i + k]
        BY <1>5, <3>3
      <3>5. t[j] = s[j + 1]
        BY <3>1, <3>2, <3>3, <3>4
      <3> QED BY <3>3, <3>5
    <2> QED BY <2>1, <2>3, <2>4
  <1> QED BY <1>2, <1>3, <1>6, <1>7, <1>8, <1>9 DEF RemoveAt

-----------------------------------------------------------------------------
\* What makes GuessesAreBounded inductive: the guesses a code stood and those
\* that are being compared with it.
GuessingIn(calls, e, id) ==
    {r \in Requests : calls[r].pc = "wrong" /\ calls[r].email = e /\ calls[r].id = id}

Guessing(e, id) == GuessingIn(call, e, id)

GuessOK ==
    \A e \in Emails : \A i \in DOMAIN codes[e] :
        codes[e][i].attempts + Cardinality(Guessing(e, codes[e][i].id))
            < MaxCodeAttempts + Cardinality(Requests)

\* Rows of one id, if there were several, would stand the same guesses.
RowsAgree ==
    \A e \in Emails : \A i, j \in DOMAIN codes[e] :
        codes[e][i].id = codes[e][j].id => codes[e][i].attempts = codes[e][j].attempts

GuessIInv == IInv /\ TypeOK /\ GuessOK /\ RowsAgree

LEMMA GuessInit == Init => GuessIInv
  <1> SUFFICES ASSUME Init PROVE GuessIInv
    OBVIOUS
  <1>1. NoUser \in User
    BY Zenon DEF NoUser, User, Statuses
  <1>2. codes \in [Emails -> Seq(Row)] /\ \A e \in Emails : codes[e] = <<>>
    BY DEF Init
  <1>3. call \in [Requests -> Call]
    BY DEF Init, Call
  <1>4. TypeOK
    BY <1>1, <1>2, <1>3, RegistrationAssumption DEF Init, TypeOK
  <1>5. GuessOK /\ RowsAgree
    BY <1>2 DEF GuessOK, RowsAgree
  <1> QED BY <1>4, <1>5, InitEstablishes DEF GuessIInv

LEMMA CountsGuesses ==
  ASSUME NEW calls, NEW e, NEW id
  PROVE  /\ IsFiniteSet(GuessingIn(calls, e, id))
         /\ Cardinality(GuessingIn(calls, e, id)) \in Nat
         /\ Cardinality(Requests) \in Nat
         /\ Cardinality(GuessingIn(calls, e, id)) <= Cardinality(Requests)
         /\ MaxCodeAttempts \in Nat
  <1>1. IsFiniteSet(Requests) /\ MaxCodeAttempts \in Nat
    BY RegistrationAssumption
  <1>2. GuessingIn(calls, e, id) \subseteq Requests
    BY DEF GuessingIn
  <1> QED BY <1>1, <1>2, FS_Subset, FS_CardinalityType

\* Every row is one of a state before it, with as many attempts, and whoever
\* guesses did so before.
LEMMA GuessesStay ==
  ASSUME GuessOK, RowsAgree, codes \in [Emails -> Seq(Row)],
         \A e \in Emails : \A i \in DOMAIN codes'[e] : \E j \in DOMAIN codes[e] :
            /\ codes'[e][i].id = codes[e][j].id
            /\ codes'[e][i].attempts = codes[e][j].attempts,
         \A r \in Requests : call'[r] = call[r] \/ call'[r].pc # "wrong"
  PROVE  GuessOK' /\ RowsAgree'
  <1>0. RowsAgree'
    BY DEF RowsAgree
  <1> SUFFICES ASSUME NEW e \in Emails, NEW i \in DOMAIN codes'[e]
               PROVE  codes'[e][i].attempts + Cardinality(GuessingIn(call', e, codes'[e][i].id))
                         < MaxCodeAttempts + Cardinality(Requests)
    BY <1>0 DEF GuessOK, Guessing
  <1>1. PICK j \in DOMAIN codes[e] : /\ codes'[e][i].id = codes[e][j].id
                                     /\ codes'[e][i].attempts = codes[e][j].attempts
    OBVIOUS
  <1>2. PICK id : id = codes[e][j].id
    OBVIOUS
  <1>3. codes[e][j].attempts + Cardinality(GuessingIn(call, e, id))
           < MaxCodeAttempts + Cardinality(Requests)
    BY <1>2 DEF GuessOK, Guessing
  <1>4. GuessingIn(call', e, id) \subseteq GuessingIn(call, e, id)
    BY DEF GuessingIn
  <1>5. Cardinality(GuessingIn(call', e, id)) <= Cardinality(GuessingIn(call, e, id))
    BY <1>4, CountsGuesses, FS_Subset
  <1>6. codes[e][j].attempts \in Nat
    <2>1. codes[e] \in Seq(Row)
      OBVIOUS
    <2>2. codes[e][j] \in Row
      BY <2>1, RowsOf
    <2> QED BY <2>2 DEF Row
  <1>7. /\ Cardinality(GuessingIn(call, e, id)) \in Nat
        /\ Cardinality(GuessingIn(call', e, id)) \in Nat
        /\ Cardinality(Requests) \in Nat /\ MaxCodeAttempts \in Nat
    BY CountsGuesses
  <1> QED BY <1>1, <1>2, <1>3, <1>5, <1>6, <1>7

-----------------------------------------------------------------------------
\* What the steps do to the rows.
StoreOK ==
    /\ codes \in [Emails -> Seq(Row)]
    /\ consumed \subseteq CodeIds
    /\ token \in [Emails -> 0..TokenTTL]

LEMMA RowFields ==
  ASSUME codes \in [Emails -> Seq(Row)], NEW e \in Emails
  PROVE  /\ codes[e] \in Seq(Row)
         /\ \A i \in DOMAIN codes[e] :
               /\ codes[e][i] \in Row
               /\ codes[e][i].id \in CodeIds /\ codes[e][i].attempts \in Nat
               /\ codes[e][i].age \in 0..CodeTTL
  <1>1. codes[e] \in Seq(Row)
    OBVIOUS
  <1>2. \A i \in DOMAIN codes[e] : codes[e][i] \in Row
    BY <1>1, RowsOf
  <1> QED BY <1>1, <1>2 DEF Row

LEMMA CallFields ==
  ASSUME NEW c \in Call
  PROVE  /\ c.pc # "idle" => c.email \in Emails
         /\ c.pc \in {"mail", "wrong", "right"} => c.id \in CodeIds
         /\ c.pc \in {"clear", "insert", "complete"} =>
               c \in [pc : {"clear", "insert", "complete"}, email : Emails]
  BY DEF Call

\* One address gets other rows.
LEMMA OneAddress ==
  ASSUME codes \in [Emails -> Seq(Row)], NEW e \in Emails, NEW rows \in Seq(Row),
         codes' = [codes EXCEPT ![e] = rows]
  PROVE  /\ codes' \in [Emails -> Seq(Row)]
         /\ codes'[e] = rows
         /\ \A x \in Emails : x # e => codes'[x] = codes[x]
  OBVIOUS

\* The mail and a wrong guess reach the rows of one id.
LEMMA MailOkRows ==
  ASSUME codes \in [Emails -> Seq(Row)], call \in [Requests -> Call], NEW r \in Requests, MailOk(r)
  PROVE  /\ codes' \in [Emails -> Seq(Row)]
         /\ \A e \in Emails : \A i \in DOMAIN codes'[e] :
               /\ i \in DOMAIN codes[e]
               /\ codes'[e][i].id = codes[e][i].id
               /\ codes'[e][i].attempts = codes[e][i].attempts
  <1> PICK e : e = call[r].email
    OBVIOUS
  <1>1. e \in Emails
    BY CallFields DEF MailOk
  <1> PICK rows : rows = [i \in DOMAIN codes[e] |->
                            IF codes[e][i].id = call[r].id
                            THEN [codes[e][i] EXCEPT !.mailed = TRUE] ELSE codes[e][i]]
    OBVIOUS
  <1>2. codes' = [codes EXCEPT ![e] = rows]
    BY <1>1 DEF MailOk
  <1>3. DOMAIN rows = DOMAIN codes[e] /\ rows = [i \in DOMAIN rows |-> rows[i]]
    OBVIOUS
  <1>4. ASSUME NEW i \in DOMAIN rows
        PROVE  /\ rows[i] \in Row
               /\ rows[i].id = codes[e][i].id /\ rows[i].attempts = codes[e][i].attempts
    <2>1. codes[e][i] \in Row
      BY <1>1, <1>3, RowFields
    <2>2. PICK next : next = [codes[e][i] EXCEPT !.mailed = TRUE]
      OBVIOUS
    <2>3. next \in Row
      BY <2>1, <2>2, Zenon DEF Row
    <2>4. next.id = codes[e][i].id /\ next.attempts = codes[e][i].attempts
      BY <2>1, <2>2 DEF Row
    <2>5. rows[i] = next \/ rows[i] = codes[e][i]
      BY <1>3, <2>2
    <2> QED BY <2>1, <2>3, <2>4, <2>5
  <1>5. rows \in Seq(Row)
    <2>1. codes[e] \in Seq(Row)
      BY <1>1, RowFields
    <2> QED BY <1>3, <1>4, <2>1, SameLength
  <1>6. /\ codes' \in [Emails -> Seq(Row)] /\ codes'[e] = rows
        /\ \A x \in Emails : x # e => codes'[x] = codes[x]
    BY <1>1, <1>2, <1>5, OneAddress
  <1>7. ASSUME NEW x \in Emails, NEW i \in DOMAIN codes'[x]
        PROVE  /\ i \in DOMAIN codes[x]
               /\ codes'[x][i].id = codes[x][i].id
               /\ codes'[x][i].attempts = codes[x][i].attempts
    <2>1. CASE x = e
      <3>1. codes'[x] = rows /\ i \in DOMAIN rows
        BY <1>6, <2>1
      <3> QED BY <1>3, <1>4, <2>1, <3>1
    <2>2. CASE x # e
      BY <1>6, <2>2
    <2> QED BY <2>1, <2>2
  <1> QED BY <1>6, <1>7

LEMMA WrongRows ==
  ASSUME codes \in [Emails -> Seq(Row)], call \in [Requests -> Call], NEW r \in Requests, VerifyWrong(r)
  PROVE  /\ call[r].email \in Emails
         /\ codes' \in [Emails -> Seq(Row)]
         /\ \A e \in Emails : \A i \in DOMAIN codes'[e] :
               /\ i \in DOMAIN codes[e]
               /\ codes'[e][i].id = codes[e][i].id
               /\ codes'[e][i].attempts =
                     IF e = call[r].email /\ codes[e][i].id = call[r].id
                     THEN codes[e][i].attempts + 1 ELSE codes[e][i].attempts
  <1> PICK e : e = call[r].email
    OBVIOUS
  <1>1. e \in Emails
    BY CallFields DEF VerifyWrong
  <1> PICK rows : rows = [i \in DOMAIN codes[e] |->
                            IF codes[e][i].id = call[r].id
                            THEN Guessed(codes[e][i]) ELSE codes[e][i]]
    OBVIOUS
  <1>2. codes' = [codes EXCEPT ![e] = rows]
    BY <1>1 DEF VerifyWrong
  <1>3. DOMAIN rows = DOMAIN codes[e] /\ rows = [i \in DOMAIN rows |-> rows[i]]
    OBVIOUS
  <1>4. ASSUME NEW i \in DOMAIN rows
        PROVE  /\ rows[i] \in Row
               /\ rows[i].id = codes[e][i].id
               /\ rows[i].attempts = IF codes[e][i].id = call[r].id
                                     THEN codes[e][i].attempts + 1 ELSE codes[e][i].attempts
    <2>1. codes[e][i] \in Row /\ codes[e][i].attempts \in Nat
      BY <1>1, <1>3, RowFields
    <2>2. PICK n : n = codes[e][i].attempts + 1
      OBVIOUS
    <2>3. n \in Nat
      BY <2>1, <2>2
    <2>4. PICK next : next = [codes[e][i] EXCEPT !.attempts = n] /\ next = Guessed(codes[e][i])
      BY <2>2 DEF Guessed
    <2>5. next \in Row
      BY <2>1, <2>3, <2>4, Zenon DEF Row
    <2>6. next.id = codes[e][i].id /\ next.attempts = n
      BY <2>1, <2>4 DEF Row
    <2>7. rows[i] = IF codes[e][i].id = call[r].id THEN next ELSE codes[e][i]
      BY <1>3, <2>2, <2>4
    <2> QED BY <2>1, <2>2, <2>5, <2>6, <2>7
  <1>5. rows \in Seq(Row)
    <2>1. codes[e] \in Seq(Row)
      BY <1>1, RowFields
    <2> QED BY <1>3, <1>4, <2>1, SameLength
  <1>6. /\ codes' \in [Emails -> Seq(Row)] /\ codes'[e] = rows
        /\ \A x \in Emails : x # e => codes'[x] = codes[x]
    BY <1>1, <1>2, <1>5, OneAddress
  <1>7. ASSUME NEW x \in Emails, NEW i \in DOMAIN codes'[x]
        PROVE  /\ i \in DOMAIN codes[x]
               /\ codes'[x][i].id = codes[x][i].id
               /\ codes'[x][i].attempts =
                     IF x = e /\ codes[x][i].id = call[r].id
                     THEN codes[x][i].attempts + 1 ELSE codes[x][i].attempts
    <2>1. CASE x = e
      <3>1. codes'[x] = rows /\ i \in DOMAIN rows
        BY <1>6, <2>1
      <3> QED BY <1>3, <1>4, <2>1, <3>1
    <2>2. CASE x # e
      BY <1>6, <2>2
    <2> QED BY <2>1, <2>2
  <1> QED BY <1>1, <1>6, <1>7

\* Time passes for every row.
LEMMA TickRows ==
  ASSUME codes \in [Emails -> Seq(Row)], Tick
  PROVE  /\ codes' \in [Emails -> Seq(Row)]
         /\ \A e \in Emails : \A i \in DOMAIN codes'[e] :
               /\ i \in DOMAIN codes[e]
               /\ codes'[e][i].id = codes[e][i].id
               /\ codes'[e][i].attempts = codes[e][i].attempts
  <1>1. codes' = [e \in Emails |-> codes'[e]]
    BY DEF Tick
  <1>2. ASSUME NEW e \in Emails
        PROVE  /\ codes'[e] \in Seq(Row)
               /\ DOMAIN codes'[e] = DOMAIN codes[e]
               /\ \A i \in DOMAIN codes[e] :
                     /\ codes'[e][i].id = codes[e][i].id
                     /\ codes'[e][i].attempts = codes[e][i].attempts
    <2> PICK rows : rows = [i \in DOMAIN codes[e] |->
                             [codes[e][i] EXCEPT !.age = IF @ < CodeTTL THEN @ + 1 ELSE @]]
      OBVIOUS
    <2>1. codes'[e] = rows
      BY DEF Tick
    <2>2. DOMAIN rows = DOMAIN codes[e] /\ rows = [i \in DOMAIN rows |-> rows[i]]
      OBVIOUS
    <2>3. ASSUME NEW i \in DOMAIN codes[e]
          PROVE  /\ rows[i] \in Row
                 /\ rows[i].id = codes[e][i].id /\ rows[i].attempts = codes[e][i].attempts
      <3>1. codes[e][i] \in Row /\ codes[e][i].age \in 0..CodeTTL /\ CodeTTL \in Nat
        BY RowFields, RegistrationAssumption
      <3>2. PICK age \in 0..CodeTTL :
               age = IF codes[e][i].age < CodeTTL THEN codes[e][i].age + 1 ELSE codes[e][i].age
        BY <3>1
      <3>3. rows[i] = [codes[e][i] EXCEPT !.age = age]
        BY <3>2
      <3>4. rows[i] \in Row
        BY <3>1, <3>3, Zenon DEF Row
      <3> QED BY <3>1, <3>3, <3>4 DEF Row
    <2>4. rows \in Seq(Row)
      <3>1. codes[e] \in Seq(Row)
        OBVIOUS
      <3> QED BY <2>2, <2>3, <3>1, SameLength
    <2> QED BY <2>1, <2>2, <2>3, <2>4
  <1>3. codes' \in [Emails -> Seq(Row)]
    BY <1>1, <1>2
  <1> QED BY <1>2, <1>3

\* A new code deletes the rows of its address, and then is one of them.
LEMMA ClearRows ==
  ASSUME codes \in [Emails -> Seq(Row)], call \in [Requests -> Call], NEW r \in Requests, SendClear(r)
  PROVE  /\ codes' \in [Emails -> Seq(Row)]
         /\ \A e \in Emails : \A i \in DOMAIN codes'[e] :
               /\ i \in DOMAIN codes[e]
               /\ codes'[e][i].id = codes[e][i].id
               /\ codes'[e][i].attempts = codes[e][i].attempts
  <1> PICK e : e = call[r].email
    OBVIOUS
  <1>1. e \in Emails
    BY CallFields DEF SendClear
  <1>2. codes' = [codes EXCEPT ![e] = <<>>]
    BY DEF SendClear
  <1>3. <<>> \in Seq(Row) /\ DOMAIN <<>> = {}
    OBVIOUS
  <1>4. /\ codes' \in [Emails -> Seq(Row)] /\ codes'[e] = <<>>
        /\ \A x \in Emails : x # e => codes'[x] = codes[x]
    BY <1>1, <1>2, <1>3, OneAddress
  <1> QED BY <1>3, <1>4

LEMMA InsertRows ==
  ASSUME codes \in [Emails -> Seq(Row)], call \in [Requests -> Call], NEW r \in Requests, SendInsert(r)
  PROVE  /\ codes' \in [Emails -> Seq(Row)]
         /\ call[r].email \in Emails
         /\ \E id \in CodeIds :
               /\ call' = [call EXCEPT ![r] = [pc |-> "mail", email |-> call[r].email, id |-> id]]
               /\ \A e \in Emails : \A i \in DOMAIN codes[e] : codes[e][i].id # id
               /\ \A e \in Emails : \A i \in DOMAIN codes'[e] :
                     \/ codes'[e][i].id = id /\ codes'[e][i].attempts = 0
                     \/ \E j \in DOMAIN codes[e] : /\ codes'[e][i].id = codes[e][j].id
                                                   /\ codes'[e][i].attempts = codes[e][j].attempts
  <1> PICK e : e = call[r].email
    OBVIOUS
  <1>1. e \in Emails
    BY CallFields DEF SendInsert
  <1>2. PICK id \in FreshIds :
           /\ codes' = [codes EXCEPT ![e] =
                          <<[id |-> id, age |-> 0, attempts |-> 0, mailed |-> FALSE]>> \o @]
           /\ call' = [call EXCEPT ![r] = [pc |-> "mail", email |-> e, id |-> id]]
    BY DEF SendInsert, Become
  <1>3. PICK row : row = [id |-> id, age |-> 0, attempts |-> 0, mailed |-> FALSE]
    OBVIOUS
  <1>4. row \in Row /\ row.attempts = 0 /\ row.id = id /\ id \in CodeIds
    BY <1>2, <1>3, RegistrationAssumption DEF Row, FreshIds
  <1>5. PICK rows : rows = <<row>> \o codes[e]
    OBVIOUS
  <1>6. codes[e] \in Seq(Row) /\ Len(codes[e]) \in Nat /\ DOMAIN codes[e] = 1..Len(codes[e])
    BY <1>1, RowFields, RowsOf
  <1>7. rows \in Seq(Row)
    BY <1>4, <1>5, <1>6
  <1>8. codes' = [codes EXCEPT ![e] = rows]
    BY <1>1, <1>2, <1>3, <1>5
  <1>9. /\ codes' \in [Emails -> Seq(Row)] /\ codes'[e] = rows
        /\ \A x \in Emails : x # e => codes'[x] = codes[x]
    BY <1>1, <1>7, <1>8, OneAddress
  <1>10. ASSUME NEW i \in DOMAIN rows
         PROVE  rows[i] = row \/ \E j \in DOMAIN codes[e] : rows[i] = codes[e][j]
    <2>1. <<row>> \in Seq(Row) /\ Len(<<row>>) = 1 /\ <<row>>[1] = row
      BY <1>4
    <2>2. /\ Len(rows) = 1 + Len(codes[e])
          /\ \A j \in 1..1 + Len(codes[e]) :
                rows[j] = IF j <= 1 THEN <<row>>[j] ELSE codes[e][j - 1]
      BY <1>5, <1>6, <2>1, ConcatProperties
    <2>3. DOMAIN rows = 1..1 + Len(codes[e])
      BY <1>7, <2>2, RowsOf
    <2>4. CASE i = 1
      BY <1>6, <2>1, <2>2, <2>4
    <2>5. CASE i # 1
      <3>1. rows[i] = codes[e][i - 1] /\ i - 1 \in 1..Len(codes[e])
        BY <1>6, <2>2, <2>3, <2>5
      <3> QED BY <1>6, <3>1
    <2> QED BY <2>4, <2>5
  <1>11. ASSUME NEW x \in Emails, NEW i \in DOMAIN codes'[x]
         PROVE  \/ codes'[x][i].id = id /\ codes'[x][i].attempts = 0
                \/ \E j \in DOMAIN codes[x] : /\ codes'[x][i].id = codes[x][j].id
                                              /\ codes'[x][i].attempts = codes[x][j].attempts
    <2>1. CASE x = e
      BY <1>4, <1>9, <1>10, <2>1
    <2>2. CASE x # e
      BY <1>9, <2>2
    <2> QED BY <2>1, <2>2
  <1>12. ASSUME NEW x \in Emails, NEW i \in DOMAIN codes[x] PROVE codes[x][i].id # id
    <2>1. codes[x][i].id \in LiveIds(x)
      BY DEF LiveIds
    <2>2. id \notin LiveIds(x)
      BY <1>2 DEF FreshIds
    <2> QED BY <2>1, <2>2
  <1> QED BY <1>1, <1>2, <1>4, <1>9, <1>11, <1>12

\* A right guess takes its row away.
LEMMA RightRows ==
  ASSUME codes \in [Emails -> Seq(Row)], call \in [Requests -> Call], NEW r \in Requests, VerifyRight(r)
  PROVE  /\ call[r].email \in Emails /\ call[r].id \in CodeIds
         /\ codes' \in [Emails -> Seq(Row)]
         /\ \A e \in Emails : \A i \in DOMAIN codes'[e] : \E j \in DOMAIN codes[e] :
               /\ codes'[e][i].id = codes[e][j].id
               /\ codes'[e][i].attempts = codes[e][j].attempts
  <1> PICK e : e = call[r].email
    OBVIOUS
  <1>1. e \in Emails /\ call[r].id \in CodeIds
    BY CallFields DEF VerifyRight
  <1>2. codes[e] \in Seq(Row)
    BY <1>1, RowFields
  <1>3. PICK rows : /\ codes' = [codes EXCEPT ![e] = rows]
                    /\ \/ rows = codes[e]
                       \/ \E i \in DOMAIN codes[e] : rows = RemoveAt(codes[e], i)
    <2>1. CASE call[r].id \in LiveIds(e)
      <3>1. PICK i \in DOMAIN codes[e] :
               i = CHOOSE j \in DOMAIN codes[e] : codes[e][j].id = call[r].id
        BY <2>1 DEF LiveIds
      <3>2. codes' = [codes EXCEPT ![e] = RemoveAt(codes[e], i)]
        BY <1>1, <2>1, <3>1 DEF VerifyRight
      <3> QED BY <3>2
    <2>2. CASE call[r].id \notin LiveIds(e)
      BY <1>1, <2>2 DEF VerifyRight
    <2> QED BY <2>1, <2>2
  <1>4. /\ rows \in Seq(Row)
        /\ \A i \in DOMAIN rows : \E j \in DOMAIN codes[e] : rows[i] = codes[e][j]
    BY <1>2, <1>3, RemovingOne
  <1>5. /\ codes' \in [Emails -> Seq(Row)] /\ codes'[e] = rows
        /\ \A x \in Emails : x # e => codes'[x] = codes[x]
    BY <1>1, <1>3, <1>4, OneAddress
  <1>6. ASSUME NEW x \in Emails, NEW i \in DOMAIN codes'[x]
        PROVE  \E j \in DOMAIN codes[x] : /\ codes'[x][i].id = codes[x][j].id
                                          /\ codes'[x][i].attempts = codes[x][j].attempts
    <2>1. CASE x = e
      BY <1>4, <1>5, <2>1
    <2>2. CASE x # e
      BY <1>5, <2>2
    <2> QED BY <2>1, <2>2
  <1> QED BY <1>1, <1>5, <1>6

-----------------------------------------------------------------------------
\* What the steps do to the calls.
LEMMA BecomeTyped ==
  ASSUME call \in [Requests -> Call], NEW r \in Requests, NEW c \in Call, Become(r, c)
  PROVE  /\ call' \in [Requests -> Call]
         /\ call'[r] = c
         /\ \A s \in Requests : s # r => call'[s] = call[s]
  BY DEF Become

LEMMA FinishTyped ==
  ASSUME call \in [Requests -> Call], NEW r \in Requests, Finish(r)
  PROVE  /\ call' \in [Requests -> Call]
         /\ call'[r].pc = "idle"
         /\ \A s \in Requests : s # r => call'[s] = call[s]
  <1>1. [pc |-> "idle"] \in Call
    BY DEF Call
  <1> QED BY <1>1, BecomeTyped DEF Finish

\* A step that deletes rows or leaves them, and has no call guess.
LEMMA QuietKeeps ==
  ASSUME GuessOK, RowsAgree, codes \in [Emails -> Seq(Row)], NEW r \in Requests,
         \A e \in Emails : \A i \in DOMAIN codes'[e] : \E j \in DOMAIN codes[e] :
            /\ codes'[e][i].id = codes[e][j].id
            /\ codes'[e][i].attempts = codes[e][j].attempts,
         call'[r].pc # "wrong", \A s \in Requests : s # r => call'[s] = call[s]
  PROVE  GuessOK' /\ RowsAgree'
  <1>1. \A s \in Requests : call'[s] = call[s] \/ call'[s].pc # "wrong"
    OBVIOUS
  <1> QED BY <1>1, GuessesStay

LEMMA AsTheyWere ==
  ASSUME codes' = codes
  PROVE  \A e \in Emails : \A i \in DOMAIN codes'[e] : \E j \in DOMAIN codes[e] :
            /\ codes'[e][i].id = codes[e][j].id
            /\ codes'[e][i].attempts = codes[e][j].attempts
  OBVIOUS

\* The guess that is being compared when a call reads a row below the limit.
LEMMA ReadKeeps ==
  ASSUME GuessIInv, NEW r \in Requests, NEW e \in Emails, VerifyRead(r, e)
  PROVE  call' \in [Requests -> Call] /\ GuessOK' /\ RowsAgree'
  <1>1. /\ codes \in [Emails -> Seq(Row)] /\ call \in [Requests -> Call]
        /\ codes' = codes /\ RowsAgree /\ GuessOK
    BY DEF GuessIInv, TypeOK, VerifyRead, codeVars
  <1>2. /\ codes[e] # <<>> /\ Head(codes[e]).attempts < MaxCodeAttempts
        /\ codes[e] \in Seq(Row)
    BY <1>1 DEF VerifyRead, Valid
  <1>3. 1 \in DOMAIN codes[e] /\ codes[e][1].attempts < MaxCodeAttempts
        /\ Head(codes[e]) = codes[e][1]
    BY <1>2, RowsOf
  <1>4. PICK id : id = codes[e][1].id
    OBVIOUS
  <1>5. id \in CodeIds
    BY <1>1, <1>3, <1>4, RowFields
  <1>6. PICK guess \in {"wrong", "right"} : Become(r, [pc |-> guess, email |-> e, id |-> id])
    BY <1>3, <1>4 DEF VerifyRead
  <1>7. PICK c : c = [pc |-> guess, email |-> e, id |-> id]
    OBVIOUS
  <1>8. c \in Call
    BY <1>5, <1>7 DEF Call
  <1>9. /\ call' \in [Requests -> Call] /\ call'[r] = c
        /\ \A s \in Requests : s # r => call'[s] = call[s]
    BY <1>1, <1>6, <1>7, <1>8, BecomeTyped
  <1>10. RowsAgree'
    BY <1>1 DEF RowsAgree
  <1>11. ASSUME NEW x \in Emails, NEW i \in DOMAIN codes[x]
         PROVE  codes[x][i].attempts + Cardinality(GuessingIn(call', x, codes[x][i].id))
                   < MaxCodeAttempts + Cardinality(Requests)
    <2>1. PICK who : who = codes[x][i].id
      OBVIOUS
    <2>2. PICK n \in Nat : n = codes[x][i].attempts
      BY <1>1, RowFields
    <2>3. /\ Cardinality(GuessingIn(call', x, who)) \in Nat
          /\ Cardinality(GuessingIn(call, x, who)) \in Nat
          /\ Cardinality(GuessingIn(call', x, who)) <= Cardinality(Requests)
          /\ Cardinality(Requests) \in Nat /\ MaxCodeAttempts \in Nat
      BY CountsGuesses
    <2>4. CASE x = e /\ who = id
      <3>1. n < MaxCodeAttempts
        BY <1>1, <1>3, <1>4, <2>1, <2>2, <2>4 DEF RowsAgree
      <3> QED BY <2>1, <2>2, <2>3, <3>1
    <2>5. CASE ~(x = e /\ who = id)
      <3>1. GuessingIn(call', x, who) \subseteq GuessingIn(call, x, who)
        BY <1>7, <1>9, <2>5 DEF GuessingIn
      <3>2. Cardinality(GuessingIn(call', x, who)) <= Cardinality(GuessingIn(call, x, who))
        BY <3>1, CountsGuesses, FS_Subset
      <3>3. n + Cardinality(GuessingIn(call, x, who)) < MaxCodeAttempts + Cardinality(Requests)
        BY <1>1, <2>1, <2>2 DEF GuessOK, Guessing
      <3> QED BY <2>1, <2>2, <2>3, <3>2, <3>3
    <2> QED BY <2>4, <2>5
  <1>12. GuessOK'
    BY <1>1, <1>11 DEF GuessOK, Guessing
  <1> QED BY <1>9, <1>10, <1>12

\* A wrong guess that is counted is not being compared any more.
LEMMA WrongKeeps ==
  ASSUME GuessIInv, NEW r \in Requests, VerifyWrong(r)
  PROVE  call' \in [Requests -> Call] /\ GuessOK' /\ RowsAgree'
  <1>1. /\ codes \in [Emails -> Seq(Row)] /\ call \in [Requests -> Call]
        /\ RowsAgree /\ GuessOK /\ Finish(r) /\ call[r].pc = "wrong"
    BY DEF GuessIInv, TypeOK, VerifyWrong
  <1>2. /\ call' \in [Requests -> Call] /\ call'[r].pc = "idle"
        /\ \A s \in Requests : s # r => call'[s] = call[s]
    BY <1>1, FinishTyped
  <1>3. \A e \in Emails : \A i \in DOMAIN codes'[e] :
           /\ i \in DOMAIN codes[e]
           /\ codes'[e][i].id = codes[e][i].id
           /\ codes'[e][i].attempts =
                 IF e = call[r].email /\ codes[e][i].id = call[r].id
                 THEN codes[e][i].attempts + 1 ELSE codes[e][i].attempts
    BY <1>1, WrongRows
  <1>4. RowsAgree'
    <2> SUFFICES ASSUME NEW e \in Emails, NEW i \in DOMAIN codes'[e], NEW j \in DOMAIN codes'[e],
                        codes'[e][i].id = codes'[e][j].id
                 PROVE  codes'[e][i].attempts = codes'[e][j].attempts
      BY DEF RowsAgree
    <2>1. codes[e][i].id = codes[e][j].id /\ i \in DOMAIN codes[e] /\ j \in DOMAIN codes[e]
      BY <1>3
    <2>2. codes[e][i].attempts = codes[e][j].attempts
      BY <1>1, <2>1 DEF RowsAgree
    <2> QED BY <1>3, <2>1, <2>2
  <1>5. ASSUME NEW e \in Emails, NEW i \in DOMAIN codes'[e]
        PROVE  codes'[e][i].attempts + Cardinality(GuessingIn(call', e, codes'[e][i].id))
                  < MaxCodeAttempts + Cardinality(Requests)
    <2>1. i \in DOMAIN codes[e] /\ codes'[e][i].id = codes[e][i].id
      BY <1>3
    <2>2. PICK id : id = codes[e][i].id
      OBVIOUS
    <2>3. PICK n \in Nat : n = codes[e][i].attempts
      BY <1>1, <2>1, RowFields
    <2>4. n + Cardinality(GuessingIn(call, e, id)) < MaxCodeAttempts + Cardinality(Requests)
      BY <1>1, <2>1, <2>2, <2>3 DEF GuessOK, Guessing
    <2>5. /\ Cardinality(GuessingIn(call', e, id)) \in Nat
          /\ Cardinality(GuessingIn(call, e, id)) \in Nat
          /\ IsFiniteSet(GuessingIn(call, e, id))
          /\ Cardinality(Requests) \in Nat /\ MaxCodeAttempts \in Nat
      BY CountsGuesses
    <2>6. CASE e = call[r].email /\ id = call[r].id
      <3>1. r \in GuessingIn(call, e, id)
        BY <1>1, <2>6 DEF GuessingIn
      <3>2. GuessingIn(call', e, id) = GuessingIn(call, e, id) \ {r}
        BY <1>2 DEF GuessingIn
      <3>3. Cardinality(GuessingIn(call', e, id)) = Cardinality(GuessingIn(call, e, id)) - 1
        BY <2>5, <3>1, <3>2, FS_RemoveElement
      <3>4. codes'[e][i].attempts = n + 1
        BY <1>3, <2>2, <2>3, <2>6
      <3> QED BY <2>1, <2>2, <2>4, <2>5, <3>3, <3>4
    <2>7. CASE ~(e = call[r].email /\ id = call[r].id)
      <3>1. GuessingIn(call', e, id) \subseteq GuessingIn(call, e, id)
        BY <1>2 DEF GuessingIn
      <3>2. Cardinality(GuessingIn(call', e, id)) <= Cardinality(GuessingIn(call, e, id))
        BY <3>1, CountsGuesses, FS_Subset
      <3>3. codes'[e][i].attempts = n
        BY <1>3, <2>2, <2>3, <2>7
      <3> QED BY <2>1, <2>2, <2>4, <2>5, <3>2, <3>3
    <2> QED BY <2>6, <2>7
  <1>6. GuessOK'
    BY <1>5 DEF GuessOK, Guessing
  <1> QED BY <1>2, <1>4, <1>6

\* A new row was not guessed at.
LEMMA InsertKeeps ==
  ASSUME GuessIInv, NEW r \in Requests, SendInsert(r)
  PROVE  call' \in [Requests -> Call] /\ GuessOK' /\ RowsAgree'
  <1>1. /\ codes \in [Emails -> Seq(Row)] /\ call \in [Requests -> Call]
        /\ RowsAgree /\ GuessOK
    BY DEF GuessIInv, TypeOK
  <1>2. PICK new \in CodeIds :
           /\ call' = [call EXCEPT ![r] = [pc |-> "mail", email |-> call[r].email, id |-> new]]
           /\ \A e \in Emails : \A i \in DOMAIN codes[e] : codes[e][i].id # new
           /\ \A e \in Emails : \A i \in DOMAIN codes'[e] :
                 \/ codes'[e][i].id = new /\ codes'[e][i].attempts = 0
                 \/ \E j \in DOMAIN codes[e] : /\ codes'[e][i].id = codes[e][j].id
                                               /\ codes'[e][i].attempts = codes[e][j].attempts
    BY <1>1, InsertRows
  <1>3. PICK c : c = [pc |-> "mail", email |-> call[r].email, id |-> new]
    OBVIOUS
  <1>4. c \in Call /\ c.pc = "mail"
    <2>1. call[r].email \in Emails
      BY <1>1, InsertRows
    <2> QED BY <1>3, <2>1 DEF Call
  <1>5. /\ call' \in [Requests -> Call] /\ call'[r].pc # "wrong"
        /\ \A s \in Requests : s # r => call'[s] = call[s]
    BY <1>1, <1>2, <1>3, <1>4
  <1>6. RowsAgree'
    BY <1>1, <1>2 DEF RowsAgree
  <1>7. ASSUME NEW e \in Emails, NEW i \in DOMAIN codes'[e]
        PROVE  codes'[e][i].attempts + Cardinality(GuessingIn(call', e, codes'[e][i].id))
                  < MaxCodeAttempts + Cardinality(Requests)
    <2>1. PICK id : id = codes'[e][i].id
      OBVIOUS
    <2>2. /\ Cardinality(GuessingIn(call', e, id)) \in Nat
          /\ Cardinality(GuessingIn(call, e, id)) \in Nat
          /\ Cardinality(GuessingIn(call', e, id)) <= Cardinality(Requests)
          /\ Cardinality(Requests) \in Nat /\ MaxCodeAttempts \in Nat \ {0}
      BY CountsGuesses, RegistrationAssumption
    <2>3. CASE codes'[e][i].attempts = 0
      BY <2>1, <2>2, <2>3
    <2>4. ASSUME NEW j \in DOMAIN codes[e], id = codes[e][j].id,
                 codes'[e][i].attempts = codes[e][j].attempts
          PROVE  codes'[e][i].attempts + Cardinality(GuessingIn(call', e, codes'[e][i].id))
                    < MaxCodeAttempts + Cardinality(Requests)
      <3>1. PICK n \in Nat : n = codes[e][j].attempts
        BY <1>1, RowFields
      <3>2. n + Cardinality(GuessingIn(call, e, id)) < MaxCodeAttempts + Cardinality(Requests)
        BY <1>1, <2>4, <3>1 DEF GuessOK, Guessing
      <3>3. GuessingIn(call', e, id) \subseteq GuessingIn(call, e, id)
        BY <1>5 DEF GuessingIn
      <3>4. Cardinality(GuessingIn(call', e, id)) <= Cardinality(GuessingIn(call, e, id))
        BY <3>3, CountsGuesses, FS_Subset
      <3> QED BY <2>1, <2>2, <2>4, <3>1, <3>2, <3>4
    <2> QED BY <1>2, <2>1, <2>3, <2>4
  <1>8. GuessOK'
    BY <1>7 DEF GuessOK, Guessing
  <1> QED BY <1>5, <1>6, <1>8

\* The calls that read, and those that end.
LEMMA SilentKeeps ==
  ASSUME GuessIInv, NEW r \in Requests,
         \/ \E e \in Emails : \/ SendCheck(r, e) \/ CompleteCheck(r, e) \/ KeyRead(r, e)
                              \/ \E s \in Subs : GoogleRead(r, s, e)
         \/ MailFail(r) \/ VerifyRightGone(r) \/ CreateConflict(r) \/ DatabaseError(r)
         \/ Complete(r) \/ GoogleLook(r) \/ GoogleLink(r) \/ GoogleCreate(r)
  PROVE  call' \in [Requests -> Call] /\ codes' = codes /\ GuessOK' /\ RowsAgree'
  <1>1. /\ codes \in [Emails -> Seq(Row)] /\ call \in [Requests -> Call]
        /\ RowsAgree /\ GuessOK
    BY DEF GuessIInv, TypeOK
  <1>2. PICK c \in Call : Become(r, c) /\ codes' = codes /\ c.pc # "wrong"
    <2>1. ASSUME NEW e \in Emails, SendCheck(r, e) \/ CompleteCheck(r, e)
          PROVE  \E c \in Call : Become(r, c) /\ codes' = codes /\ c.pc # "wrong"
      <3>1. PICK pc \in {"clear", "complete"} :
               Become(r, [pc |-> pc, email |-> e]) /\ codes' = codes
        BY <2>1 DEF SendCheck, CompleteCheck, codeVars
      <3>2. [pc |-> pc, email |-> e] \in Call /\ [pc |-> pc, email |-> e].pc # "wrong"
        BY DEF Call
      <3> QED BY <3>1, <3>2
    <2>2. ASSUME NEW e \in Emails, KeyRead(r, e)
          PROVE  \E c \in Call : Become(r, c) /\ codes' = codes /\ c.pc # "wrong"
      <3>1. PICK pc \in {"generate", "regenerate"} :
               Become(r, [pc |-> pc, email |-> e, alone |-> TRUE]) /\ codes' = codes
        BY <2>2 DEF KeyRead, codeVars
      <3>2. PICK c : c = [pc |-> pc, email |-> e, alone |-> TRUE]
        OBVIOUS
      <3>3. c \in [pc : {"generate", "regenerate"}, email : Emails, alone : BOOLEAN]
        BY <3>2, Zenon
      <3>4. c.pc = pc
        BY <3>2
      <3> QED BY <3>1, <3>2, <3>3, <3>4 DEF Call
    <2>3. ASSUME NEW e \in Emails, NEW s \in Subs, GoogleRead(r, s, e)
          PROVE  \E c \in Call : Become(r, c) /\ codes' = codes /\ c.pc # "wrong"
      <3>1. Become(r, [pc |-> "look", email |-> e, sub |-> s]) /\ codes' = codes
        BY <2>3 DEF GoogleRead, codeVars
      <3>2. PICK c : c = [pc |-> "look", email |-> e, sub |-> s]
        OBVIOUS
      <3>3. c \in Call /\ c.pc # "wrong"
        BY <3>2 DEF Call
      <3> QED BY <3>1, <3>2, <3>3
    <2>5. CASE GoogleLook(r)
      <3>1. PICK pc \in {"link", "create"} :
               /\ Become(r, [pc |-> pc, email |-> call[r].email, sub |-> call[r].sub])
               /\ codes' = codes
        BY <2>5 DEF GoogleLook, codeVars
      <3>2. call[r].email \in Emails /\ call[r].sub \in Subs
        BY <1>1, <2>5 DEF GoogleLook, Call
      <3>3. PICK c : c = [pc |-> pc, email |-> call[r].email, sub |-> call[r].sub]
        OBVIOUS
      <3>4. c \in Call /\ c.pc # "wrong"
        BY <3>2, <3>3 DEF Call
      <3> QED BY <3>1, <3>3, <3>4
    <2>4. CASE \/ MailFail(r) \/ VerifyRightGone(r) \/ CreateConflict(r) \/ DatabaseError(r)
               \/ Complete(r) \/ GoogleLink(r) \/ GoogleCreate(r)
      <3>1. Become(r, [pc |-> "idle"]) /\ codes' = codes
        BY <2>4 DEF MailFail, VerifyRightGone, CreateConflict, DatabaseError, Complete,
                    GoogleLink, GoogleCreate, Finish, codeVars
      <3>2. [pc |-> "idle"] \in Call /\ [pc |-> "idle"].pc # "wrong"
        BY DEF Call
      <3> QED BY <3>1, <3>2
    <2> QED BY <2>1, <2>2, <2>3, <2>4, <2>5
  <1>3. /\ call' \in [Requests -> Call] /\ call'[r] = c
        /\ \A s \in Requests : s # r => call'[s] = call[s]
    BY <1>1, <1>2, BecomeTyped
  <1> QED BY <1>1, <1>2, <1>3, AsTheyWere, QuietKeeps

\* The other steps of the calls with codes, and those that belong to no call.
LEMMA LoudKeeps ==
  ASSUME GuessIInv, IInv', NEW r \in Requests,
         SendClear(r) \/ MailOk(r) \/ VerifyRight(r) \/ KeyWrite(r)
  PROVE  /\ call' \in [Requests -> Call] /\ codes' \in [Emails -> Seq(Row)]
         /\ GuessOK' /\ RowsAgree'
  <1>1. /\ codes \in [Emails -> Seq(Row)] /\ call \in [Requests -> Call]
        /\ RowsAgree /\ GuessOK
    BY DEF GuessIInv, TypeOK
  <1>2. CASE SendClear(r)
    <2>1. call[r] \in [pc : {"clear", "insert", "complete"}, email : Emails]
      BY <1>1, <1>2, CallFields DEF SendClear
    <2>2. PICK c : c = [call[r] EXCEPT !.pc = "insert"]
      OBVIOUS
    <2>3. c \in Call /\ c.pc # "wrong"
      BY <2>1, <2>2 DEF Call
    <2>4. /\ call' \in [Requests -> Call] /\ call'[r] = c
          /\ \A s \in Requests : s # r => call'[s] = call[s]
      BY <1>1, <1>2, <2>2, <2>3, BecomeTyped DEF SendClear
    <2>5. /\ codes' \in [Emails -> Seq(Row)]
          /\ \A e \in Emails : \A i \in DOMAIN codes'[e] : \E j \in DOMAIN codes[e] :
                /\ codes'[e][i].id = codes[e][j].id
                /\ codes'[e][i].attempts = codes[e][j].attempts
      BY <1>1, <1>2, ClearRows
    <2> QED BY <1>1, <2>3, <2>4, <2>5, QuietKeeps
  <1>3. CASE MailOk(r) \/ VerifyRight(r)
    <2>1. /\ call' \in [Requests -> Call] /\ call'[r].pc = "idle"
          /\ \A s \in Requests : s # r => call'[s] = call[s]
      BY <1>1, <1>3, FinishTyped DEF MailOk, VerifyRight
    <2>2. /\ codes' \in [Emails -> Seq(Row)]
          /\ \A e \in Emails : \A i \in DOMAIN codes'[e] : \E j \in DOMAIN codes[e] :
                /\ codes'[e][i].id = codes[e][j].id
                /\ codes'[e][i].attempts = codes[e][j].attempts
      BY <1>1, <1>3, MailOkRows, RightRows
    <2> QED BY <1>1, <2>1, <2>2, QuietKeeps
  <1>4. CASE KeyWrite(r)
    <2>1. /\ codes' = codes
          /\ call' = [s \in Requests |-> call'[s]]
          /\ call'[r] = [pc |-> "idle"]
      BY <1>4 DEF KeyWrite, codeVars
    <2>2. ASSUME NEW s \in Requests
          PROVE  call'[s] \in Call /\ (call'[s] = call[s] \/ call'[s].pc # "wrong")
      <3>1. CASE s = r
        BY <2>1, <3>1 DEF Call
      <3>2. CASE call'[s] = call[s]
        BY <1>1, <3>2
      <3>3. CASE s # r /\ call'[s] # call[s]
        <4>1. /\ call[s].pc \in {"generate", "regenerate"}
              /\ call'[s] = [call[s] EXCEPT !.alone = FALSE]
          BY <1>4, <3>3 DEF KeyWrite
        <4>2. call[s] \in [pc : {"generate", "regenerate"}, email : Emails, alone : BOOLEAN]
          BY <4>1 DEF GuessIInv, IInv, CallsOK, CallOK
        <4>3. call'[s].pc \in {"generate", "regenerate"}
          BY <4>1, <4>2
        <4>4. call'[s] \in [pc : {"generate", "regenerate"}, email : Emails, alone : BOOLEAN]
          BY <4>3 DEF IInv, CallsOK, CallOK
        <4> QED BY <4>3, <4>4 DEF Call
      <3> QED BY <3>1, <3>2, <3>3
    <2>3. call' \in [Requests -> Call]
      BY <2>1, <2>2
    <2> QED BY <1>1, <2>1, <2>2, <2>3, AsTheyWere, GuessesStay
  <1> QED BY <1>2, <1>3, <1>4

LEMMA CodesAndCallsKeep ==
  ASSUME GuessIInv, IInv', [Next]_vars
  PROVE  /\ call' \in [Requests -> Call] /\ codes' \in [Emails -> Seq(Row)]
         /\ GuessOK' /\ RowsAgree'
  <1>1. /\ codes \in [Emails -> Seq(Row)] /\ call \in [Requests -> Call]
        /\ RowsAgree /\ GuessOK
    BY DEF GuessIInv, TypeOK
  <1>2. CASE codes' = codes /\ call' = call
    BY <1>1, <1>2, AsTheyWere, GuessesStay
  <1>3. CASE Tick
    <2>1. call' = call
      BY <1>3 DEF Tick
    <2>2. /\ codes' \in [Emails -> Seq(Row)]
          /\ \A e \in Emails : \A i \in DOMAIN codes'[e] : \E j \in DOMAIN codes[e] :
                /\ codes'[e][i].id = codes[e][j].id
                /\ codes'[e][i].attempts = codes[e][j].attempts
      BY <1>1, <1>3, TickRows
    <2> QED BY <1>1, <2>1, <2>2, GuessesStay
  <1>4. ASSUME NEW r \in Requests, Serve(r)
        PROVE  /\ call' \in [Requests -> Call] /\ codes' \in [Emails -> Seq(Row)]
               /\ GuessOK' /\ RowsAgree'
    <2>1. CASE SendInsert(r)
      BY <1>1, <2>1, InsertRows, InsertKeeps
    <2>2. CASE VerifyWrong(r)
      BY <1>1, <2>2, WrongRows, WrongKeeps
    <2>3. CASE SendClear(r) \/ MailOk(r) \/ VerifyRight(r) \/ KeyWrite(r)
      BY <2>3, LoudKeeps
    <2>4. CASE \/ MailFail(r) \/ VerifyRightGone(r) \/ CreateConflict(r) \/ DatabaseError(r)
               \/ Complete(r) \/ GoogleLook(r) \/ GoogleLink(r) \/ GoogleCreate(r)
      BY <1>1, <2>4, SilentKeeps
    <2> QED BY <1>4, <2>1, <2>2, <2>3, <2>4 DEF Serve
  <1>5. ASSUME NEW r \in Requests, NEW e \in Emails,
               \/ SendCheck(r, e) \/ VerifyRead(r, e) \/ CompleteCheck(r, e) \/ KeyRead(r, e)
               \/ \E s \in Subs : GoogleRead(r, s, e)
        PROVE  /\ call' \in [Requests -> Call] /\ codes' \in [Emails -> Seq(Row)]
               /\ GuessOK' /\ RowsAgree'
    <2>1. CASE VerifyRead(r, e)
      <3>1. codes' = codes
        BY <2>1 DEF VerifyRead, codeVars
      <3> QED BY <1>1, <2>1, <3>1, ReadKeeps
    <2>2. CASE \/ SendCheck(r, e) \/ CompleteCheck(r, e) \/ KeyRead(r, e)
               \/ \E s \in Subs : GoogleRead(r, s, e)
      BY <1>1, <2>2, SilentKeeps
    <2> QED BY <1>5, <2>1, <2>2
  <1>6. CASE \/ UNCHANGED vars
             \/ \E e \in Emails : \/ Login(e) \/ AdminCreate(e)
                                  \/ \E status \in {"active", "suspended"} : AdminStatus(e, status)
             \/ \E s \in Subs : GoogleReturn(s)
    <2>1. codes' = codes /\ call' = call
      BY <1>6 DEF vars, Login, AdminCreate, AdminStatus, GoogleReturn, codeVars
    <2> QED BY <1>2, <2>1
  <1> QED BY <1>3, <1>4, <1>5, <1>6 DEF Next

LEMMA OthersTyped ==
  ASSUME GuessIInv, [Next]_vars
  PROVE  /\ consumed' \subseteq CodeIds
         /\ token' \in [Emails -> 0..TokenTTL]
         /\ session' \subseteq Emails
         /\ admin' \in 0..MaxAdmin /\ faults' \in 0..MaxFaults
  <1>1. TypeOK /\ TokenTTL \in Nat \ {0} /\ MaxAdmin \in Nat /\ MaxFaults \in Nat
    BY RegistrationAssumption DEF GuessIInv
  <1>2. \A r \in Requests : call[r] \in Call
    BY <1>1 DEF TypeOK
  <1>3. \A r \in Requests : call[r].pc # "idle" => call[r].email \in Emails
    BY <1>2, CallFields
  <1>4. consumed' \subseteq CodeIds
    <2>1. \A r \in Requests : VerifyRight(r) => call[r].id \in CodeIds
      BY <1>2, CallFields DEF VerifyRight
    <2>2. \/ consumed' = consumed
          \/ \E r \in Requests : VerifyRight(r) \/ DatabaseError(r)
      BY DEF Next, Serve, SendCheck, VerifyRead, CompleteCheck, KeyRead, GoogleRead,
             GoogleLook, SendClear, SendInsert, MailOk, MailFail, VerifyWrong, VerifyRightGone, Complete,
             CreateConflict, GoogleLink, GoogleCreate, KeyWrite, Login, AdminCreate,
             AdminStatus, GoogleReturn, Tick, codeVars, vars
    <2>3. consumed \subseteq CodeIds
      BY <1>1 DEF TypeOK
    <2>4. ASSUME NEW r \in Requests, VerifyRight(r) PROVE consumed' \subseteq CodeIds
      <3>1. consumed' \subseteq consumed \cup {call[r].id}
        BY <2>4 DEF VerifyRight
      <3> QED BY <2>1, <2>3, <2>4, <3>1
    <2>5. ASSUME NEW r \in Requests, DatabaseError(r) PROVE consumed' \subseteq CodeIds
      BY <2>3, <2>5 DEF DatabaseError
    <2> QED BY <2>2, <2>3, <2>4, <2>5
  <1>5. token' \in [Emails -> 0..TokenTTL]
    <2>1. \/ token' = token \/ Tick
          \/ \E r \in Requests : token' = [token EXCEPT ![call[r].email] = TokenTTL]
      BY DEF Next, Serve, SendCheck, VerifyRead, CompleteCheck, KeyRead, GoogleRead,
             GoogleLook, SendClear, SendInsert, MailOk, MailFail, VerifyWrong, VerifyRight,
             VerifyRightGone, Complete, CreateConflict, DatabaseError, GoogleLink,
             GoogleCreate, KeyWrite, Login, AdminCreate, AdminStatus, GoogleReturn,
             codeVars, vars
    <2>2. CASE Tick
      <3>1. token' = [e \in Emails |-> IF token[e] > 0 THEN token[e] - 1 ELSE 0]
        BY <2>2 DEF Tick
      <3>2. \A e \in Emails : token[e] \in 0..TokenTTL
        BY <1>1 DEF TypeOK
      <3>3. \A e \in Emails : (IF token[e] > 0 THEN token[e] - 1 ELSE 0) \in 0..TokenTTL
        BY <1>1, <3>2
      <3> QED BY <3>1, <3>3
    <2>3. ASSUME NEW r \in Requests, token' = [token EXCEPT ![call[r].email] = TokenTTL]
          PROVE  token' \in [Emails -> 0..TokenTTL]
      <3>1. TokenTTL \in 0..TokenTTL /\ token \in [Emails -> 0..TokenTTL]
        BY <1>1 DEF TypeOK
      <3> QED BY <2>3, <3>1
    <2> QED BY <1>1, <2>1, <2>2, <2>3 DEF TypeOK
  <1>6. session' \subseteq Emails
    <2>1. \/ session' = session
          \/ \E e \in Emails : session' = session \cup {e}
          \/ \E r \in Requests : /\ session' = session \cup {call[r].email}
                                 /\ call[r].pc \in {"complete", "create", "link"}
      BY DEF Next, Serve, SendCheck, VerifyRead, CompleteCheck, KeyRead, GoogleRead,
             GoogleLook, SendClear, SendInsert, MailOk, MailFail, VerifyWrong, VerifyRight,
             VerifyRightGone, Complete, CreateConflict, DatabaseError, GoogleLink,
             GoogleCreate, KeyWrite, Login, AdminCreate, AdminStatus, GoogleReturn, Tick,
             CreateUser, OwnersOf, userVars, vars
    <2> QED BY <1>1, <1>3, <2>1 DEF TypeOK
  <1>7. admin' \in 0..MaxAdmin /\ faults' \in 0..MaxFaults
    <2>1. /\ admin' = admin \/ (admin < MaxAdmin /\ admin' = admin + 1)
          /\ faults' = faults \/ (faults < MaxFaults /\ faults' = faults + 1)
      BY DEF Next, Serve, SendCheck, VerifyRead, CompleteCheck, KeyRead, GoogleRead,
             GoogleLook, SendClear, SendInsert, MailOk, MailFail, VerifyWrong, VerifyRight,
             VerifyRightGone, Complete, CreateConflict, DatabaseError, GoogleLink,
             GoogleCreate, KeyWrite, Login, AdminCreate, AdminStatus, GoogleReturn, Tick,
             Fault, Intervene, bounds, vars
    <2> QED BY <1>1, <2>1 DEF TypeOK
  <1> QED BY <1>4, <1>5, <1>6, <1>7

LEMMA GuessesKeep == GuessIInv /\ [Next]_vars => GuessIInv'
  <1> SUFFICES ASSUME GuessIInv, [Next]_vars PROVE GuessIInv'
    OBVIOUS
  <1>1. IInv'
    BY NextKeeps DEF GuessIInv
  <1>2. /\ call' \in [Requests -> Call] /\ codes' \in [Emails -> Seq(Row)]
        /\ GuessOK' /\ RowsAgree'
    BY <1>1, CodesAndCallsKeep
  <1>3. TypeOK'
    BY <1>1, <1>2, OthersTyped DEF TypeOK, IInv, UsersOK
  <1> QED BY <1>1, <1>2, <1>3 DEF GuessIInv

LEMMA GuessInvariant == Spec => []GuessIInv
  <1> QED BY GuessInit, GuessesKeep, PTL DEF Spec

(***************************************************************************)
(* Codes, tokens, users, calls and counters keep their types.              *)
(***************************************************************************)
THEOREM RegistrationTypeCorrect == Spec => []TypeOK
  <1>1. GuessIInv => TypeOK
    BY DEF GuessIInv
  <1> QED BY <1>1, GuessInvariant, PTL

(***************************************************************************)
(* A code stands MAX_CODE_ATTEMPTS guesses and at most one more for every  *)
(* other call that compares at the same time (verifyRegisterCode reads     *)
(* the count before the comparison and adds to it afterwards), for any     *)
(* number of calls, however codes are sent again, expire and are consumed. *)
(***************************************************************************)
THEOREM GuessesStayBounded == Spec => []GuessesAreBounded
  <1>1. GuessIInv => GuessesAreBounded
    <2> SUFFICES ASSUME GuessIInv, NEW e \in Emails, NEW i \in DOMAIN codes[e]
                 PROVE  codes[e][i].attempts < MaxCodeAttempts + Cardinality(Requests)
      BY DEF GuessesAreBounded
    <2>1. codes[e][i].attempts \in Nat
      BY RowFields DEF GuessIInv, TypeOK
    <2>2. codes[e][i].attempts + Cardinality(GuessingIn(call, e, codes[e][i].id))
             < MaxCodeAttempts + Cardinality(Requests)
      BY DEF GuessIInv, GuessOK, Guessing
    <2>3. /\ Cardinality(GuessingIn(call, e, codes[e][i].id)) \in Nat
          /\ Cardinality(Requests) \in Nat /\ MaxCodeAttempts \in Nat
      BY CountsGuesses
    <2> QED BY <2>1, <2>2, <2>3
  <1> QED BY <1>1, GuessInvariant, PTL

=============================================================================
