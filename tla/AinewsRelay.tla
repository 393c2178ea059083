----------------------------- MODULE AinewsRelay -----------------------------
(***************************************************************************)
(* The AI News subscription of one e-mail address: how the pings of        *)
(* Gumroad (GumroadService.handleAinewsRelayPing) and the visits of the    *)
(* signed-in reader (AinewsAccountService.resolveForEndUser) change the    *)
(* order, the platform subscription, the tier shown to the reader and the  *)
(* pending subscription, a row that keeps a purchase for an address which  *)
(* has not signed in.                                                      *)
(*                                                                         *)
(* Every statement outside of a transaction is a step of its own, so pings *)
(* and visits interleave between them and any of them may fail.  Gumroad   *)
(* repeats a ping until it is acknowledged, may repeat it after that, and  *)
(* keeps no order between the pings of a sale.                             *)
(***************************************************************************)
EXTENDS Integers

CONSTANTS
    Sales,              \* the sales of the address, of either plan
    NoSale,             \* no row, or no subscription
    Pings,              \* pings that can be handled at once
    Visits,             \* visits that can be served at once
    MaxCopies,          \* bound on pings that come after their acknowledgement
    MaxRelayFaults      \* bound on statements that fail

ASSUME RelayAssumption ==
    NoSale \notin Sales /\ MaxCopies \in Nat /\ MaxRelayFaults \in Nat

VARIABLES
    sale,               \* sale[s]: Gumroad's own record
    acked,              \* pings that were answered 'ok'
    copies,             \* pings that came again after that
    gumOrder,           \* gumOrder[s]: status of the order GUM-s
    credited,           \* credited[s]: grants that refer to the order
    undone,             \* sales whose order a cancellation reached
    member,             \* the address has a user (and a credit account)
    platformSub,        \* the subscription: its status and the sale it is of
    tier,               \* ainewsUserTier, as the sale whose plan it names
    pending,            \* the pending subscription
    ping,               \* ping[h]: a ping being handled
    visit,              \* visit[v]: a visit being served
    relayFaults         \* statements that failed so far

relayVars == <<sale, acked, copies, gumOrder, credited, undone, member, platformSub,
               tier, pending, ping, visit, relayFaults>>
gumroad == <<sale, acked, copies>>
books == <<gumOrder, credited, undone>>
reader == <<member, platformSub, tier>>

SaleOrNone == Sales \cup {NoSale}

\* What a ping says: a sale, the end of one as both parsers read it
\* ('cancelled', 'ended_at'), or an end that only isGumroadCancellation sees
\* ('subscription_cancelled_at', 'cancelled_at').  A ping with 'refunded' is
\* acknowledged by handlePing before it is routed here.
Kinds == {"bought", "ended", "endsLater"}

PingPCs == {"idle", "keep", "find", "create", "activate", "label", "read", "book",
            "cancel", "unsubscribe", "look", "close", "unlabel", "drop"}

RelayTypeOK ==
    /\ sale \in [Sales -> {"open", "sold", "over"}]
    /\ acked \subseteq Sales \X Kinds /\ copies \in 0..MaxCopies
    /\ gumOrder \in [Sales -> {"none", "paid", "undone"}]
    /\ credited \in [Sales -> Nat]
    /\ undone \subseteq Sales
    /\ member \in BOOLEAN
    /\ platformSub \in [status : {"none", "active", "cancelled"}, of : SaleOrNone]
    /\ tier \in SaleOrNone /\ pending \in SaleOrNone
    /\ ping \in [Pings -> [pc : PingPCs, sale : SaleOrNone, kind : Kinds,
                           found : BOOLEAN]]
    /\ visit \in [Visits -> [pc : {"idle", "merge", "delete"}, of : SaleOrNone]]
    /\ relayFaults \in 0..MaxRelayFaults

NoPing == [pc |-> "idle", sale |-> NoSale, kind |-> "bought", found |-> FALSE]
NoVisit == [pc |-> "idle", of |-> NoSale]

RelayInit ==
    /\ sale = [s \in Sales |-> "open"]
    /\ acked = {} /\ copies = 0
    /\ gumOrder = [s \in Sales |-> "none"]
    /\ credited = [s \in Sales |-> 0]
    /\ undone = {}
    /\ member = FALSE
    /\ platformSub = [status |-> "none", of |-> NoSale]
    /\ tier = NoSale /\ pending = NoSale
    /\ ping = [h \in Pings |-> NoPing]
    /\ visit = [v \in Visits |-> NoVisit]
    /\ relayFaults = 0

At(h, pc) == ping[h].pc = pc
Go(h, pc) == ping' = [ping EXCEPT ![h].pc = pc]

Answer(h) ==
    /\ acked' = acked \cup {<<ping[h].sale, ping[h].kind>>}
    /\ ping' = [ping EXCEPT ![h] = NoPing]

-----------------------------------------------------------------------------
\* The customer buys, and ends, a sale.
Buy(s) ==
    /\ sale[s] = "open"
    /\ sale' = [sale EXCEPT ![s] = "sold"]
    /\ UNCHANGED <<acked, copies, books, reader, pending, ping, visit, relayFaults>>

End(s) ==
    /\ sale[s] = "sold"
    /\ sale' = [sale EXCEPT ![s] = "over"]
    /\ UNCHANGED <<acked, copies, books, reader, pending, ping, visit, relayFaults>>

\* handleAinewsRelayPing; the product has a plan.
ReceivePing(h, s, kind) ==
    /\ At(h, "idle")
    /\ IF kind = "bought" THEN sale[s] # "open" ELSE sale[s] = "over"
    /\ ping' = [ping EXCEPT ![h] =
                  [pc |-> IF kind = "ended" THEN "cancel" ELSE "keep",
                   sale |-> s, kind |-> kind, found |-> FALSE]]
    /\ IF <<s, kind>> \in acked
       THEN copies < MaxCopies /\ copies' = copies + 1
       ELSE UNCHANGED copies
    /\ UNCHANGED <<sale, acked, books, reader, pending, visit, relayFaults>>

\* upsertPendingFromPing, whether or not the address has a user.
KeepPending(h) ==
    /\ At(h, "keep")
    /\ pending' = ping[h].sale
    /\ Go(h, IF ping[h].kind = "bought" THEN "find" ELSE "cancel")
    /\ UNCHANGED <<gumroad, books, reader, visit, relayFaults>>

\* findOrCreateEndUserByEmail: the look ...
FindMember(h) ==
    /\ At(h, "find")
    /\ Go(h, IF member THEN "activate" ELSE "create")
    /\ UNCHANGED <<gumroad, books, reader, pending, visit, relayFaults>>

\* ... and the transaction, which the unique address undoes if it is second.
CreateMember(h) ==
    /\ At(h, "create")
    /\ member' = TRUE
    /\ IF member THEN ping' = [ping EXCEPT ![h] = NoPing] ELSE Go(h, "activate")
    /\ UNCHANGED <<gumroad, books, platformSub, tier, pending, visit, relayFaults>>

\* upsertFromPing: the subscription ...
Activate(h) ==
    /\ At(h, "activate")
    /\ platformSub' = [status |-> "active", of |-> ping[h].sale]
    /\ Go(h, "label")
    /\ UNCHANGED <<gumroad, books, member, tier, pending, visit, relayFaults>>

\* ... and then the tier.
Label(h) ==
    /\ At(h, "label")
    /\ tier' = ping[h].sale
    /\ Go(h, "read")
    /\ UNCHANGED <<gumroad, books, member, platformSub, pending, visit, relayFaults>>

\* An error that is answered as if the ping had been handled.
ReadGumOrderAcks(h) ==
    /\ At(h, "read")
    /\ IF gumOrder[ping[h].sale] # "paid" /\ relayFaults < MaxRelayFaults
       THEN /\ ping' = [ping EXCEPT ![h].found = gumOrder[ping[h].sale] # "none",
                                    ![h].pc = "book"]
            /\ UNCHANGED acked
       ELSE Answer(h)
    /\ UNCHANGED <<sale, copies, books, reader, pending, visit, relayFaults>>

\* Only now the order is looked at: a paid one is a duplicate.
ReadGumOrder(h) ==
    /\ At(h, "read")
    /\ IF gumOrder[ping[h].sale] = "paid"
       THEN Answer(h)
       ELSE /\ ping' = [ping EXCEPT ![h] = [@ EXCEPT !.found = gumOrder[ping[h].sale] # "none",
                                                     !.pc = "book"]]
            /\ UNCHANGED acked
    /\ UNCHANGED <<sale, copies, books, reader, pending, visit, relayFaults>>

\* The same without the unique key on the order number.
BookGumOrderTwice(h) ==
    LET s == ping[h].sale
    IN  /\ At(h, "book")
        /\ gumOrder' = [gumOrder EXCEPT ![s] = "paid"]
        /\ credited' = [credited EXCEPT ![s] = @ + 1]
        /\ platformSub' = [status |-> "active", of |-> s]
        /\ Answer(h)
        /\ UNCHANGED <<sale, copies, undone, member, tier, pending, visit, relayFaults>>

\* The transaction: the order is created or updated, the subscription renewed
\* and the credits granted.
BookGumOrder(h) ==
    LET s == ping[h].sale
    IN  /\ At(h, "book")
        /\ ping[h].found \/ gumOrder[s] = "none"
        /\ gumOrder' = [gumOrder EXCEPT ![s] = "paid"]
        /\ credited' = [credited EXCEPT ![s] = @ + 1]
        /\ platformSub' = [status |-> "active", of |-> s]
        /\ Answer(h)
        /\ UNCHANGED <<sale, copies, undone, member, tier, pending, visit, relayFaults>>

\* Another copy created the order: the transaction fails on its number.
BookConflict(h) ==
    /\ At(h, "book")
    /\ ~ping[h].found /\ gumOrder[ping[h].sale] # "none"
    /\ ping' = [ping EXCEPT ![h] = NoPing]
    /\ UNCHANGED <<gumroad, books, reader, pending, visit, relayFaults>>

-----------------------------------------------------------------------------
\* applyAinewsCancellation: the user is read and the order updated ...
CancelOrder(h) ==
    LET s == ping[h].sale
    IN  /\ At(h, "cancel")
        /\ IF gumOrder[s] = "none" THEN UNCHANGED <<gumOrder, undone>>
           ELSE /\ gumOrder' = [gumOrder EXCEPT ![s] = "undone"]
                /\ undone' = undone \cup {s}
        /\ Go(h, IF member THEN "unsubscribe" ELSE "look")
        /\ UNCHANGED <<gumroad, credited, reader, pending, visit, relayFaults>>

\* ... and an active subscription cancelled, of whichever sale it is.
Unsubscribe(h) ==
    /\ At(h, "unsubscribe")
    /\ platformSub' = [platformSub EXCEPT
                         !.status = IF @ = "active" THEN "cancelled" ELSE @]
    /\ Go(h, "look")
    /\ UNCHANGED <<gumroad, books, member, tier, pending, visit, relayFaults>>

LookForMember(h) ==
    /\ At(h, "look")
    /\ Go(h, IF member THEN "close" ELSE "drop")
    /\ UNCHANGED <<gumroad, books, reader, pending, visit, relayFaults>>

\* upsertFromPing with deactivate: the subscription, then the tier.
Close(h) ==
    /\ At(h, "close")
    /\ platformSub' = [status |-> "cancelled", of |-> ping[h].sale]
    /\ Go(h, "unlabel")
    /\ UNCHANGED <<gumroad, books, member, tier, pending, visit, relayFaults>>

Unlabel(h) ==
    /\ At(h, "unlabel")
    /\ tier' = NoSale
    /\ Answer(h)
    /\ UNCHANGED <<sale, copies, books, member, platformSub, pending, visit, relayFaults>>

\* Without a user only the pending subscription is deleted.
DropPending(h) ==
    /\ At(h, "drop")
    /\ pending' = NoSale
    /\ Answer(h)
    /\ UNCHANGED <<sale, copies, books, reader, visit, relayFaults>>

\* A statement fails: Gumroad gets an error, what was written stays.
PingError(h) ==
    /\ ~At(h, "idle")
    /\ relayFaults < MaxRelayFaults /\ relayFaults' = relayFaults + 1
    /\ ping' = [ping EXCEPT ![h] = NoPing]
    /\ UNCHANGED <<gumroad, books, reader, pending, visit>>

-----------------------------------------------------------------------------
\* The reader registers or signs in with Google.
SignUp ==
    /\ ~member /\ member' = TRUE
    /\ UNCHANGED <<gumroad, books, platformSub, tier, pending, ping, visit, relayFaults>>

\* mergePendingForEmail: a pending subscription is read, ...
StartVisit(v) ==
    /\ visit[v].pc = "idle"
    /\ member /\ pending # NoSale
    /\ visit' = [visit EXCEPT ![v] = [pc |-> "merge", of |-> pending]]
    /\ UNCHANGED <<gumroad, books, reader, pending, ping, relayFaults>>

\* ... made the subscription, ...
MergePending(v) ==
    /\ visit[v].pc = "merge"
    /\ platformSub' = [status |-> "active", of |-> visit[v].of]
    /\ visit' = [visit EXCEPT ![v].pc = "delete"]
    /\ UNCHANGED <<gumroad, books, member, tier, pending, ping, relayFaults>>

\* A merge that leaves the row behind.
DeletePendingNot(v) ==
    /\ visit[v].pc = "delete"
    /\ visit' = [visit EXCEPT ![v] = NoVisit]
    /\ UNCHANGED <<gumroad, books, reader, pending, ping, relayFaults>>

\* ... and deleted by address, whatever it is by then; the delete fails, and
\* the visit with it, when the row is gone.
DeletePending(v) ==
    /\ visit[v].pc = "delete"
    /\ pending' = NoSale
    /\ visit' = [visit EXCEPT ![v] = NoVisit]
    /\ UNCHANGED <<gumroad, books, reader, ping, relayFaults>>

HandlePing(h) ==
    \/ KeepPending(h) \/ FindMember(h) \/ CreateMember(h) \/ Activate(h) \/ Label(h)
    \/ ReadGumOrder(h) \/ BookGumOrder(h) \/ BookConflict(h)
    \/ CancelOrder(h) \/ Unsubscribe(h) \/ LookForMember(h)
    \/ Close(h) \/ Unlabel(h) \/ DropPending(h)

ServeVisit(v) == MergePending(v) \/ DeletePending(v)

RelayNext ==
    \/ \E s \in Sales : Buy(s) \/ End(s)
    \/ \E h \in Pings :
          \/ \E s \in Sales, kind \in Kinds : ReceivePing(h, s, kind)
          \/ HandlePing(h) \/ PingError(h)
    \/ SignUp
    \/ \E v \in Visits : StartVisit(v) \/ ServeVisit(v)

RelaySpec == RelayInit /\ [][RelayNext]_relayVars

\* Requests are served, Gumroad sends a purchase again as long as it is not
\* acknowledged, and the extension asks for the tier now and then.
RelayFairness ==
    /\ \A h \in Pings : WF_relayVars(HandlePing(h))
    /\ \A s \in Sales :
          SF_relayVars(/\ <<s, "bought">> \notin acked
                       /\ \E h \in Pings : ReceivePing(h, s, "bought"))
    /\ \A v \in Visits : WF_relayVars(ServeVisit(v))
    /\ SF_relayVars(\E v \in Visits : StartVisit(v))

FairRelaySpec == RelaySpec /\ RelayFairness

-----------------------------------------------------------------------------
(***************************************************************************)
(* The credits of a sale are granted once, however its pings repeat and    *)
(* overlap and wherever they fail, as long as no cancellation has reached  *)
(* its order: a copy of the purchase that is handled after one finds the   *)
(* order not paid and books it again.                                      *)
(***************************************************************************)
SaleIsGrantedOnce == \A s \in Sales \ undone : credited[s] <= 1

(***************************************************************************)
(* Gumroad stops repeating a purchase only when its order and credits are  *)
(* booked, although the subscription is written before the order is looked *)
(* at.                                                                     *)
(***************************************************************************)
AckedPurchaseIsBooked == \A s \in Sales : <<s, "bought">> \in acked => credited[s] > 0

\* What Gumroad sells is booked, once, before it stops asking.
SalesAreBooked == SaleIsGrantedOnce /\ AckedPurchaseIsBooked

(***************************************************************************)
(* Every purchase is booked in the end, also when statements fail and two  *)
(* copies or a cancellation interfere.                                     *)
(***************************************************************************)
PurchaseArrives == \A s \in Sales : sale[s] = "sold" ~> credited[s] > 0

(***************************************************************************)
(* A purchase that waits for its reader does not wait for ever: once the   *)
(* address has a user and no ping is being handled, the row is merged and  *)
(* goes.                                                                   *)
(***************************************************************************)
PendingIsMerged ==
    member /\ pending # NoSale ~> pending = NoSale \/ \E h \in Pings : ~At(h, "idle")

(***************************************************************************)
(* What README.md of the module says of pending_subscriptions (line 38:    *)
(* the pings from before the sign-in are kept there).  A purchase of a     *)
(* reader who has a user leaves a row too, a cancellation does not delete  *)
(* it then, and the next visit makes the cancelled subscription active.    *)
(***************************************************************************)
PendingIsBeforeSignIn ==
    [][(\E v \in Visits : MergePending(v)) => platformSub.status # "cancelled"]_relayVars
=============================================================================
