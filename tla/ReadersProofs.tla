----------------------------- MODULE ReadersProofs -----------------------------
(***************************************************************************)
(* Proofs about the readers of AI News: their purchases (AinewsRelay), the *)
(* guests they were (AinewsGuests) and the mails they get (AinewsDigest),  *)
(* for any number of sales, calls, guests and readers at once and without  *)
(* the bounds of the runs.                                                 *)
(***************************************************************************)
EXTENDS AinewsRelay, AinewsGuests, AinewsDigest, Sums, FiniteSetTheorems, TLAPS


-----------------------------------------------------------------------------
\* What makes the properties inductive.  An order that was never undone was
\* credited exactly as often as it is paid ...
OrdersOK ==
    \A s \in Sales :
        /\ gumOrder[s] = "none" => credited[s] = 0
        /\ gumOrder[s] # "none" => credited[s] > 0
        /\ s \notin undone => gumOrder[s] # "undone" /\ credited[s] <= 1

\* ... a ping that goes on to book an order it found saw one that was undone,
\* and only the pings of purchases take the way that ends in the booking.
Booking == {"find", "create", "activate", "label", "read", "book"}

PingOK(h) ==
    /\ ping[h].pc # "idle" => ping[h].sale \in Sales
    /\ ping[h].pc \in Booking => ping[h].kind = "bought"
    /\ ping[h].kind = "bought" => ping[h].pc \in Booking \cup {"idle", "keep"}
    /\ ping[h].pc = "book" /\ ping[h].found => ping[h].sale \in undone

PingsOK == \A h \in Pings : PingOK(h)

RelayIInv == RelayTypeOK /\ OrdersOK /\ PingsOK /\ AckedPurchaseIsBooked

\* The records of the type invariant, by name.
PingRecords == [pc : PingPCs, sale : SaleOrNone, kind : Kinds, found : BOOLEAN]
VisitRecords == [pc : {"idle", "merge", "delete"}, of : SaleOrNone]

LEMMA RecordTypes ==
  /\ NoPing \in PingRecords
  /\ NoVisit \in VisitRecords
  /\ \A p \in PingRecords, pc \in PingPCs, f \in BOOLEAN :
        /\ [p EXCEPT !.pc = pc] \in PingRecords
        /\ [p EXCEPT !.found = f, !.pc = pc] \in PingRecords
  <1>1. NoPing \in PingRecords
    BY Zenon DEF PingRecords, NoPing, PingPCs, SaleOrNone, Kinds
  <1>2. NoVisit \in VisitRecords
    BY DEF VisitRecords, NoVisit, SaleOrNone
  <1>3. ASSUME NEW p \in PingRecords, NEW pc \in PingPCs, NEW f \in BOOLEAN
        PROVE  /\ [p EXCEPT !.pc = pc] \in PingRecords
               /\ [p EXCEPT !.found = f, !.pc = pc] \in PingRecords
    BY <1>3 DEF PingRecords
  <1> QED BY <1>1, <1>2, <1>3

\* A ping that is done leaves an idle record, and the others as they were.
LEMMA ResetKeeps ==
  ASSUME RelayTypeOK, PingsOK, NEW h \in Pings, ping' = [ping EXCEPT ![h] = NoPing],
         undone' = undone
  PROVE  /\ ping' \in [Pings -> [pc : PingPCs, sale : SaleOrNone, kind : Kinds,
                                 found : BOOLEAN]]
         /\ PingsOK'
  <1>1. ping \in [Pings -> PingRecords]
    BY DEF RelayTypeOK, PingRecords
  <1>2. ping' \in [Pings -> PingRecords]
    BY <1>1, RecordTypes
  <1>3. ASSUME NEW g \in Pings PROVE PingOK(g)'
    <2>1. CASE g = h
      BY <1>1, <2>1 DEF PingOK, NoPing, Booking
    <2>2. CASE g # h
      <3>1. ping'[g] = ping[g]
        BY <1>1, <2>2
      <3> QED BY <3>1 DEF PingsOK, PingOK
    <2> QED BY <2>1, <2>2
  <1> QED BY <1>2, <1>3 DEF PingRecords, PingsOK

LEMMA RelayInitOK == RelayInit => RelayIInv
  <1> SUFFICES ASSUME RelayInit PROVE RelayIInv
    OBVIOUS
  <1>1. ping \in [Pings -> PingRecords] /\ visit \in [Visits -> VisitRecords]
    BY RecordTypes DEF RelayInit
  <1>2. /\ ping \in [Pings -> [pc : PingPCs, sale : SaleOrNone, kind : Kinds,
                               found : BOOLEAN]]
        /\ visit \in [Visits -> [pc : {"idle", "merge", "delete"}, of : SaleOrNone]]
    BY <1>1 DEF PingRecords, VisitRecords
  <1>3. RelayTypeOK
    <2>1. copies \in 0..MaxCopies /\ relayFaults \in 0..MaxRelayFaults
      BY RelayAssumption DEF RelayInit
    <2>2. member \in BOOLEAN
      BY Zenon DEF RelayInit
    <2>3. /\ sale \in [Sales -> {"open", "sold", "over"}]
          /\ acked \subseteq Sales \X Kinds
          /\ gumOrder \in [Sales -> {"none", "paid", "undone"}]
          /\ credited \in [Sales -> Nat]
          /\ undone \subseteq Sales
      BY DEF RelayInit
    <2>4. /\ platformSub \in [status : {"none", "active", "cancelled"}, of : SaleOrNone]
          /\ tier \in SaleOrNone /\ pending \in SaleOrNone
      BY DEF RelayInit, SaleOrNone
    <2> QED BY <1>2, <2>1, <2>2, <2>3, <2>4 DEF RelayTypeOK
  <1>4. OrdersOK /\ PingsOK /\ AckedPurchaseIsBooked
    BY DEF RelayInit, OrdersOK, PingsOK, PingOK, AckedPurchaseIsBooked, NoPing, Booking
  <1> QED BY <1>3, <1>4 DEF RelayIInv

\* The customer, the reader and the visits touch no order and no ping.
LEMMA OthersKeep ==
  ASSUME RelayIInv,
         \/ \E s \in Sales : Buy(s) \/ End(s)
         \/ SignUp
         \/ \E v \in Visits : StartVisit(v) \/ ServeVisit(v)
  PROVE  RelayIInv'
  <1>1. UNCHANGED <<gumOrder, credited, undone, ping, acked>>
    BY DEF Buy, End, SignUp, StartVisit, ServeVisit, MergePending, DeletePending, books,
           gumroad
  <1>2. RelayTypeOK'
    <2>1. CASE \E s \in Sales : Buy(s) \/ End(s)
      BY <2>1 DEF RelayIInv, RelayTypeOK, Buy, End, books, reader
    <2>2. CASE SignUp
      BY <2>2 DEF RelayIInv, RelayTypeOK, SignUp, books, gumroad
    <2>3. ASSUME NEW v \in Visits, StartVisit(v)
          PROVE  RelayTypeOK'
      BY <2>3 DEF RelayIInv, RelayTypeOK, StartVisit, SaleOrNone, books, reader, gumroad
    <2>4. ASSUME NEW v \in Visits, MergePending(v)
          PROVE  RelayTypeOK'
      BY <2>4 DEF RelayIInv, RelayTypeOK, MergePending, SaleOrNone, books, gumroad
    <2>5. ASSUME NEW v \in Visits, DeletePending(v)
          PROVE  RelayTypeOK'
      BY <2>5, RecordTypes
      DEF RelayIInv, RelayTypeOK, DeletePending, SaleOrNone, VisitRecords, books, reader, gumroad
    <2> QED BY <2>1, <2>2, <2>3, <2>4, <2>5 DEF ServeVisit
  <1> QED BY <1>1, <1>2 DEF RelayIInv, OrdersOK, PingsOK, PingOK, AckedPurchaseIsBooked

\* A ping on its way changes its own record, and of the orders at most the
\* one it is about.
LEMMA ReceiveKeeps ==
  ASSUME RelayIInv, NEW h \in Pings, NEW s \in Sales, NEW kind \in Kinds,
         ReceivePing(h, s, kind)
  PROVE  RelayIInv'
  BY RelayAssumption
  DEF RelayIInv, RelayTypeOK, OrdersOK, PingsOK, PingOK, AckedPurchaseIsBooked, ReceivePing,
      At, SaleOrNone, PingPCs, Kinds, Booking, books, reader

\* The steps that only write down what the reader sees, and those that fail.
LEMMA PassingKeeps ==
  ASSUME RelayIInv, NEW h \in Pings,
         \/ KeepPending(h) \/ FindMember(h) \/ CreateMember(h) \/ Activate(h)
         \/ Label(h) \/ BookConflict(h) \/ Unsubscribe(h) \/ LookForMember(h)
         \/ Close(h) \/ PingError(h)
  PROVE  RelayIInv'
  <1>1. UNCHANGED <<gumOrder, credited, undone, acked>>
    BY DEF KeepPending, FindMember, CreateMember, Activate, Label, BookConflict,
           Unsubscribe, LookForMember, Close, PingError, books, gumroad
  <1>2. /\ RelayTypeOK'
        /\ PingsOK'
    <2>1. CASE KeepPending(h)
      BY <2>1, RelayAssumption
      DEF RelayIInv, RelayTypeOK, PingsOK, PingOK, KeepPending, At, Go, SaleOrNone, PingPCs,
          Booking, Kinds, books, reader, gumroad
    <2>2. CASE FindMember(h)
      BY <2>2, RelayAssumption
      DEF RelayIInv, RelayTypeOK, PingsOK, PingOK, FindMember, At, Go, SaleOrNone, PingPCs,
          Booking, Kinds, books, reader, gumroad
    <2>6. CASE CreateMember(h)
      <3>1. member' \in BOOLEAN
        BY <2>6, Zenon DEF CreateMember
      <3>2. CASE member
        <4>1. /\ ping' = [ping EXCEPT ![h] = NoPing]
              /\ UNCHANGED <<gumroad, books, platformSub, tier, pending, visit, relayFaults>>
          BY <2>6, <3>2 DEF CreateMember
        <4> QED BY <3>1, <4>1, ResetKeeps DEF RelayIInv, RelayTypeOK, books, gumroad
      <3>3. CASE ~member
        BY <2>6, <3>1, <3>3, SMTT(30)
        DEF RelayIInv, RelayTypeOK, PingsOK, PingOK, CreateMember, At, Go, SaleOrNone, PingPCs,
            Booking, Kinds, books, gumroad
      <3> QED BY <3>2, <3>3
    <2>3. CASE Activate(h)
      BY <2>3, RelayAssumption, SMTT(30)
      DEF RelayIInv, RelayTypeOK, PingsOK, PingOK, Activate, At, Go, SaleOrNone, PingPCs,
          Booking, Kinds, books, reader, gumroad
    <2>7. CASE Label(h)
      BY <2>7, RelayAssumption, SMTT(30)
      DEF RelayIInv, RelayTypeOK, PingsOK, PingOK, Label, At, Go, SaleOrNone, PingPCs,
          Booking, Kinds, books, reader, gumroad
    <2>4. CASE BookConflict(h) \/ PingError(h)
      <3>1. /\ ping' = [ping EXCEPT ![h] = NoPing]
            /\ UNCHANGED <<gumroad, books, reader, pending, visit>>
            /\ relayFaults' \in 0..MaxRelayFaults
        BY <2>4, RelayAssumption DEF BookConflict, PingError, RelayIInv, RelayTypeOK
      <3> QED BY <3>1, ResetKeeps DEF RelayIInv, RelayTypeOK, books, reader, gumroad
    <2>5. CASE Unsubscribe(h) \/ LookForMember(h) \/ Close(h)
      BY <2>5, RelayAssumption, SMTT(30)
      DEF RelayIInv, RelayTypeOK, PingsOK, PingOK, Unsubscribe, LookForMember, Close, At, Go,
          SaleOrNone, PingPCs, Booking, Kinds, books, reader, gumroad
    <2> QED BY <2>1, <2>2, <2>3, <2>4, <2>5, <2>6, <2>7
  <1> QED BY <1>1, <1>2 DEF RelayIInv, OrdersOK, AckedPurchaseIsBooked

\* The end of a cancellation is acknowledged; it says nothing of a purchase.
LEMMA ClosingKeeps ==
  ASSUME RelayIInv, NEW h \in Pings, Unlabel(h) \/ DropPending(h)
  PROVE  RelayIInv'
  <1>1. /\ UNCHANGED <<gumOrder, credited, undone>>
        /\ ping[h].kind # "bought"
        /\ ping[h].sale \in Sales
        /\ Answer(h)
    BY DEF Unlabel, DropPending, At, books, RelayIInv, PingsOK, PingOK, Booking
  <1>2. RelayTypeOK'
    BY <1>1, RelayAssumption
    DEF RelayIInv, RelayTypeOK, Unlabel, DropPending, Answer, NoPing, SaleOrNone, PingPCs,
        Kinds, books, reader
  <1>3. PingsOK' /\ AckedPurchaseIsBooked'
    BY <1>1, RelayAssumption
    DEF RelayIInv, RelayTypeOK, PingsOK, PingOK, AckedPurchaseIsBooked, Answer, NoPing, Booking
  <1> QED BY <1>1, <1>2, <1>3 DEF RelayIInv, OrdersOK

\* The look at the order: a paid one was credited, and any other that is
\* found was undone.
LEMMA ReadKeeps ==
  ASSUME RelayIInv, NEW h \in Pings, ReadGumOrder(h)
  PROVE  RelayIInv'
  <1>1. UNCHANGED <<gumOrder, credited, undone>>
    BY DEF ReadGumOrder, books
  <1>2. RelayTypeOK'
    <2>1. CASE gumOrder[ping[h].sale] = "paid"
      <3>1. /\ ping' = [ping EXCEPT ![h] = NoPing]
            /\ acked' = acked \cup {<<ping[h].sale, ping[h].kind>>}
            /\ UNCHANGED <<sale, copies, books, reader, pending, visit, relayFaults>>
        BY <2>1 DEF ReadGumOrder, Answer
      <3>2. ping[h].sale \in Sales /\ ping[h].kind \in Kinds
        BY DEF RelayIInv, RelayTypeOK, PingsOK, PingOK, ReadGumOrder, At
      <3>3. undone' = undone
        BY <3>1 DEF books
      <3>4. /\ ping' \in [Pings -> [pc : PingPCs, sale : SaleOrNone, kind : Kinds,
                                    found : BOOLEAN]]
        BY <3>1, <3>3, ResetKeeps DEF RelayIInv
      <3>5. acked' \subseteq Sales \X Kinds
        BY <3>1, <3>2 DEF RelayIInv, RelayTypeOK
      <3> QED BY <3>1, <3>4, <3>5 DEF RelayIInv, RelayTypeOK, books, reader
    <2>2. CASE gumOrder[ping[h].sale] # "paid"
      <3> DEFINE seen == [ping[h] EXCEPT !.found = gumOrder[ping[h].sale] # "none",
                                         !.pc = "book"]
      <3>1. ping[h] \in PingRecords /\ "book" \in PingPCs
        BY DEF RelayIInv, RelayTypeOK, PingRecords, PingPCs
      <3>2. (gumOrder[ping[h].sale] # "none") \in BOOLEAN
        OBVIOUS
      <3>3. seen \in PingRecords
        BY <3>1, <3>2, RecordTypes, Zenon
      <3>4. /\ ping' = [ping EXCEPT ![h] = seen]
            /\ UNCHANGED <<sale, acked, copies, books, reader, pending, visit, relayFaults>>
        BY <2>2, Zenon DEF ReadGumOrder
      <3> HIDE DEF seen
      <3>5. ping' \in [Pings -> PingRecords]
        BY <3>3, <3>4 DEF RelayIInv, RelayTypeOK, PingRecords
      <3> QED BY <3>4, <3>5 DEF RelayIInv, RelayTypeOK, PingRecords, books, reader
    <2> QED BY <2>1, <2>2
  <1>3. PingsOK'
    <2>1. CASE gumOrder[ping[h].sale] = "paid"
      <3>1. ping' = [ping EXCEPT ![h] = NoPing] /\ undone' = undone
        BY <2>1, <1>1 DEF ReadGumOrder, Answer
      <3> QED BY <3>1, ResetKeeps DEF RelayIInv
    <2>2. CASE gumOrder[ping[h].sale] # "paid"
      <3> DEFINE seen == [ping[h] EXCEPT !.found = gumOrder[ping[h].sale] # "none",
                                         !.pc = "book"]
      <3>1. ping' = [ping EXCEPT ![h] = seen]
        BY <2>2, Zenon DEF ReadGumOrder
      <3>2. /\ seen.pc = "book" /\ seen.sale = ping[h].sale /\ seen.kind = ping[h].kind
            /\ seen.found = (gumOrder[ping[h].sale] # "none")
        BY DEF RelayIInv, RelayTypeOK
      <3>3. /\ ping[h].sale \in Sales /\ ping[h].kind = "bought"
            /\ gumOrder[ping[h].sale] # "none" => ping[h].sale \in undone
        BY <2>2 DEF RelayIInv, RelayTypeOK, OrdersOK, PingsOK, PingOK, ReadGumOrder, At, Booking
      <3> HIDE DEF seen
      <3>4. ASSUME NEW g \in Pings PROVE PingOK(g)'
        <4>1. CASE g = h
          <5>1. ping'[g] = seen
            BY <3>1, <4>1 DEF RelayIInv, RelayTypeOK
          <5> QED BY <1>1, <3>2, <3>3, <5>1 DEF PingOK, Booking
        <4>2. CASE g # h
          <5>1. ping'[g] = ping[g]
            BY <3>1, <4>2 DEF RelayIInv, RelayTypeOK
          <5> QED BY <1>1, <5>1 DEF RelayIInv, PingsOK, PingOK
        <4> QED BY <4>1, <4>2
      <3> QED BY <3>4 DEF PingsOK
    <2> QED BY <2>1, <2>2
  <1>4. AckedPurchaseIsBooked'
    BY DEF RelayIInv, RelayTypeOK, OrdersOK, PingsOK, PingOK, AckedPurchaseIsBooked,
           ReadGumOrder, Answer, At, books
  <1> QED BY <1>1, <1>2, <1>3, <1>4 DEF RelayIInv, OrdersOK

\* The booking: of an order nobody had made, or of one that was undone.
LEMMA BookKeeps ==
  ASSUME RelayIInv, NEW h \in Pings, BookGumOrder(h)
  PROVE  RelayIInv'
  <1>1. ping[h].sale \in Sales
    BY DEF BookGumOrder, At, RelayIInv, PingsOK, PingOK
  <1>2. RelayTypeOK'
    BY <1>1, RelayAssumption
    DEF RelayIInv, RelayTypeOK, BookGumOrder, Answer, NoPing, SaleOrNone, PingPCs, Kinds
  <1>3. OrdersOK'
    BY <1>1 DEF RelayIInv, RelayTypeOK, OrdersOK, PingsOK, PingOK, BookGumOrder, At
  <1>4. PingsOK'
    BY RelayAssumption
    DEF RelayIInv, RelayTypeOK, PingsOK, PingOK, BookGumOrder, Answer, NoPing, Booking
  <1>5. AckedPurchaseIsBooked'
    BY <1>1 DEF RelayIInv, RelayTypeOK, AckedPurchaseIsBooked, BookGumOrder, Answer
  <1> QED BY <1>2, <1>3, <1>4, <1>5 DEF RelayIInv

\* A cancellation marks the order it undoes.
LEMMA CancelKeeps ==
  ASSUME RelayIInv, NEW h \in Pings, CancelOrder(h)
  PROVE  RelayIInv'
  <1>1. ping[h].sale \in Sales /\ ping[h].kind # "bought"
    BY DEF CancelOrder, At, RelayIInv, PingsOK, PingOK, Booking
  <1>2. RelayTypeOK' /\ PingsOK'
    BY <1>1, RelayAssumption
    DEF RelayIInv, RelayTypeOK, PingsOK, PingOK, CancelOrder, Go, At, SaleOrNone, PingPCs,
        Kinds, Booking, reader, gumroad
  <1>3. OrdersOK' /\ AckedPurchaseIsBooked'
    BY <1>1 DEF RelayIInv, RelayTypeOK, OrdersOK, AckedPurchaseIsBooked, CancelOrder, gumroad
  <1> QED BY <1>2, <1>3 DEF RelayIInv

LEMMA RelayNextOK == RelayIInv /\ [RelayNext]_relayVars => RelayIInv'
  <1> SUFFICES ASSUME RelayIInv, [RelayNext]_relayVars PROVE RelayIInv'
    OBVIOUS
  <1>1. CASE UNCHANGED relayVars
    BY <1>1 DEF relayVars, RelayIInv, RelayTypeOK, OrdersOK, PingsOK, PingOK,
                AckedPurchaseIsBooked
  <1>2. CASE RelayNext
    BY <1>2, OthersKeep, ReceiveKeeps, PassingKeeps, ClosingKeeps, ReadKeeps, BookKeeps,
       CancelKeeps
    DEF RelayNext, HandlePing
  <1> QED BY <1>1, <1>2

-----------------------------------------------------------------------------
\* The invariant holds of every reachable state.
THEOREM RelayInvariant == RelaySpec => []RelayIInv
  BY RelayInitOK, RelayNextOK, PTL DEF RelaySpec

\* Rows, pings and visits only hold the values they can have.
THEOREM RelayTypeCorrect == RelaySpec => []RelayTypeOK
  BY RelayInvariant, PTL DEF RelayIInv

\* A sale whose order no cancellation reached is credited once at most, and
\* Gumroad hears 'ok' of a purchase only when it is credited.
THEOREM SalesAreBookedOnce == RelaySpec => []SalesAreBooked
  <1>1. RelayIInv => SalesAreBooked
    BY DEF RelayIInv, OrdersOK, SalesAreBooked, SaleIsGrantedOnce
  <1> QED BY <1>1, RelayInvariant, PTL

-----------------------------------------------------------------------------
\* What makes WorkIsKept inductive.  Only guests are listed; a call that merges
\* has a guest of its list and a target that is not on it; the target is there while its row is
\* locked.
CallFits(call, rows) ==
    /\ ~ AsGuest(call) => call.to = Reader
    /\ call.pc = "list" => AsGuest(call)
    /\ call.pc \in {"lock", "copy", "move"} =>
          call.id \in call.dups /\ call.to \in Ids \ call.dups
    /\ call.pc \in {"copy", "move"} => call.to \in rows \cup {Reader}
    /\ call.pc \in {"read", "write"} => call.id \in Ids

\* What a merge has read is still there ...
UsageStands(call) == call.pc = "move" => call.seenUsage = usage[call.id]

\* ... and nobody writes a like to a guest that was merged away.
LikesStand(call) ==
    /\ call.pc = "move" => call.seenLikes = likes[call.id]
    /\ call.pc \in {"read", "write"} /\ call.deed = "like" => call.id \notin retired

\* When merges cross, a merge has not read more than there is, unless the
\* other one took it all.
LikesCover(call) ==
    /\ call.pc = "move" =>
          \/ call.seenLikes <= likes[call.id]
          \/ call.id \in retired /\ likes[call.id] = 0
    /\ call.pc = "write" /\ call.deed = "like" /\ call.seenLikes = 0 =>
          likes[call.id] <= 1

CallsFit == \A c \in Calls : CallFits(guestCall[c], guests)

UsageOK ==
    crossed \cap {"merge", "ask"} = {} =>
        /\ SumFunction(usage) = asked
        /\ \A c \in Calls : UsageStands(guestCall[c])

LikesOK ==
    crossed \cap {"merge", "like"} = {} =>
        /\ SumFunction(likes) = liked
        /\ \A g \in retired : likes[g] = 0
        /\ \A c \in Calls : LikesStand(guestCall[c])

CoverOK ==
    "like" \notin crossed =>
        /\ SumFunction(likes) <= liked
        /\ \A c \in Calls : LikesCover(guestCall[c])

GuestsIInv == GuestsTypeOK /\ CallsFit /\ UsageOK /\ LikesOK /\ CoverOK

LEMMA GuestsInitOK == GuestsInit => GuestsIInv
  <1> SUFFICES ASSUME GuestsInit PROVE GuestsIInv
    OBVIOUS
  <1>1. NoCall \in Call /\ NoCall.pc = "idle" /\ NoCall.as = "guest"
    BY DEF NoCall, Call, IdOrNone
  <1>2. guestCall \in [Calls -> Call] /\ \A c \in Calls : guestCall[c] = NoCall
    BY <1>1 DEF GuestsInit
  <1>3. GuestsTypeOK
    BY <1>2 DEF GuestsInit, GuestsTypeOK
  <1>4. IsFiniteSet(Ids)
    BY GuestsAssumption, FS_AddElement DEF Ids
  <1>5. /\ usage \in [Ids -> Int] /\ likes \in [Ids -> Int]
        /\ \A x \in Ids : usage[x] = 0 /\ likes[x] = 0
    BY DEF GuestsInit
  <1>6. SumFunction(usage) = 0 /\ SumFunction(likes) = 0
    BY <1>4, <1>5, SumOfZeros
  <1>7. CallsFit
    BY <1>1, <1>2 DEF CallsFit, CallFits, AsGuest
  <1>8. UsageOK /\ LikesOK /\ CoverOK
    BY <1>1, <1>2, <1>6 DEF GuestsInit, UsageOK, LikesOK, CoverOK, UsageStands, LikesStand,
                            LikesCover
  <1> QED BY <1>3, <1>7, <1>8 DEF GuestsIInv

-----------------------------------------------------------------------------
\* A call goes on: guests are made and found, and nothing is counted.
LEMMA CallGoesOn ==
  ASSUME GuestsIInv, NEW c \in Calls, NEW new \in Call, Now(c, new),
         UNCHANGED <<retired, deeds, crossed>>, guests \subseteq guests',
         guests' \subseteq Guests \ retired, latest' \in guests' \cup {NoId},
         guests' # {} => latest' # NoId, linked' \in BOOLEAN,
         CallFits(new, guests'),
         crossed \cap {"merge", "ask"} = {} => UsageStands(new),
         crossed \cap {"merge", "like"} = {} => LikesStand(new),
         "like" \notin crossed => LikesCover(new)
  PROVE  GuestsIInv'
  <1>1. guestCall \in [Calls -> Call]
    BY DEF GuestsIInv, GuestsTypeOK
  <1>2. /\ guestCall' \in [Calls -> Call] /\ guestCall'[c] = new
        /\ \A d \in Calls : d # c => guestCall'[d] = guestCall[d]
    BY <1>1 DEF Now
  <1>3. GuestsTypeOK'
    BY <1>2 DEF GuestsIInv, GuestsTypeOK, deeds
  <1>4. \A d \in Calls : CallFits(guestCall[d], guests) => CallFits(guestCall[d], guests')
    BY DEF CallFits, AsGuest
  <1>5. \A d \in Calls : CallFits(guestCall'[d], guests')
    BY <1>2, <1>4 DEF GuestsIInv, CallsFit
  <1>6. CallsFit'
    BY <1>5 DEF CallsFit, CallFits, AsGuest
  <1>7. UsageOK'
    BY <1>2 DEF GuestsIInv, UsageOK, UsageStands, deeds
  <1>8. LikesOK'
    BY <1>2 DEF GuestsIInv, LikesOK, LikesStand, deeds
  <1>9. CoverOK'
    BY <1>2 DEF GuestsIInv, CoverOK, LikesCover, deeds
  <1> QED BY <1>3, <1>6, <1>7, <1>8, <1>9 DEF GuestsIInv

LEMMA LeaveKeeps ==
  ASSUME GuestsIInv, NEW c \in Calls, Leave(c),
         UNCHANGED <<retired, deeds, crossed>>, guests \subseteq guests',
         guests' \subseteq Guests \ retired, latest' \in guests' \cup {NoId},
         guests' # {} => latest' # NoId, linked' \in BOOLEAN
  PROVE  GuestsIInv'
  <1>1. NoCall \in Call /\ NoCall.pc = "idle" /\ NoCall.as = "guest"
    BY DEF NoCall, Call, IdOrNone
  <1>2. CallFits(NoCall, guests') /\ UsageStands(NoCall) /\ LikesStand(NoCall) /\ LikesCover(NoCall)
    BY <1>1 DEF CallFits, AsGuest, UsageStands, LikesStand, LikesCover
  <1> QED BY <1>1, <1>2, CallGoesOn DEF Leave

LEMMA SomeOne == ASSUME NEW S, S # {} PROVE (CHOOSE x \in S : TRUE) \in S
  OBVIOUS

\* After a merge the next guest of the list has its turn, or the call goes on.
LEMMA AfterMergeFits ==
  ASSUME GuestsIInv, NEW c \in Calls, guestCall[c].pc \in {"lock", "copy", "move"},
         NEW rows
  PROVE  /\ AfterMerge(c) \in Call /\ AfterMerge(c).pc \in {"lock", "find", "device"}
         /\ CallFits(AfterMerge(c), rows)
  <1> DEFINE call == guestCall[c]
             rest == call.dups \ {call.id}
  <1>1. call \in Call /\ CallFits(call, guests)
    BY DEF GuestsIInv, GuestsTypeOK, CallsFit
  <1>2. Guests \subseteq IdOrNone /\ NoId \in IdOrNone
    BY DEF IdOrNone, Ids
  <1>3. CASE rest # {}
    <2>1. PICK g \in rest : AfterMerge(c) = [call EXCEPT !.pc = "lock", !.dups = rest, !.id = g]
      <3>1. (CHOOSE g \in rest : TRUE) \in rest
        BY <1>3, SomeOne
      <3> QED BY <1>3, <3>1 DEF AfterMerge
    <2>2. rest \in SUBSET Guests /\ g \in IdOrNone
      BY <1>1, <1>2 DEF Call
    <2>3. PICK new : new = AfterMerge(c)
      OBVIOUS
    <2>4. /\ new \in Call /\ new.pc = "lock" /\ new.dups = rest /\ new.id = g
          /\ new.to = call.to /\ new.as = call.as
      BY <1>1, <2>1, <2>2, <2>3 DEF Call
    <2>5. CallFits(new, rows)
      BY <1>1, <2>4 DEF CallFits, AsGuest
    <2> QED BY <2>3, <2>4, <2>5
  <1>4. CASE rest = {}
    <2>1. PICK pc \in {"find", "device"} :
            AfterMerge(c) = [call EXCEPT !.pc = pc, !.dups = {}, !.id = NoId]
      BY <1>4 DEF AfterMerge
    <2>2. PICK new : new = AfterMerge(c)
      OBVIOUS
    <2>3. new \in Call /\ new.pc = pc /\ new.to = call.to /\ new.as = call.as
      BY <1>1, <1>2, <2>1, <2>2 DEF Call
    <2>4. CallFits(new, rows)
      BY <1>1, <2>3 DEF CallFits, AsGuest
    <2> QED BY <2>2, <2>3, <2>4
  <1> QED BY <1>3, <1>4

\* Steps that only look: at the guests, at the row that a call will change, or
\* at the rows that a merge will move.
LEMMA LooksKeep ==
  ASSUME GuestsIInv, NEW c \in Calls,
         \/ ListGuests(c) \/ FindGuest(c) \/ LockTarget(c) \/ CopyRows(c) \/ MoveFails(c)
         \/ ReadDeed(c)
  PROVE  GuestsIInv'
  <1> DEFINE call == guestCall[c]
  <1>1. /\ call \in Call /\ guests \subseteq Guests \ retired /\ latest \in guests \cup {NoId}
        /\ guests # {} => latest # NoId
        /\ linked \in BOOLEAN /\ likes \in [Ids -> Nat] /\ usage \in [Ids -> Nat]
        /\ guests \subseteq Guests /\ retired \subseteq Guests
    BY DEF GuestsIInv, GuestsTypeOK
  <1>2. /\ Reader \notin Guests /\ NoId \notin Guests /\ NoId # Reader /\ Reader \in Ids
        /\ Guests \subseteq Ids /\ Ids \subseteq IdOrNone
    BY GuestsAssumption DEF Ids, IdOrNone
  <1>3. CallFits(call, guests)
    BY DEF GuestsIInv, CallsFit
  <1>4. ASSUME NEW new \in Call, Now(c, new), UNCHANGED <<people, deeds, crossed>>,
               CallFits(new, guests),
               crossed \cap {"merge", "ask"} = {} => UsageStands(new),
               crossed \cap {"merge", "like"} = {} => LikesStand(new),
               "like" \notin crossed => LikesCover(new)
        PROVE  GuestsIInv'
    BY <1>1, <1>4, CallGoesOn DEF people
  <1>5. CASE ListGuests(c)
    <2>1. In(c, "list") /\ UNCHANGED <<people, deeds, crossed>>
      BY <1>5 DEF ListGuests
    <2>2. CASE guests \ {latest} = {}
      <3> DEFINE new == [call EXCEPT !.pc = "find"]
      <3>1. Now(c, new)
        BY <1>5, <2>2 DEF ListGuests
      <3>2. new \in Call /\ new.pc = "find" /\ new.as = call.as /\ new.to = call.to
        BY <1>1 DEF Call
      <3>3. CallFits(new, guests) /\ UsageStands(new) /\ LikesStand(new) /\ LikesCover(new)
        BY <1>3, <3>2 DEF CallFits, AsGuest, UsageStands, LikesStand, LikesCover
      <3> QED BY <1>4, <2>1, <3>1, <3>2, <3>3
    <2>3. CASE guests \ {latest} # {}
      <3>1. PICK dups \in SUBSET guests, g \in guests :
              /\ g \in dups /\ latest \notin dups /\ latest \in guests
              /\ Now(c, [call EXCEPT !.pc = "lock", !.to = latest, !.dups = dups, !.id = g])
        <4>1. (CHOOSE g \in guests \ {latest} : TRUE) \in guests \ {latest}
          BY <2>3, SomeOne
        <4> QED BY <1>1, <1>5, <2>3, <4>1 DEF ListGuests
      <3> DEFINE new == [call EXCEPT !.pc = "lock", !.to = latest, !.dups = dups, !.id = g]
      <3>2. /\ new \in Call /\ new.pc = "lock" /\ new.as = call.as /\ new.to = latest
            /\ new.dups = dups /\ new.id = g
        BY <1>1, <1>2, <3>1 DEF Call
      <3>3. AsGuest(call)
        BY <1>3, <2>1 DEF CallFits, AsGuest, In
      <3>4. CallFits(new, guests) /\ UsageStands(new) /\ LikesStand(new) /\ LikesCover(new)
        BY <1>1, <1>2, <3>1, <3>2, <3>3 DEF CallFits, AsGuest, UsageStands, LikesStand, LikesCover
      <3> QED BY <1>4, <2>1, <3>1, <3>2, <3>4
    <2> QED BY <2>2, <2>3
  <1>6. CASE FindGuest(c)
    <2>1. In(c, "find") /\ UNCHANGED <<people, deeds, crossed>>
      BY <1>6 DEF FindGuest
    <2>2. CASE AsGuest(call)
      <3>0. PICK pc \in {"create", "touch"} : pc = IF latest = NoId THEN "create" ELSE "touch"
        OBVIOUS
      <3> DEFINE new == [call EXCEPT !.pc = pc, !.id = latest]
      <3>1. Now(c, new)
        BY <1>6, <2>2, <3>0 DEF FindGuest, AsGuest
      <3> latest \in IdOrNone
        BY <1>1, <1>2 DEF IdOrNone
      <3>2. new \in Call /\ new.pc \in {"create", "touch"} /\ AsGuest(new)
        BY <1>1, <2>2 DEF Call, AsGuest
      <3>3. CallFits(new, guests) /\ UsageStands(new) /\ LikesStand(new) /\ LikesCover(new)
        BY <3>2 DEF CallFits, AsGuest, UsageStands, LikesStand, LikesCover
      <3> QED BY <1>4, <2>1, <3>1, <3>2, <3>3
    <2>3. CASE ~ AsGuest(call) /\ call.as = "reader" /\ linked
      <3> DEFINE new == [call EXCEPT !.pc = "read", !.id = Reader]
      <3>1. Now(c, new)
        BY <1>6, <2>3 DEF FindGuest
      <3>2. new \in Call /\ new.pc = "read" /\ new.to = call.to /\ new.id = Reader
        BY <1>1, <1>2 DEF Call
      <3>3. CallFits(new, guests) /\ UsageStands(new) /\ LikesStand(new) /\ LikesCover(new)
        BY <1>1, <1>2, <1>3, <2>3, <3>2 DEF CallFits, AsGuest, UsageStands, LikesStand, LikesCover
      <3> QED BY <1>4, <2>1, <3>1, <3>2, <3>3
    <2> DEFINE g == GuestOf(call)
    <2>6. g \in guests \cup {NoId}
      BY <1>1 DEF GuestOf
    <2> HIDE DEF g
    <2>4. CASE ~ AsGuest(call) /\ ~(call.as = "reader" /\ linked) /\ g = NoId
      <3> DEFINE new == [call EXCEPT !.pc = "device"]
      <3>1. Now(c, new)
        BY <1>6, <2>4 DEF FindGuest, g
      <3>2. new \in Call /\ new.pc = "device" /\ new.to = call.to
        BY <1>1 DEF Call
      <3>3. CallFits(new, guests) /\ UsageStands(new) /\ LikesStand(new) /\ LikesCover(new)
        BY <1>3, <2>4, <3>2 DEF CallFits, AsGuest, UsageStands, LikesStand, LikesCover
      <3> QED BY <1>4, <2>1, <3>1, <3>2, <3>3
    <2>5. CASE ~ AsGuest(call) /\ ~(call.as = "reader" /\ linked) /\ g # NoId
      <3> DEFINE new == [call EXCEPT !.pc = "lock", !.id = g, !.dups = {g}]
      <3>1. Now(c, new)
        BY <1>6, <2>5 DEF FindGuest, g
      <3>2. g \in Guests /\ call.to = Reader
        BY <1>1, <1>3, <2>5, <2>6 DEF CallFits, AsGuest
      <3>3. /\ new \in Call /\ new.pc = "lock" /\ new.to = Reader /\ new.id = g
            /\ new.dups = {g}
        BY <1>1, <1>2, <3>2 DEF Call
      <3>4. CallFits(new, guests) /\ UsageStands(new) /\ LikesStand(new) /\ LikesCover(new)
        BY <1>2, <3>2, <3>3 DEF CallFits, AsGuest, UsageStands, LikesStand, LikesCover
      <3> QED BY <1>4, <2>1, <3>1, <3>3, <3>4
    <2> QED BY <2>2, <2>3, <2>4, <2>5
  <1>7. CASE LockTarget(c)
    <2>1. In(c, "lock") /\ UNCHANGED <<people, deeds, crossed>>
      BY <1>7 DEF LockTarget
    <2>2. CASE call.id \in guests /\ call.to \in guests \cup {Reader}
      <3> DEFINE new == [call EXCEPT !.pc = "copy"]
      <3>1. Now(c, new)
        BY <1>7, <2>2 DEF LockTarget
      <3>2. /\ new \in Call /\ new.pc = "copy" /\ new.to = call.to /\ new.id = call.id
            /\ new.dups = call.dups /\ new.as = call.as
        BY <1>1 DEF Call
      <3>3. CallFits(new, guests) /\ UsageStands(new) /\ LikesStand(new) /\ LikesCover(new)
        BY <1>3, <2>1, <2>2, <3>2 DEF In, CallFits, AsGuest, UsageStands, LikesStand, LikesCover
      <3> QED BY <1>4, <2>1, <3>1, <3>2, <3>3
    <2>3. CASE ~(call.id \in guests /\ call.to \in guests \cup {Reader})
      <3>1. Now(c, AfterMerge(c))
        BY <1>7, <2>3 DEF LockTarget
      <3>2. /\ AfterMerge(c) \in Call /\ AfterMerge(c).pc \in {"lock", "find", "device"}
            /\ CallFits(AfterMerge(c), guests)
        BY <2>1, AfterMergeFits DEF In
      <3>3. UsageStands(AfterMerge(c)) /\ LikesStand(AfterMerge(c)) /\ LikesCover(AfterMerge(c))
        BY <3>2 DEF UsageStands, LikesStand, LikesCover
      <3> QED BY <1>4, <2>1, <3>1, <3>2, <3>3
    <2> QED BY <2>2, <2>3
  <1>8. CASE CopyRows(c)
    <2>1. In(c, "copy") /\ UNCHANGED <<people, deeds, crossed>>
      BY <1>8 DEF CopyRows
    <2>2. call.id \in Ids
      BY <1>1, <1>2, <1>3, <2>1 DEF In, CallFits, AsGuest, Call
    <2> DEFINE new == [call EXCEPT !.pc = "move", !.seenLikes = likes[call.id],
                                   !.seenUsage = usage[call.id]]
    <2>3. Now(c, new)
      BY <1>8 DEF CopyRows
    <2>4. likes[call.id] \in Nat /\ usage[call.id] \in Nat
      BY <1>1, <2>2
    <2>5. /\ new \in Call /\ new.pc = "move" /\ new.to = call.to /\ new.id = call.id
          /\ new.dups = call.dups /\ new.as = call.as
          /\ new.seenLikes = likes[call.id] /\ new.seenUsage = usage[call.id]
      BY <1>1, <2>4 DEF Call
    <2> HIDE DEF new
    <2>6. CallFits(new, guests) /\ UsageStands(new) /\ LikesStand(new) /\ LikesCover(new)
      BY <1>3, <2>1, <2>4, <2>5 DEF In, CallFits, AsGuest, UsageStands, LikesStand, LikesCover
    <2> QED BY <1>4, <2>1, <2>3, <2>5, <2>6
  <1>9. CASE MoveFails(c)
    <2>1. Leave(c) /\ UNCHANGED <<people, deeds, crossed>>
      BY <1>9 DEF MoveFails
    <2> QED BY <1>1, <2>1, LeaveKeeps DEF people
  <1>10. CASE ReadDeed(c)
    <2>1. In(c, "read") /\ UNCHANGED <<people, deeds, crossed>>
      BY <1>10 DEF ReadDeed
    <2>2. call.id \in Ids
      BY <1>3, <2>1 DEF In, CallFits, AsGuest
    <2> DEFINE new == [call EXCEPT !.pc = "write", !.seenLikes = likes[call.id],
                                   !.seenUsage = usage[call.id]]
    <2>3. Now(c, new)
      BY <1>10 DEF ReadDeed
    <2>4. likes[call.id] \in Nat /\ usage[call.id] \in Nat
      BY <1>1, <2>2
    <2>5. /\ new \in Call /\ new.pc = "write" /\ new.to = call.to /\ new.id = call.id
          /\ new.deed = call.deed /\ new.as = call.as /\ new.seenLikes = likes[call.id]
      BY <1>1, <2>4 DEF Call
    <2> HIDE DEF new
    <2>6. CallFits(new, guests) /\ UsageStands(new) /\ LikesCover(new)
      BY <1>3, <2>2, <2>5 DEF CallFits, AsGuest, UsageStands, LikesCover
    <2>7. crossed \cap {"merge", "like"} = {} => LikesStand(new)
      BY <2>1, <2>5 DEF In, GuestsIInv, LikesOK, LikesStand
    <2> QED BY <1>4, <2>1, <2>3, <2>5, <2>6, <2>7
  <1> QED BY <1>5, <1>6, <1>7, <1>8, <1>9, <1>10

-----------------------------------------------------------------------------
\* A call comes, or finds or makes its user.
LEMMA ArrivalsKeep ==
  ASSUME GuestsIInv, NEW c \in Calls,
         \/ \E as \in {"guest", "reader", "link"}, deed \in {"like", "ask"} : ComeAs(c, as, deed)
         \/ \E x \in Guests : ComeWithId(c, x) \/ ComeWithHint(c, x)
         \/ TouchGuest(c) \/ CreateGuest(c) \/ SetDevice(c)
  PROVE  GuestsIInv'
  <1> DEFINE call == guestCall[c]
  <1>1. /\ call \in Call /\ guests \subseteq Guests \ retired /\ latest \in guests \cup {NoId}
        /\ guests # {} => latest # NoId
        /\ linked \in BOOLEAN /\ guests \subseteq Guests /\ retired \subseteq Guests
    BY DEF GuestsIInv, GuestsTypeOK
  <1>2. /\ Reader \notin Guests /\ NoId \notin Guests /\ NoId # Reader /\ Reader \in Ids
        /\ Guests \subseteq Ids /\ Ids \subseteq IdOrNone /\ NoId \in IdOrNone
    BY GuestsAssumption DEF Ids, IdOrNone
  <1>3. CallFits(call, guests)
    BY DEF GuestsIInv, CallsFit
  <1>4. NoCall \in Call
    BY <1>2 DEF NoCall, Call
  <1>5. ASSUME NEW as \in {"guest", "reader", "link"}, NEW deed \in {"like", "ask"},
               ComeAs(c, as, deed)
        PROVE  GuestsIInv'
    <2>1. PICK pc \in {"list", "find"}, to \in {NoId, Reader} :
            /\ as = "guest" \/ to = Reader
            /\ pc = "list" => as = "guest"
            /\ Now(c, [NoCall EXCEPT !.pc = pc, !.as = as, !.deed = deed, !.to = to])
      <3>1. CASE as = "guest"
        BY <1>5, <3>1 DEF ComeAs
      <3>2. CASE as # "guest"
        BY <1>5, <3>2 DEF ComeAs
      <3> QED BY <3>1, <3>2
    <2>2. PICK new : new = [NoCall EXCEPT !.pc = pc, !.as = as, !.deed = deed, !.to = to]
      OBVIOUS
    <2>3. new \in Call /\ new.pc = pc /\ new.as = as /\ new.to = to
      BY <1>2, <1>4, <2>1, <2>2 DEF Call
    <2>4. CallFits(new, guests) /\ UsageStands(new) /\ LikesStand(new) /\ LikesCover(new)
      BY <2>1, <2>3 DEF CallFits, AsGuest, UsageStands, LikesStand, LikesCover
    <2> QED BY <1>1, <1>5, <2>1, <2>2, <2>3, <2>4, CallGoesOn DEF ComeAs, people
  <1>6. ASSUME NEW x \in Guests, ComeWithId(c, x) PROVE GuestsIInv'
    <2>1. PICK new : new = [NoCall EXCEPT !.pc = "read", !.deed = "ask", !.id = x]
      OBVIOUS
    <2>2. /\ new \in Call /\ new.pc = "read" /\ new.as = "guest" /\ new.deed = "ask"
          /\ new.id = x
      BY <1>2, <1>4, <2>1 DEF Call, NoCall
    <2>3. CallFits(new, guests) /\ UsageStands(new) /\ LikesStand(new) /\ LikesCover(new)
      BY <1>2, <2>2 DEF CallFits, AsGuest, UsageStands, LikesStand, LikesCover
    <2> QED BY <1>1, <1>6, <2>1, <2>2, <2>3, CallGoesOn DEF ComeWithId, people
  <1>10. ASSUME NEW x \in Guests, ComeWithHint(c, x) PROVE GuestsIInv'
    <2>1. PICK new : new = [NoCall EXCEPT !.pc = "find", !.as = "hint", !.id = x, !.to = Reader]
      OBVIOUS
    <2>2. new \in Call /\ new.pc = "find" /\ new.to = Reader
      BY <1>2, <1>4, <2>1 DEF Call, NoCall
    <2>3. CallFits(new, guests) /\ UsageStands(new) /\ LikesStand(new) /\ LikesCover(new)
      BY <2>2 DEF CallFits, UsageStands, LikesStand, LikesCover
    <2> QED BY <1>1, <1>10, <2>1, <2>2, <2>3, CallGoesOn DEF ComeWithHint, people
  <1>7. CASE TouchGuest(c)
    <2>1. In(c, "touch") /\ UNCHANGED <<guests, retired, linked, deeds, crossed>>
      BY <1>7 DEF TouchGuest
    <2>4. CASE call.id \in guests /\ call.as = "again"
      <3>1. latest' = call.id /\ Leave(c)
        BY <1>7, <2>4 DEF TouchGuest
      <3> QED BY <1>1, <1>2, <2>1, <2>4, <3>1, LeaveKeeps
    <2>2. CASE call.id \in guests /\ call.as # "again"
      <3>1. latest' = call.id
        BY <1>7, <2>2 DEF TouchGuest
      <3>2. PICK new : new = [call EXCEPT !.pc = "read"]
        OBVIOUS
      <3>3. /\ new \in Call /\ new.pc = "read" /\ new.as = call.as /\ new.to = call.to
            /\ new.id = call.id
        BY <1>1, <3>2 DEF Call
      <3>4. CallFits(new, guests) /\ UsageStands(new) /\ LikesStand(new) /\ LikesCover(new)
        BY <1>1, <1>2, <1>3, <2>2, <3>3 DEF CallFits, AsGuest, UsageStands, LikesStand, LikesCover
      <3>5. Now(c, new)
        BY <1>7, <2>2, <3>2 DEF TouchGuest
      <3> QED BY <1>1, <1>2, <2>1, <2>2, <3>1, <3>3, <3>4, <3>5, CallGoesOn
    <2>3. CASE call.id \notin guests
      <3>1. latest' = latest /\ Leave(c)
        BY <1>7, <2>3 DEF TouchGuest
      <3> QED BY <1>1, <2>1, <3>1, LeaveKeeps
    <2> QED BY <2>2, <2>3, <2>4
  <1>8. CASE CreateGuest(c)
    <2>1. In(c, "create") /\ UNCHANGED <<retired, linked, deeds, crossed>>
      BY <1>8 DEF CreateGuest
    <2>2. PICK g \in Guests \ (guests \cup retired) :
            /\ guests' = guests \cup {g} /\ latest' = g
            /\ \/ Leave(c)
               \/ Now(c, [call EXCEPT !.pc = "read", !.id = g])
      <3>1. Guests \ (guests \cup retired) # {}
        BY <1>1, <1>8 DEF CreateGuest
      <3>2. (CHOOSE x \in Guests \ (guests \cup retired) : TRUE) \in Guests \ (guests \cup retired)
        BY <3>1, SomeOne
      <3> QED BY <1>8, <3>2 DEF CreateGuest
    <2>3. /\ guests \subseteq guests' /\ guests' \subseteq Guests \ retired
          /\ latest' \in guests' \cup {NoId} /\ latest' # NoId
      BY <1>1, <1>2, <2>2
    <2>4. CASE Leave(c)
      BY <1>1, <2>1, <2>3, <2>4, LeaveKeeps
    <2>5. CASE Now(c, [call EXCEPT !.pc = "read", !.id = g])
      <3>1. PICK new : new = [call EXCEPT !.pc = "read", !.id = g]
        OBVIOUS
      <3>2. /\ new \in Call /\ new.pc = "read" /\ new.as = call.as /\ new.to = call.to
            /\ new.id = g
        BY <1>1, <1>2, <3>1 DEF Call
      <3>3. CallFits(new, guests') /\ UsageStands(new) /\ LikesStand(new) /\ LikesCover(new)
        BY <1>2, <1>3, <3>2 DEF CallFits, AsGuest, UsageStands, LikesStand, LikesCover
      <3> QED BY <1>1, <2>1, <2>3, <2>5, <3>1, <3>2, <3>3, CallGoesOn
    <2> QED BY <2>2, <2>4, <2>5
  <1>9. CASE SetDevice(c)
    <2>1. /\ In(c, "device") /\ linked' \in BOOLEAN
          /\ UNCHANGED <<guests, retired, latest, deeds, crossed>>
      BY <1>1, <1>9 DEF SetDevice
    <2>2. CASE call.as = "reader"
      <3>1. PICK new : new = [call EXCEPT !.pc = "read", !.id = Reader]
        OBVIOUS
      <3>2. /\ new \in Call /\ new.pc = "read" /\ new.as = call.as /\ new.to = call.to
            /\ new.id = Reader
        BY <1>1, <1>2, <3>1 DEF Call
      <3>3. CallFits(new, guests) /\ UsageStands(new) /\ LikesStand(new) /\ LikesCover(new)
        BY <1>1, <1>2, <1>3, <3>2 DEF CallFits, AsGuest, UsageStands, LikesStand, LikesCover
      <3>4. Now(c, new)
        BY <1>9, <2>2, <3>1 DEF SetDevice
      <3> QED BY <1>1, <2>1, <3>2, <3>3, <3>4, CallGoesOn
    <2>3. CASE call.as = "link"
      <3>1. PICK new : new = [NoCall EXCEPT !.pc = "list", !.as = "again"]
        OBVIOUS
      <3>2. new \in Call /\ new.pc = "list" /\ new.as = "again"
        BY <1>4, <3>1 DEF Call
      <3>3. CallFits(new, guests) /\ UsageStands(new) /\ LikesStand(new) /\ LikesCover(new)
        BY <3>2 DEF CallFits, AsGuest, UsageStands, LikesStand, LikesCover
      <3>4. Now(c, new)
        BY <1>9, <2>3, <3>1 DEF SetDevice
      <3> QED BY <1>1, <2>1, <3>2, <3>3, <3>4, CallGoesOn
    <2>4. CASE call.as \notin {"reader", "link"}
      <3>1. Leave(c)
        BY <1>9, <2>4 DEF SetDevice
      <3> QED BY <1>1, <2>1, <3>1, LeaveKeeps
    <2> QED BY <2>2, <2>3, <2>4
  <1> QED BY <1>5, <1>6, <1>7, <1>8, <1>9, <1>10

-----------------------------------------------------------------------------
\* What one user has is added to another's, and taken from the first.
LEMMA MovingKeepsSums ==
  ASSUME NEW f \in [Ids -> Nat], NEW h \in [Ids -> Nat], NEW a \in Ids, NEW b \in Ids,
         a # b, NEW n \in Nat, h[a] = f[a] + n, h[b] = 0,
         \A x \in Ids \ {a, b} : h[x] = f[x]
  PROVE  SumFunction(f) \in Int /\ SumFunction(h) = SumFunction(f) + n - f[b]
  <1>1. IsFiniteSet(Ids)
    BY GuestsAssumption, FS_AddElement DEF Ids
  <1>2. PICK g : g = [f EXCEPT ![a] = f[a] + n]
    OBVIOUS
  <1>3. g \in [Ids -> Nat] /\ g[a] = f[a] + n /\ g[b] = f[b]
    BY <1>2
  <1>4. \A x \in Ids \ {a} : g[x] = f[x]
    BY <1>2
  <1>5. \A x \in Ids \ {b} : h[x] = g[x]
    BY <1>2
  <1>6. f \in [Ids -> Int]
    OBVIOUS
  <1>7. g \in [Ids -> Int]
    BY <1>3
  <1>8. h \in [Ids -> Int]
    OBVIOUS
  <1>9. SumFunction(f) \in Int
    BY <1>1, <1>6, SumIsInt
  <1>10. SumFunction(g) = SumFunction(f) + (g[a] - f[a])
    BY <1>1, <1>4, <1>6, <1>7, SumChanges
  <1>11. SumFunction(h) = SumFunction(g) + (h[b] - g[b])
    BY <1>1, <1>5, <1>7, <1>8, SumChanges
  <1> QED BY <1>3, <1>9, <1>10, <1>11

\* A merge that moves its rows.  The calls it met on the two users are noted.
LEMMA MoveRowsKeeps ==
  ASSUME GuestsIInv, NEW c \in Calls, MoveRows(c) PROVE GuestsIInv'
  <1> DEFINE call == guestCall[c]
             from == call.id
             to == call.to
  <1>1. /\ call \in Call /\ guests \subseteq Guests \ retired /\ latest \in guests \cup {NoId}
        /\ guests # {} => latest # NoId
        /\ likes \in [Ids -> Nat] /\ usage \in [Ids -> Nat] /\ retired \subseteq Guests
        /\ guestCall \in [Calls -> Call] /\ crossed \subseteq Crossings
        /\ liked \in Nat /\ asked \in Nat
    BY DEF GuestsIInv, GuestsTypeOK
  <1>2. Reader \notin Guests /\ NoId \notin Guests /\ Ids = Guests \cup {Reader}
    BY GuestsAssumption DEF Ids
  <1>3. /\ call.pc = "move" /\ ~Locked(from) /\ ~RowGone(c) /\ usage' = UsageMoved(c)
        /\ likes' = LikesMoved(c) /\ guests' = guests \ {from} /\ retired' = retired \cup {from}
        /\ latest' \in Newest(guests \ {from}, from) /\ crossed' = crossed \cup Meets(c)
        /\ Now(c, [AfterMerge(c) EXCEPT !.seenLikes = 0, !.seenUsage = 0])
        /\ UNCHANGED <<linked, liked, asked>>
    BY DEF MoveRows, In, GuestsWithout
  <1>4. CallFits(call, guests)
    BY DEF GuestsIInv, CallsFit
  <1>5. from \in Guests /\ to \in Ids /\ from \in Ids /\ to # from
    BY <1>1, <1>2, <1>3, <1>4 DEF CallFits, AsGuest, Call
  <1>6. call.seenUsage \in Nat /\ call.seenLikes \in Nat
    BY <1>1 DEF Call
  <1>7. PICK new : new = [AfterMerge(c) EXCEPT !.seenLikes = 0, !.seenUsage = 0]
    OBVIOUS
  <1>8. /\ new \in Call /\ new.pc \in {"lock", "find", "device"} /\ CallFits(new, guests')
    <2>1. PICK after \in Call : after = AfterMerge(c) /\ after.pc \in {"lock", "find", "device"}
                                /\ CallFits(after, guests')
      BY <1>3, AfterMergeFits
    <2>2. /\ new \in Call /\ new.pc = after.pc /\ new.as = after.as /\ new.to = after.to
          /\ new.id = after.id /\ new.dups = after.dups
      BY <1>7, <2>1 DEF Call
    <2> QED BY <2>1, <2>2 DEF CallFits, AsGuest
  <1>9. /\ guestCall' \in [Calls -> Call] /\ guestCall'[c] = new
        /\ \A d \in Calls : d # c => guestCall'[d] = guestCall[d]
    BY <1>1, <1>3, <1>7, <1>8 DEF Now
  <1> HIDE DEF call, from, to
  <1>10. /\ usage' \in [Ids -> Nat] /\ \A x \in Ids \ {from, to} : usage'[x] = usage[x]
         /\ SumFunction(usage') = SumFunction(usage) + call.seenUsage - usage[from]
         /\ SumFunction(usage) \in Int
    <2>1. usage' = [usage EXCEPT ![to] = @ + call.seenUsage, ![from] = 0]
      BY <1>3 DEF UsageMoved, call, from, to
    <2>2. /\ usage' \in [Ids -> Nat] /\ usage'[from] = 0
          /\ usage'[to] = usage[to] + call.seenUsage
      BY <1>1, <1>5, <1>6, <2>1
    <2>3. \A x \in Ids \ {to, from} : usage'[x] = usage[x]
      BY <1>1, <1>5, <1>6, <2>1
    <2>4. SumFunction(usage) \in Int /\
          SumFunction(usage') = SumFunction(usage) + call.seenUsage - usage[from]
      BY <1>1, <1>5, <1>6, <2>2, <2>3, MovingKeepsSums
    <2> QED BY <2>2, <2>3, <2>4
  <1>11. /\ likes' \in [Ids -> Nat] /\ \A x \in Ids \ {from, to} : likes'[x] = likes[x]
         /\ SumFunction(likes) \in Int
         /\ likes[to] <= likes'[to]
         /\ \/ call.seenLikes = 0 /\ likes' = likes
            \/ /\ likes[from] > 0 /\ likes'[from] = 0
               /\ SumFunction(likes') = SumFunction(likes) + call.seenLikes - likes[from]
    <2>1. CASE call.seenLikes = 0
      <3>1. likes' = likes
        BY <1>3, <2>1 DEF LikesMoved, call
      <3>2. IsFiniteSet(Ids) /\ likes \in [Ids -> Int]
        BY <1>1, GuestsAssumption, FS_AddElement DEF Ids
      <3>3. SumFunction(likes) \in Int
        BY <3>2, SumIsInt
      <3> QED BY <1>1, <1>5, <2>1, <3>1, <3>3
    <2>2. CASE call.seenLikes # 0
      <3>1. likes' = [likes EXCEPT ![to] = @ + call.seenLikes, ![from] = 0]
        BY <1>3, <2>2 DEF LikesMoved, call, from, to
      <3>2. likes[from] > 0
        BY <1>1, <1>3, <1>5, <1>6, <2>2 DEF RowGone, call, from
      <3>3. /\ likes' \in [Ids -> Nat] /\ likes'[from] = 0
            /\ likes'[to] = likes[to] + call.seenLikes
            /\ \A x \in Ids \ {to, from} : likes'[x] = likes[x]
        BY <1>1, <1>5, <1>6, <3>1
      <3>4. SumFunction(likes) \in Int /\
            SumFunction(likes') = SumFunction(likes) + call.seenLikes - likes[from]
        BY <1>1, <1>5, <1>6, <3>3, MovingKeepsSums
      <3>5. likes[to] \in Nat
        BY <1>1, <1>5
      <3> QED BY <1>6, <3>2, <3>3, <3>4, <3>5
    <2> QED BY <2>1, <2>2
  <1>12. Meets(c) \subseteq Crossings
    <2>1. \A d \in Calls : guestCall[d].deed \in Crossings
      BY <1>1 DEF Call, Crossings
    <2> QED BY <2>1 DEF Meets, Crossings
  <1>13. GuestsTypeOK'
    <2>1. latest' \in guests' \cup {NoId} /\ (guests' # {} => latest' # NoId)
      BY <1>1, <1>2, <1>3, <1>5 DEF Newest
    <2>2. guests' \subseteq Guests /\ retired' \subseteq Guests \ guests'
      BY <1>1, <1>3, <1>5
    <2> QED BY <1>3, <1>9, <1>10, <1>11, <1>12, <2>1, <2>2, <1>1
            DEF GuestsIInv, GuestsTypeOK
  <1>14. ASSUME NEW d \in Calls, d # c, "merge" \notin crossed', Merging(d)
         PROVE  guestCall[d].id \notin {from, to} /\ guestCall[d].to \notin {from, to}
    <2>1. ~({guestCall[d].id, guestCall[d].to} \cap {from, to} # {})
      BY <1>3, <1>14 DEF Meets, call, from, to
    <2> QED BY <2>1
  <1>15. ASSUME NEW d \in Calls, d # c, NEW deed, deed \notin crossed', guestCall[d].deed = deed,
                In(d, "read") \/ In(d, "write")
         PROVE  guestCall[d].id \notin {from, to}
    BY <1>3, <1>15 DEF Meets, call, from, to
  <1>16. \A d \in Calls : guestCall[d].pc \in {"lock", "copy", "move"} => guestCall[d].id \in Ids
    <2> SUFFICES ASSUME NEW d \in Calls, guestCall[d].pc \in {"lock", "copy", "move"}
                 PROVE  guestCall[d].id \in Ids
      OBVIOUS
    <2>1. CallFits(guestCall[d], guests) /\ guestCall[d] \in Call
      BY <1>1 DEF GuestsIInv, CallsFit
    <2> QED BY <1>2, <2>1 DEF CallFits, AsGuest, Call
  <1>17. \A d \in Calls : guestCall[d].pc \in {"read", "write"} => guestCall[d].id \in Ids
    BY DEF GuestsIInv, CallsFit, CallFits, AsGuest
  <1>18. CallsFit'
    <2> SUFFICES ASSUME NEW d \in Calls, d # c PROVE CallFits(guestCall[d], guests')
      BY <1>8, <1>9 DEF CallsFit, CallFits, AsGuest
    <2>1. CallFits(guestCall[d], guests)
      BY DEF GuestsIInv, CallsFit
    <2>2. guestCall[d].pc \in {"copy", "move"} => guestCall[d].to # from
      BY <1>3 DEF Locked, Merging, In
    <2> QED BY <1>3, <2>1, <2>2 DEF CallFits, AsGuest
  <1>19. UsageOK'
    <2> SUFFICES ASSUME crossed' \cap {"merge", "ask"} = {}
                 PROVE  /\ SumFunction(usage') = asked
                        /\ \A d \in Calls : UsageStands(guestCall[d])'
      BY <1>3 DEF UsageOK
    <2>1. crossed \cap {"merge", "ask"} = {} /\ "merge" \notin crossed'
      BY <1>3
    <2>2. SumFunction(usage) = asked /\ \A d \in Calls : UsageStands(guestCall[d])
      BY <2>1 DEF GuestsIInv, UsageOK
    <2>3. call.seenUsage = usage[from] /\ usage[from] \in Nat
      BY <1>1, <1>3, <1>5, <2>2 DEF UsageStands, call, from
    <2>4. SumFunction(usage') = asked
      BY <1>1, <1>10, <2>2, <2>3
    <2>5. ASSUME NEW d \in Calls PROVE UsageStands(guestCall[d])'
      <3>1. CASE d = c
        BY <1>8, <1>9, <3>1 DEF UsageStands
      <3>2. CASE d # c
        <4>1. ASSUME guestCall[d].pc = "move" PROVE guestCall[d].seenUsage = usage'[guestCall[d].id]
          <5>1. guestCall[d].id \in Ids \ {from, to}
            BY <1>14, <1>16, <2>1, <3>2, <4>1 DEF Merging, In
          <5> QED BY <1>10, <2>2, <4>1, <5>1 DEF UsageStands
        <4> QED BY <1>9, <3>2, <4>1 DEF UsageStands
      <3> QED BY <3>1, <3>2
    <2> QED BY <2>4, <2>5
  <1>20. LikesOK'
    <2> SUFFICES ASSUME crossed' \cap {"merge", "like"} = {}
                 PROVE  /\ SumFunction(likes') = liked
                        /\ \A g \in retired' : likes'[g] = 0
                        /\ \A d \in Calls : LikesStand(guestCall[d])'
      BY <1>3 DEF LikesOK
    <2>1. crossed \cap {"merge", "like"} = {} /\ "merge" \notin crossed' /\ "like" \notin crossed'
      BY <1>3
    <2>2. /\ SumFunction(likes) = liked /\ \A g \in retired : likes[g] = 0
          /\ \A d \in Calls : LikesStand(guestCall[d])
      BY <2>1 DEF GuestsIInv, LikesOK
    <2>3. call.seenLikes = likes[from] /\ likes[from] \in Nat
      BY <1>1, <1>3, <1>5, <2>2 DEF LikesStand, call, from
    <2>4. SumFunction(likes') = liked /\ likes'[from] = 0
      BY <1>1, <1>11, <2>2, <2>3
    <2>5. ASSUME NEW g \in retired' PROVE likes'[g] = 0
      <3>1. CASE g = from
        BY <2>4, <3>1
      <3>2. CASE g # from
        <4>1. g \in retired /\ g # to /\ g \in Ids
          BY <1>1, <1>2, <1>3, <1>4, <3>2 DEF CallFits, AsGuest, call, to
        <4> QED BY <1>11, <2>2, <3>2, <4>1
      <3> QED BY <3>1, <3>2
    <2>6. ASSUME NEW d \in Calls PROVE LikesStand(guestCall[d])'
      <3>1. CASE d = c
        BY <1>8, <1>9, <3>1 DEF LikesStand
      <3>2. CASE d # c
        <4>1. ASSUME guestCall[d].pc = "move" PROVE guestCall[d].seenLikes = likes'[guestCall[d].id]
          <5>1. guestCall[d].id \in Ids \ {from, to}
            BY <1>14, <1>16, <2>1, <3>2, <4>1 DEF Merging, In
          <5> QED BY <1>11, <2>2, <4>1, <5>1 DEF LikesStand
        <4>2. ASSUME guestCall[d].pc \in {"read", "write"}, guestCall[d].deed = "like"
              PROVE  guestCall[d].id \notin retired'
          <5>1. guestCall[d].id # from
            BY <1>15, <2>1, <3>2, <4>2 DEF In
          <5> QED BY <1>3, <2>2, <4>2, <5>1 DEF LikesStand
        <4> QED BY <1>9, <3>2, <4>1, <4>2 DEF LikesStand
      <3> QED BY <3>1, <3>2
    <2> QED BY <2>4, <2>5, <2>6
  <1>21. CoverOK'
    <2> SUFFICES ASSUME "like" \notin crossed'
                 PROVE  /\ SumFunction(likes') <= liked
                        /\ \A d \in Calls : LikesCover(guestCall[d])'
      BY <1>3 DEF CoverOK
    <2>1. SumFunction(likes) <= liked /\ \A d \in Calls : LikesCover(guestCall[d])
      BY <1>3 DEF GuestsIInv, CoverOK
    <2>2. call.seenLikes <= likes[from] \/ likes[from] = 0
      BY <1>3, <2>1 DEF LikesCover, call, from
    <2>3. likes[from] \in Nat
      BY <1>1, <1>5
    <2>4. SumFunction(likes') <= liked
      BY <1>1, <1>6, <1>11, <2>1, <2>2, <2>3
    <2>5. ASSUME NEW d \in Calls PROVE LikesCover(guestCall[d])'
      <3>1. CASE d = c
        BY <1>8, <1>9, <3>1 DEF LikesCover
      <3>2. CASE d # c
        <4> DEFINE other == guestCall[d]
        <4>1. ASSUME other.pc = "move"
              PROVE  \/ other.seenLikes <= likes'[other.id]
                     \/ other.id \in retired' /\ likes'[other.id] = 0
          <5>1. other.id \in Ids /\ other.seenLikes \in Nat /\ likes[other.id] \in Nat
            BY <1>1, <1>16, <4>1 DEF Call
          <5>2. \/ other.seenLikes <= likes[other.id]
                \/ other.id \in retired /\ likes[other.id] = 0
            BY <2>1, <4>1 DEF LikesCover
          <5>3. CASE other.id = from
            BY <1>3, <1>11, <5>1, <5>2, <5>3
          <5>4. CASE other.id = to
            <6>1. to \notin retired
              BY <1>1, <1>2, <1>3, <1>4 DEF CallFits, AsGuest, call, to
            <6>2. likes[to] <= likes'[to] /\ likes'[to] \in Nat
              BY <1>5, <1>11
            <6> QED BY <5>1, <5>2, <5>4, <6>1, <6>2
          <5>5. CASE other.id \notin {from, to}
            <6>1. likes'[other.id] = likes[other.id]
              BY <1>11, <5>1, <5>5
            <6> QED BY <1>3, <5>2, <6>1
          <5> QED BY <5>3, <5>4, <5>5
        <4>2. ASSUME other.pc = "write", other.deed = "like", other.seenLikes = 0
              PROVE  likes'[other.id] <= 1
          <5>1. other.id \in Ids \ {from, to}
            BY <1>15, <1>17, <3>2, <4>2 DEF In
          <5> QED BY <1>11, <2>1, <4>2, <5>1 DEF LikesCover
        <4> QED BY <1>9, <3>2, <4>1, <4>2 DEF LikesCover
      <3> QED BY <3>1, <3>2
    <2> QED BY <2>4, <2>5
  <1> QED BY <1>13, <1>18, <1>19, <1>20, <1>21 DEF GuestsIInv

\* A count is written, and a merge of the user that is under way is noted.
LEMMA WriteKeeps ==
  ASSUME GuestsIInv, NEW c \in Calls, WriteLike(c) \/ WriteUsage(c) PROVE GuestsIInv'
  <1> DEFINE call == guestCall[c]
             x == call.id
  <1>1. /\ call \in Call /\ likes \in [Ids -> Nat] /\ usage \in [Ids -> Nat]
        /\ guestCall \in [Calls -> Call] /\ crossed \subseteq Crossings
        /\ liked \in Nat /\ asked \in Nat
    BY DEF GuestsIInv, GuestsTypeOK
  <1>2. call.pc = "write" /\ Leave(c) /\ UNCHANGED people
    BY DEF WriteLike, WriteUsage, In
  <1>3. x \in Ids /\ call.seenLikes \in Nat /\ call.seenUsage \in Nat
    BY <1>1, <1>2 DEF GuestsIInv, CallsFit, CallFits, AsGuest, Call
  <1>4. NoCall \in Call /\ NoCall.pc = "idle" /\ NoCall.as = "guest"
    BY DEF NoCall, Call, IdOrNone
  <1>5. /\ guestCall' \in [Calls -> Call] /\ guestCall'[c] = NoCall
        /\ \A d \in Calls : d # c => guestCall'[d] = guestCall[d]
    BY <1>1, <1>2, <1>4 DEF Leave, Now
  <1>6. CallsFit'
    BY <1>2, <1>4, <1>5 DEF GuestsIInv, CallsFit, CallFits, AsGuest, people
  <1>7. IsFiniteSet(Ids)
    BY GuestsAssumption, FS_AddElement DEF Ids
  <1>8. likes \in [Ids -> Int] /\ usage \in [Ids -> Int]
    BY <1>1
  <1>9. likes[x] \in Nat /\ usage[x] \in Nat /\ SumFunction(likes) \in Int
        /\ SumFunction(usage) \in Int
    BY <1>1, <1>3, <1>7, <1>8, SumIsInt
  <1> HIDE DEF call, x
  <1>10. CASE WriteLike(c)
    <2>1. /\ call.deed = "like" /\ UNCHANGED <<usage, asked>>
          /\ crossed' = crossed \cup {"like" : d \in MergesOf(x)}
      BY <1>10 DEF WriteLike, call, x
    <2>2. \/ call.seenLikes > 0 /\ UNCHANGED <<likes, liked>>
          \/ /\ call.seenLikes = 0 /\ likes' = [likes EXCEPT ![x] = 1]
             /\ liked' = liked + (IF likes[x] = 0 THEN 1 ELSE 0)
      BY <1>3, <1>10 DEF WriteLike, call, x
    <2>3. /\ likes' \in [Ids -> Nat] /\ liked' \in Nat /\ likes' \in [Ids -> Int]
          /\ \A y \in Ids : y # x => likes'[y] = likes[y]
          /\ likes'[x] = likes[x] \/ likes'[x] = 1
      BY <1>1, <1>3, <2>2
    <2>4. \A y \in Ids \ {x} : likes'[y] = likes[y]
      BY <2>3
    <2>5. SumFunction(likes') = SumFunction(likes) + (likes'[x] - likes[x])
      BY <1>3, <1>7, <1>8, <2>3, <2>4, SumChanges
    <2>6. GuestsTypeOK'
      <3>1. crossed' \subseteq Crossings
        BY <1>1, <2>1 DEF Crossings
      <3> QED BY <1>2, <1>5, <2>1, <2>3, <3>1 DEF GuestsIInv, GuestsTypeOK, people
    <2>7. UsageOK'
      BY <1>4, <1>5, <2>1 DEF GuestsIInv, UsageOK, UsageStands
    <2>8. ASSUME "like" \notin crossed', NEW d \in Calls, guestCall[d].pc = "move"
          PROVE  guestCall[d].id # x
      BY <2>1, <2>8 DEF MergesOf, In
    <2>9. \A d \in Calls : guestCall[d].pc \in {"move", "write"} => guestCall[d].id \in Ids
      <3> SUFFICES ASSUME NEW d \in Calls, guestCall[d].pc \in {"move", "write"}
                   PROVE  guestCall[d].id \in Ids
        OBVIOUS
      <3>1. CallFits(guestCall[d], guests) /\ guestCall[d] \in Call
        BY <1>1 DEF GuestsIInv, CallsFit
      <3> QED BY <3>1 DEF CallFits, AsGuest, Call, Ids
    <2>10. ASSUME "like" \notin crossed'
           PROVE  /\ "like" \notin crossed
                  /\ call.seenLikes = 0 => likes[x] <= 1
      <3>1. "like" \notin crossed
        BY <2>1, <2>10
      <3> QED BY <1>2, <2>1, <3>1 DEF GuestsIInv, CoverOK, LikesCover, call, x
    <2>11. ASSUME "like" \notin crossed'
           PROVE  SumFunction(likes') - liked' = SumFunction(likes) - liked
      <3>1. CASE likes' = likes /\ liked' = liked
        BY <1>1, <1>9, <3>1
      <3>2. CASE call.seenLikes = 0 /\ likes' = [likes EXCEPT ![x] = 1]
                 /\ liked' = liked + (IF likes[x] = 0 THEN 1 ELSE 0)
        <4>1. likes'[x] = 1 /\ likes[x] <= 1
          BY <1>1, <1>3, <2>10, <2>11, <3>2
        <4> QED BY <1>1, <1>9, <2>5, <3>2, <4>1
      <3> QED BY <2>2, <3>1, <3>2
    <2>12. LikesOK'
      <3> SUFFICES ASSUME crossed' \cap {"merge", "like"} = {}
                   PROVE  /\ SumFunction(likes') = liked'
                          /\ \A g \in retired : likes'[g] = 0
                          /\ \A d \in Calls : LikesStand(guestCall[d])'
        BY <1>2 DEF LikesOK, people
      <3>1. crossed \cap {"merge", "like"} = {} /\ "like" \notin crossed'
        BY <2>1
      <3>2. /\ SumFunction(likes) = liked /\ \A g \in retired : likes[g] = 0
            /\ \A d \in Calls : LikesStand(guestCall[d])
        BY <3>1 DEF GuestsIInv, LikesOK
      <3>3. SumFunction(likes') = liked'
        BY <1>1, <1>9, <2>3, <2>5, <2>11, <3>1, <3>2
      <3>4. ASSUME NEW g \in retired PROVE likes'[g] = 0
        <4>1. g \in Ids /\ g # x
          BY <1>2, <2>1, <3>2 DEF LikesStand, GuestsIInv, GuestsTypeOK, Ids, call, x
        <4> QED BY <2>3, <3>2, <4>1
      <3>5. ASSUME NEW d \in Calls PROVE LikesStand(guestCall[d])'
        <4>1. CASE d = c
          BY <1>4, <1>5, <4>1 DEF LikesStand
        <4>2. CASE d # c
          <5>1. guestCall[d].pc = "move" => guestCall[d].seenLikes = likes'[guestCall[d].id]
            BY <2>3, <2>8, <2>9, <3>1, <3>2 DEF LikesStand
          <5> QED BY <1>2, <1>5, <3>2, <4>2, <5>1 DEF LikesStand, people
        <4> QED BY <4>1, <4>2
      <3> QED BY <3>3, <3>4, <3>5
    <2>13. CoverOK'
      <3> SUFFICES ASSUME "like" \notin crossed'
                   PROVE  /\ SumFunction(likes') <= liked'
                          /\ \A d \in Calls : LikesCover(guestCall[d])'
        BY DEF CoverOK
      <3>1. SumFunction(likes) <= liked /\ \A d \in Calls : LikesCover(guestCall[d])
        BY <2>10 DEF GuestsIInv, CoverOK
      <3>2. SumFunction(likes') \in Int
        BY <1>7, <2>3, SumIsInt
      <3>3. SumFunction(likes') <= liked'
        BY <1>1, <1>9, <2>3, <2>11, <3>1, <3>2
      <3>4. ASSUME NEW d \in Calls PROVE LikesCover(guestCall[d])'
        <4>1. CASE d = c
          BY <1>4, <1>5, <4>1 DEF LikesCover
        <4>2. CASE d # c
          <5>1. guestCall[d].pc = "move" => likes'[guestCall[d].id] = likes[guestCall[d].id]
            BY <2>3, <2>8, <2>9
          <5>2. guestCall[d].pc = "write" =>
                   \/ likes'[guestCall[d].id] = likes[guestCall[d].id]
                   \/ likes'[guestCall[d].id] = 1
            BY <2>3, <2>9
          <5> QED BY <1>2, <1>5, <3>1, <4>2, <5>1, <5>2 DEF LikesCover, people
        <4> QED BY <4>1, <4>2
      <3> QED BY <3>3, <3>4
    <2> QED BY <1>6, <2>6, <2>7, <2>12, <2>13 DEF GuestsIInv
  <1>11. CASE WriteUsage(c)
    <2>1. /\ call.deed = "ask" /\ UNCHANGED <<likes, liked>> /\ asked' = asked + 1
          /\ usage' = [usage EXCEPT ![x] = call.seenUsage + 1]
          /\ crossed' = IF MergesOf(x) = {} /\ usage[x] = call.seenUsage THEN crossed
                        ELSE crossed \cup {"ask"}
      BY <1>11 DEF WriteUsage, call, x
    <2>2. /\ usage' \in [Ids -> Nat] /\ usage' \in [Ids -> Int] /\ asked' \in Nat
          /\ usage'[x] = call.seenUsage + 1
      BY <1>1, <1>3, <2>1
    <2>3. \A y \in Ids \ {x} : usage'[y] = usage[y]
      BY <1>1, <1>3, <2>1
    <2>4. SumFunction(usage') = SumFunction(usage) + (usage'[x] - usage[x])
      BY <1>3, <1>7, <1>8, <2>2, <2>3, SumChanges
    <2>5. GuestsTypeOK'
      <3>1. crossed' \subseteq Crossings
        BY <1>1, <2>1 DEF Crossings
      <3> QED BY <1>2, <1>5, <2>1, <2>2, <3>1 DEF GuestsIInv, GuestsTypeOK, people
    <2>6. crossed \subseteq crossed'
      BY <2>1
    <2>7. LikesOK' /\ CoverOK'
      <3>1. \A d \in Calls : LikesStand(guestCall[d]) => LikesStand(guestCall[d])'
        BY <1>2, <1>4, <1>5, <2>1 DEF LikesStand, people
      <3>2. \A d \in Calls : LikesCover(guestCall[d]) => LikesCover(guestCall[d])'
        BY <1>2, <1>4, <1>5, <2>1 DEF LikesCover, people
      <3>3. LikesOK'
        BY <1>2, <2>1, <2>6, <3>1 DEF GuestsIInv, LikesOK, people
      <3>4. CoverOK'
        BY <2>1, <2>6, <3>2 DEF GuestsIInv, CoverOK
      <3> QED BY <3>3, <3>4
    <2>8. UsageOK'
      <3> SUFFICES ASSUME crossed' \cap {"merge", "ask"} = {}
                   PROVE  /\ SumFunction(usage') = asked'
                          /\ \A d \in Calls : UsageStands(guestCall[d])'
        BY DEF UsageOK
      <3>1. MergesOf(x) = {} /\ usage[x] = call.seenUsage /\ crossed' = crossed
        BY <2>1
      <3>2. SumFunction(usage) = asked /\ \A d \in Calls : UsageStands(guestCall[d])
        BY <3>1 DEF GuestsIInv, UsageOK
      <3>3. SumFunction(usage') = asked'
        BY <1>1, <1>9, <2>1, <2>2, <2>4, <3>1, <3>2
      <3>4. ASSUME NEW d \in Calls PROVE UsageStands(guestCall[d])'
        <4>1. CASE d = c
          BY <1>4, <1>5, <4>1 DEF UsageStands
        <4>2. CASE d # c
          <5>1. ASSUME guestCall[d].pc = "move"
                PROVE  guestCall[d].seenUsage = usage'[guestCall[d].id]
            <6>1. guestCall[d].id # x
              BY <3>1, <5>1 DEF MergesOf, In
            <6>2. guestCall[d] \in Call /\ CallFits(guestCall[d], guests)
              BY <1>1 DEF GuestsIInv, CallsFit
            <6>3. guestCall[d].id \in Ids \ {x}
              BY <5>1, <6>1, <6>2 DEF CallFits, AsGuest, Call, Ids
            <6> QED BY <2>3, <3>2, <5>1, <6>3 DEF UsageStands
          <5> QED BY <1>5, <4>2, <5>1 DEF UsageStands
        <4> QED BY <4>1, <4>2
      <3> QED BY <3>3, <3>4
    <2> QED BY <1>6, <2>5, <2>7, <2>8 DEF GuestsIInv
  <1> QED BY <1>10, <1>11

LEMMA GuestsNextOK == GuestsIInv /\ [GuestsNext]_guestVars => GuestsIInv'
  <1> SUFFICES ASSUME GuestsIInv, [GuestsNext]_guestVars PROVE GuestsIInv'
    OBVIOUS
  <1>1. ASSUME NEW c \in Calls, ServeCall(c) PROVE GuestsIInv'
    BY <1>1, ArrivalsKeep, LooksKeep, MoveRowsKeeps, WriteKeeps DEF ServeCall
  <1>2. ASSUME NEW c \in Calls, NEW as \in {"guest", "reader", "link"},
               NEW deed \in {"like", "ask"}, ComeAs(c, as, deed)
        PROVE  GuestsIInv'
    BY <1>2, ArrivalsKeep
  <1>3. ASSUME NEW c \in Calls, NEW x \in Guests, ComeWithId(c, x) \/ ComeWithHint(c, x)
        PROVE  GuestsIInv'
    BY <1>3, ArrivalsKeep
  <1>4. CASE UNCHANGED guestVars
    BY <1>4 DEF guestVars, GuestsIInv, GuestsTypeOK, CallsFit, CallFits, AsGuest, UsageOK, UsageStands,
                LikesOK, LikesStand, CoverOK, LikesCover
  <1> QED BY <1>1, <1>2, <1>3, <1>4 DEF GuestsNext

LEMMA GuestsInvariant == GuestsSpec => []GuestsIInv
  <1> QED BY GuestsInitOK, GuestsNextOK, PTL DEF GuestsSpec

(***************************************************************************)
(* Type correctness of the guests: what the calls remember of users, rows  *)
(* and counts; and the newest guest is a guest while there is one.         *)
(***************************************************************************)
THEOREM GuestsTypeCorrect == GuestsSpec => []GuestsTypeOK
  <1>1. GuestsIInv => GuestsTypeOK
    BY DEF GuestsIInv
  <1> QED BY GuestsInvariant, <1>1, PTL

(***************************************************************************)
(* mergeAinewsGuestIntoEndUser (ainews-end-user.util.ts) loses and doubles *)
(* neither summaries nor likes, with any number of guests and of calls at  *)
(* once, as long as no work of that kind meets a merge; and merges that    *)
(* cross each other never make more likes than were given.                 *)
(***************************************************************************)
THEOREM WorkSurvivesMerges == GuestsSpec => []WorkIsKept
  <1>1. GuestsIInv => WorkIsKept
    BY DEF GuestsIInv, UsageOK, LikesOK, CoverOK, WorkIsKept, UsageIsKept, LikesAreKept,
           LikesNeverMultiply
  <1> QED BY GuestsInvariant, <1>1, PTL

-----------------------------------------------------------------------------
\* The days of AinewsDigest.  Dividing by the hours of a day keeps the order ...
LEMMA DivGrows ==
  ASSUME NEW a \in Nat, NEW b \in Nat, NEW n \in Nat \ {0}
  PROVE  a \div n \in Nat /\ (a <= b => a \div n <= b \div n)
  <1> DEFINE p == a \div n
  <1> DEFINE q == b \div n
  <1>1. p \in Int /\ q \in Int
    OBVIOUS
  <1>2. n * p <= a /\ a < n * p + n
    OBVIOUS
  <1>3. n * q <= b /\ b < n * q + n
    OBVIOUS
  <1> HIDE DEF p, q
  <1>4. p >= 0
    BY <1>1, <1>2, Z3
  <1>5. a <= b => p <= q
    BY <1>1, <1>2, <1>3, Z3
  <1> QED BY <1>1, <1>4, <1>5 DEF p, q

\* ... so the local date of a reader never goes back.
LEMMA DatesGrow ==
  ASSUME NEW u \in Readers, NEW a \in 0..MaxHour, NEW b \in 0..MaxHour
  PROVE  /\ DateKey(u, a) \in Dates
         /\ a <= b => DateKey(u, a) <= DateKey(u, b)
  <1>1. Hours \in Nat \ {0} /\ MaxHour \in Nat
    BY DigestAssumption
  <1>2. /\ Local(u, a) \in Nat /\ Local(u, b) \in Nat /\ Local(u, a) <= MaxHour + 1
        /\ a <= b => Local(u, a) <= Local(u, b)
    BY <1>1 DEF Local
  <1>3. Local(u, a) \div Hours \in Nat
    BY <1>1, <1>2, DivGrows
  <1>4. (MaxHour + 1) \div Hours \in Nat
    BY <1>1, DivGrows
  <1>5. Local(u, a) \div Hours <= (MaxHour + 1) \div Hours
    BY <1>1, <1>2, DivGrows
  <1>6. a <= b => Local(u, a) \div Hours <= Local(u, b) \div Hours
    BY <1>1, <1>2, DivGrows
  <1> QED BY <1>3, <1>4, <1>5, <1>6 DEF DateKey, Dates

-----------------------------------------------------------------------------
\* What makes MailsAreSentOnce and OptOutIsRespected inductive.  Readers with
\* no preferences have the defaults, and only readers who have some are queued.
\* What the run read of the last daily mail is still so for the queue ...
QueueOK ==
    /\ \A u \in Readers : ~prefs[u].row => prefs[u] = NoPrefs
    /\ \A u \in digest.dailies \cup digest.trialists : prefs[u].row
    /\ \A u \in digest.dailies : digest.seen[u].lastDaily = prefs[u].lastDaily
    /\ digest.at \in {"record", "recordTrial"} =>
          \A u \in digest.who : /\ prefs[u].row /\ u \notin digest.dailies
                                /\ \A v \in digest.who : v = u

\* ... nobody had a mail of a day to come ...
Clock == IF digest.at = "idle" THEN hour ELSE digest.now

TimesOK ==
    /\ digest.now <= hour
    /\ \A u \in Readers : prefs[u].lastDaily <= DateKey(u, Clock)

\* ... the mails that were sent are in the preferences, or about to be ...
DayKept(u, d) ==
    \/ d <= prefs[u].lastDaily
    \/ digest.at = "record" /\ u \in digest.who /\ d = DateKey(u, digest.now)

DailyOK ==
    digestFaults = 0 =>
        \A u \in Readers, d \in Dates :
            daily[u][d] <= 1 /\ (daily[u][d] > 0 => DayKept(u, d))

TrialOK ==
    digestFaults = 0 =>
        \A u \in Readers :
            /\ trials[u] <= 1
            /\ trials[u] > 0 =>
                  /\ u \notin digest.trialists
                  /\ \/ prefs[u].trialSent
                     \/ digest.at = "recordTrial" /\ u \in digest.who

\* ... and who had opted out when the run began, and did not come back, is not
\* in its queue.
DeafOK ==
    \A u \in digest.deaf :
        prefs[u].optOut /\ u \notin digest.dailies \cup digest.trialists

DigestIInv == DigestTypeOK /\ QueueOK /\ TimesOK /\ DailyOK /\ TrialOK /\ DeafOK

\* The records of the type invariant, by name.
Phases == {"idle", "rows", "trialRows", "boot", "create", "loop", "record", "recordTrial"}
Runs == [at : Phases, now : 0..MaxHour, who : SUBSET Readers, paid : SUBSET Readers,
         boot : SUBSET Readers, dailies : SUBSET Readers, trialists : SUBSET Readers,
         seen : [Readers -> Prefs], deaf : SUBSET Readers]

LEMMA DigestTypes ==
  /\ DigestTypeOK <=>
        /\ prefs \in [Readers -> Prefs] /\ paying \subseteq Readers /\ bare \subseteq Readers
        /\ hour \in 0..MaxHour /\ digest \in Runs
        /\ daily \in [Readers -> [Dates -> Nat]] /\ trials \in [Readers -> Nat]
        /\ changes \in 0..MaxChanges /\ digestFaults \in 0..MaxDigestFaults
  /\ NoPrefs \in Prefs /\ [NoPrefs EXCEPT !.row = TRUE] \in Prefs
  /\ Asleep \in Runs
  <1>1. NoPrefs \in Prefs /\ [NoPrefs EXCEPT !.row = TRUE] \in Prefs
    BY DEF NoPrefs, Prefs, NoDate
  <1>2. Asleep \in Runs
    BY <1>1, DigestAssumption DEF Asleep, Runs, Phases
  <1> QED BY <1>1, <1>2 DEF DigestTypeOK, Runs, Phases

LEMMA DigestInitOK == DigestInit => DigestIInv
  <1> SUFFICES ASSUME DigestInit PROVE DigestIInv
    OBVIOUS
  <1>1. DigestTypeOK
    <2>1. prefs \in [Readers -> Prefs]
      BY DigestTypes DEF DigestInit
    <2>2. daily \in [Readers -> [Dates -> Nat]] /\ trials \in [Readers -> Nat]
      BY DEF DigestInit
    <2> QED BY <2>1, <2>2, DigestTypes, DigestAssumption DEF DigestInit
  <1>2. \A u \in Readers : prefs[u].lastDaily = -1 /\ (~prefs[u].row => prefs[u] = NoPrefs)
    BY DEF DigestInit, NoPrefs, NoDate
  <1>3. /\ digest.at = "idle" /\ digest.now = 0 /\ digest.dailies = {}
        /\ digest.trialists = {} /\ digest.deaf = {} /\ hour = 0
    BY DEF DigestInit, Asleep
  <1>4. QueueOK
    BY <1>2, <1>3 DEF QueueOK
  <1>5. \A u \in Readers : DateKey(u, Clock) \in Nat
    BY <1>3, DatesGrow, DigestAssumption DEF Clock, Dates
  <1>6. TimesOK
    BY <1>2, <1>3, <1>5 DEF TimesOK
  <1>7. DailyOK /\ TrialOK /\ DeafOK
    BY <1>3 DEF DigestInit, DailyOK, TrialOK, DeafOK
  <1> QED BY <1>1, <1>4, <1>6, <1>7 DEF DigestIInv
-----------------------------------------------------------------------------
\* A step that sends and writes nothing and puts nobody into the queue.
LEMMA RunGoesOn ==
  ASSUME DigestIInv, prefs' = prefs, daily' = daily, trials' = trials,
         DigestTypeOK', digest'.now <= hour', Clock <= Clock',
         digestFaults = 0 \/ digestFaults' # 0,
         digest'.dailies \subseteq digest.dailies,
         digest'.trialists \subseteq digest.trialists,
         digest'.seen = digest.seen \/ digest'.dailies = {},
         digest'.at \in {"record", "recordTrial"} => digest'.at = digest.at,
         \/ digest.at \notin {"record", "recordTrial"}
         \/ digest'.at = digest.at /\ digest'.who = digest.who /\ digest'.now = digest.now
         \/ digestFaults' # 0,
         digest'.at \in {"record", "recordTrial"} => digest'.who = digest.who,
         \A u \in digest'.deaf :
            /\ prefs[u].optOut
            /\ u \in digest.deaf \/ digest'.dailies \cup digest'.trialists = {}
  PROVE  DigestIInv'
  <1>1. /\ hour \in 0..MaxHour /\ hour' \in 0..MaxHour /\ prefs \in [Readers -> Prefs]
        /\ digest \in Runs /\ digest' \in Runs
    BY DigestTypes DEF DigestIInv, DigestTypeOK, Runs, Phases
  <1>2. QueueOK'
    BY <1>1 DEF DigestIInv, QueueOK, Runs
  <1>3. TimesOK'
    <2>1. Clock \in 0..MaxHour /\ Clock' \in 0..MaxHour
      BY <1>1 DEF Clock, Runs
    <2>2. ASSUME NEW u \in Readers PROVE prefs[u].lastDaily <= DateKey(u, Clock')
      <3>1. prefs[u].lastDaily <= DateKey(u, Clock)
        BY DEF DigestIInv, TimesOK
      <3>2. DateKey(u, Clock) <= DateKey(u, Clock')
        BY <2>1, DatesGrow
      <3>3. DateKey(u, Clock) \in Int /\ DateKey(u, Clock') \in Int
        BY <2>1, DatesGrow DEF Dates
      <3>4. prefs[u].lastDaily \in Int
        BY <1>1 DEF Prefs, Dates, NoDate
      <3> QED BY <3>1, <3>2, <3>3, <3>4
    <2>3. \A u \in Readers : prefs'[u].lastDaily <= DateKey(u, Clock')
      BY <2>2
    <2> QED BY <2>3 DEF TimesOK, DateKey, Local
  <1>4. DailyOK'
    <2> SUFFICES ASSUME digestFaults' = 0, NEW u \in Readers, NEW d \in Dates
                 PROVE  /\ daily[u][d] <= 1
                        /\ daily[u][d] > 0 => DayKept(u, d)'
      BY DEF DailyOK
    <2>1. daily[u][d] <= 1 /\ (daily[u][d] > 0 => DayKept(u, d))
      BY DEF DigestIInv, DailyOK
    <2>2. DayKept(u, d) => DayKept(u, d)'
      BY DEF DayKept, DateKey, Local
    <2> QED BY <2>1, <2>2
  <1>5. TrialOK'
    BY DEF DigestIInv, TrialOK
  <1>6. DeafOK'
    BY DEF DigestIInv, DeafOK
  <1> QED BY <1>2, <1>3, <1>4, <1>5, <1>6 DEF DigestIInv

\* Those steps are all but the ones that follow.
QuietStep ==
    \/ ReadPaying \/ BootEnd \/ EndRun \/ RunFails \/ NextHour
    \/ \E u \in Readers : BootFind(u) \/ SkipReader(u) \/ Subscribe(u) \/ Change(u)

LEMMA QuietKeeps == DigestIInv /\ QuietStep => DigestIInv'
  <1> SUFFICES ASSUME DigestIInv, QuietStep PROVE DigestIInv'
    OBVIOUS
  <1>1. /\ hour \in 0..MaxHour /\ digest \in Runs /\ MaxHour \in Nat
        /\ digestFaults \in 0..MaxDigestFaults /\ MaxDigestFaults \in Nat
        /\ prefs \in [Readers -> Prefs] /\ digest.now <= hour
    BY DigestTypes, DigestAssumption DEF DigestIInv, TimesOK
  <1>2. /\ Asleep \in Runs /\ Asleep.at = "idle" /\ Asleep.now = 0 /\ Asleep.dailies = {}
        /\ Asleep.trialists = {} /\ Asleep.deaf = {}
    BY DigestTypes DEF Asleep
  <1>3. Clock \in 0..MaxHour /\ Clock <= hour
    BY <1>1 DEF Clock, Runs
  <1>4. DigestTypeOK
    BY DEF DigestIInv
  <1>5. \A u \in digest.deaf : prefs[u].optOut
    BY DEF DigestIInv, DeafOK
  <1>6. CASE ReadPaying
    <2> DEFINE deaf == {u \in Readers : prefs[u].optOut}
    <2>1. /\ digest' \in Runs /\ digest'.at = "rows" /\ digest'.now = hour
          /\ digest'.dailies = {} /\ digest'.trialists = {} /\ digest'.deaf = deaf
      BY <1>1, <1>2, <1>4, <1>6, DigestTypes DEF ReadPaying, Runs, Phases
    <2>2. DigestTypeOK'
      BY <1>4, <1>6, <2>1, DigestTypes DEF ReadPaying, DigestTypeOK, Runs, Phases
    <2>3. Clock' = hour /\ Clock = hour
      BY <1>6, <2>1 DEF ReadPaying, Clock
    <2> QED BY <1>1, <1>6, <2>1, <2>2, <2>3, RunGoesOn DEF ReadPaying
  <1>7. CASE BootEnd
    <2>1. digest' = [digest EXCEPT !.at = "loop"]
      BY <1>7 DEF BootEnd
    <2>2. digest' \in Runs
      BY <1>1, <2>1 DEF Runs, Phases
    <2>3. DigestTypeOK'
      BY <1>4, <1>7, <2>2 DEF BootEnd, DigestTypeOK, Runs, Phases
    <2>4. Clock' = Clock
      BY <1>1, <1>7, <2>1 DEF BootEnd, Clock, Runs
    <2> QED BY <1>1, <1>3, <1>5, <1>7, <2>1, <2>3, <2>4, RunGoesOn DEF BootEnd, Runs
  <1>8. CASE EndRun
    <2>1. DigestTypeOK'
      BY <1>2, <1>4, <1>8 DEF EndRun, DigestTypeOK, Runs, Phases
    <2>2. Clock' = hour
      BY <1>2, <1>8 DEF EndRun, Clock
    <2> QED BY <1>1, <1>2, <1>3, <1>8, <2>1, <2>2, RunGoesOn DEF EndRun
  <1>9. CASE RunFails
    <2>1. digestFaults' \in 0..MaxDigestFaults /\ digestFaults' # 0
      BY <1>1, <1>9 DEF RunFails, Failing
    <2>2. DigestTypeOK'
      BY <1>2, <1>4, <1>9, <2>1 DEF RunFails, DigestTypeOK, Runs, Phases
    <2>3. Clock' = hour
      BY <1>2, <1>9 DEF RunFails, Clock
    <2> QED BY <1>1, <1>2, <1>3, <1>9, <2>1, <2>2, <2>3, RunGoesOn DEF RunFails
  <1>10. CASE NextHour
    <2>1. hour' \in 0..MaxHour /\ hour' = hour + 1
      BY <1>1, <1>10 DEF NextHour
    <2>2. DigestTypeOK'
      BY <1>4, <1>10, <2>1 DEF NextHour, DigestTypeOK
    <2>3. Clock <= Clock'
      BY <1>1, <1>10, <2>1 DEF NextHour, Clock, Runs
    <2>4. digest'.now <= hour'
      BY <1>1, <1>10, <2>1 DEF NextHour, Runs
    <2> QED BY <1>1, <1>5, <1>10, <2>2, <2>3, <2>4, RunGoesOn DEF NextHour
  <1>11. ASSUME NEW u \in Readers, BootFind(u) PROVE DigestIInv'
    <2>1. /\ digest' \in Runs /\ digest'.at \in {"boot", "create"} /\ digest'.now = digest.now
          /\ digest'.dailies = digest.dailies /\ digest'.trialists = digest.trialists
          /\ digest'.deaf = digest.deaf /\ digest'.seen = digest.seen
      <3>1. CASE digest' = [digest EXCEPT !.boot = @ \ {u}]
        BY <1>1, <1>11, <3>1 DEF BootFind, Runs
      <3>2. CASE digest' = [digest EXCEPT !.at = "create", !.who = {u}]
        BY <1>1, <3>2 DEF Runs, Phases
      <3> QED BY <1>11, <3>1, <3>2 DEF BootFind
    <2>2. DigestTypeOK'
      BY <1>4, <1>11, <2>1 DEF BootFind, DigestTypeOK, Runs, Phases
    <2>3. Clock' = Clock
      BY <1>11, <2>1 DEF BootFind, Clock
    <2> QED BY <1>1, <1>3, <1>5, <1>11, <2>1, <2>2, <2>3, RunGoesOn DEF BootFind, Runs
  <1>12. ASSUME NEW u \in Readers, SkipReader(u) PROVE DigestIInv'
    <2>1. digest' = [digest EXCEPT !.dailies = @ \ {u}, !.trialists = @ \ {u}]
      BY <1>12 DEF SkipReader
    <2>2. /\ digest' \in Runs /\ digest'.at = digest.at /\ digest'.now = digest.now
          /\ digest'.dailies = digest.dailies \ {u}
          /\ digest'.trialists = digest.trialists \ {u}
          /\ digest'.deaf = digest.deaf /\ digest'.seen = digest.seen
      BY <1>1, <2>1 DEF Runs
    <2>3. digestFaults' \in 0..MaxDigestFaults /\ (digestFaults = 0 \/ digestFaults' # 0)
      BY <1>1, <1>12 DEF SkipReader, Failing
    <2>4. DigestTypeOK'
      BY <1>4, <1>12, <2>2, <2>3 DEF SkipReader, DigestTypeOK, Runs, Phases
    <2>5. Clock' = Clock
      BY <1>12, <2>2 DEF SkipReader, Clock
    <2> QED BY <1>1, <1>3, <1>5, <1>12, <2>2, <2>3, <2>4, <2>5, RunGoesOn DEF SkipReader, Runs
  <1>13. ASSUME NEW u \in Readers, Subscribe(u) \/ Change(u) PROVE DigestIInv'
    <2>1. /\ paying' \subseteq Readers /\ bare' \subseteq Readers
          /\ changes' \in 0..MaxChanges
      BY <1>4, <1>13, DigestAssumption DEF Subscribe, Change, DigestTypeOK
    <2>2. DigestTypeOK'
      BY <1>4, <1>13, <2>1 DEF Subscribe, Change, DigestTypeOK
    <2>3. Clock' = Clock
      BY <1>13 DEF Subscribe, Change, Clock
    <2> QED BY <1>1, <1>3, <1>5, <1>13, <2>2, <2>3, RunGoesOn DEF Subscribe, Change, Runs
  <1> QED BY <1>6, <1>7, <1>8, <1>9, <1>10, <1>11, <1>12, <1>13 DEF QuietStep

-----------------------------------------------------------------------------
\* The queue is read: readers who did not opt out, with what they had today ...
LEMMA ReadDailyRowsKeeps == DigestIInv /\ ReadDailyRows => DigestIInv'
  <1> SUFFICES ASSUME DigestIInv, ReadDailyRows PROVE DigestIInv'
    OBVIOUS
  <1>1. digest \in Runs /\ prefs \in [Readers -> Prefs]
    BY DigestTypes DEF DigestIInv
  <1>2. PICK dailies \in SUBSET Readers :
          /\ \A u \in dailies : Open(u)
          /\ digest' = [digest EXCEPT !.at = "trialRows", !.seen = prefs, !.dailies = dailies]
    <2>1. {u \in digest.paid : Open(u)} \in SUBSET Readers
      BY <1>1 DEF Runs
    <2> QED BY <2>1 DEF ReadDailyRows
  <1>3. /\ digest' \in Runs /\ digest'.at = "trialRows" /\ digest'.now = digest.now
        /\ digest'.seen = prefs /\ digest'.dailies = dailies
        /\ digest'.trialists = digest.trialists /\ digest'.deaf = digest.deaf
    BY <1>1, <1>2 DEF Runs, Phases
  <1>4. DigestTypeOK'
    BY <1>3 DEF DigestIInv, ReadDailyRows, DigestTypeOK, Runs, Phases
  <1>5. QueueOK'
    BY <1>2, <1>3 DEF DigestIInv, QueueOK, ReadDailyRows, Open
  <1>6. Clock' = Clock
    BY <1>3 DEF ReadDailyRows, Clock
  <1>7. TimesOK'
    BY <1>3, <1>6 DEF DigestIInv, TimesOK, ReadDailyRows, DateKey, Local
  <1>8. DailyOK'
    BY <1>3 DEF DigestIInv, DailyOK, DayKept, ReadDailyRows
  <1>9. TrialOK'
    BY <1>2, <1>3 DEF DigestIInv, TrialOK, ReadDailyRows
  <1>10. DeafOK'
    BY <1>2, <1>3 DEF DigestIInv, DeafOK, ReadDailyRows, Open
  <1> QED BY <1>4, <1>5, <1>7, <1>8, <1>9, <1>10 DEF DigestIInv

\* ... and readers who had no trial.
LEMMA ReadTrialRowsKeeps == DigestIInv /\ ReadTrialRows => DigestIInv'
  <1> SUFFICES ASSUME DigestIInv, ReadTrialRows PROVE DigestIInv'
    OBVIOUS
  <1>1. digest \in Runs /\ prefs \in [Readers -> Prefs]
    BY DigestTypes DEF DigestIInv
  <1>2. PICK trialists \in SUBSET Readers :
          /\ \A u \in trialists : Open(u) /\ ~prefs[u].trialSent
          /\ digest' = [digest EXCEPT !.at = "boot", !.trialists = trialists,
                           !.boot = Readers \ digest.paid]
    BY DEF ReadTrialRows
  <1>3. /\ digest' \in Runs /\ digest'.at = "boot" /\ digest'.now = digest.now
        /\ digest'.seen = digest.seen /\ digest'.dailies = digest.dailies
        /\ digest'.trialists = trialists /\ digest'.deaf = digest.deaf
    BY <1>1, <1>2 DEF Runs, Phases
  <1>4. DigestTypeOK'
    BY <1>3 DEF DigestIInv, ReadTrialRows, DigestTypeOK, Runs, Phases
  <1>5. QueueOK'
    BY <1>2, <1>3 DEF DigestIInv, QueueOK, ReadTrialRows, Open
  <1>6. Clock' = Clock
    BY <1>3 DEF ReadTrialRows, Clock
  <1>7. TimesOK'
    BY <1>3, <1>6 DEF DigestIInv, TimesOK, ReadTrialRows, DateKey, Local
  <1>8. DailyOK'
    BY <1>3 DEF DigestIInv, DailyOK, DayKept, ReadTrialRows
  <1>9. TrialOK'
    BY <1>2, <1>3 DEF DigestIInv, TrialOK, ReadTrialRows
  <1>10. DeafOK'
    BY <1>2, <1>3 DEF DigestIInv, DeafOK, ReadTrialRows, Open
  <1> QED BY <1>4, <1>5, <1>7, <1>8, <1>9, <1>10 DEF DigestIInv

\* Who has no preferences had no mail yet.
LEMMA NoRowNoMail ==
  ASSUME DigestIInv, digestFaults = 0, NEW u \in Readers, ~prefs[u].row,
         digest.at \notin {"record", "recordTrial"}
  PROVE  (\A d \in Dates : daily[u][d] = 0) /\ trials[u] = 0
  <1>1. prefs[u].lastDaily = -1 /\ ~prefs[u].trialSent
    BY DEF DigestIInv, QueueOK, NoPrefs, NoDate
  <1>2. daily[u] \in [Dates -> Nat] /\ trials[u] \in Nat
    BY DEF DigestIInv, DigestTypeOK
  <1>3. ASSUME NEW d \in Dates PROVE daily[u][d] = 0
    <2>1. ~DayKept(u, d)
      BY <1>1 DEF DayKept, Dates
    <2> QED BY <1>2, <2>1 DEF DigestIInv, DailyOK
  <1>4. trials[u] = 0
    BY <1>1, <1>2 DEF DigestIInv, TrialOK
  <1> QED BY <1>3, <1>4

LEMMA BootCreateKeeps ==
  ASSUME DigestIInv, NEW u \in Readers, BootCreate(u) PROVE DigestIInv'
  <1>1. /\ digest \in Runs /\ prefs \in [Readers -> Prefs] /\ hour \in 0..MaxHour
        /\ MaxHour \in Nat /\ digest.at = "create"
    BY DigestTypes, DigestAssumption DEF DigestIInv, BootCreate
  <1>2. CASE prefs[u].row
    <2>1. /\ Asleep \in Runs /\ Asleep.at = "idle" /\ Asleep.now = 0 /\ Asleep.dailies = {}
          /\ Asleep.trialists = {} /\ Asleep.deaf = {}
      BY DigestTypes DEF Asleep
    <2>2. /\ digest' = Asleep
          /\ UNCHANGED <<prefs, bare, hour, paying, daily, trials, changes, digestFaults>>
      BY <1>2 DEF BootCreate
    <2>3. DigestTypeOK'
      BY <2>1, <2>2 DEF DigestIInv, DigestTypeOK, Runs, Phases
    <2>4. Clock' = hour /\ Clock <= hour
      BY <1>1, <2>1, <2>2 DEF Clock, DigestIInv, TimesOK
    <2> QED BY <1>1, <2>1, <2>2, <2>3, <2>4, RunGoesOn
  <1>3. CASE ~prefs[u].row
    <2> DEFINE fresh == [NoPrefs EXCEPT !.row = TRUE]
    <2>1. /\ fresh \in Prefs /\ fresh.row /\ ~fresh.optOut /\ ~fresh.trialSent
          /\ fresh.lastDaily = -1
      BY DigestTypes DEF NoPrefs, NoDate
    <2>2. /\ prefs' = [prefs EXCEPT ![u] = fresh]
          /\ digest' = [digest EXCEPT !.at = "boot", !.who = {}, !.boot = @ \ {u},
                           !.trialists = @ \cup {u}, !.seen[u] = fresh]
          /\ UNCHANGED <<bare, paying, hour, daily, trials, changes, digestFaults>>
      BY <1>3 DEF BootCreate
    <2> HIDE DEF fresh
    <2>3. PICK seen \in [Readers -> Prefs] :
            /\ seen = [digest.seen EXCEPT ![u] = fresh]
            /\ digest' = [digest EXCEPT !.at = "boot", !.who = {}, !.boot = @ \ {u},
                             !.trialists = @ \cup {u}, !.seen = seen]
      <3>1. [digest.seen EXCEPT ![u] = fresh] \in [Readers -> Prefs]
        BY <1>1, <2>1 DEF Runs
      <3>2. digest' = [digest EXCEPT !.at = "boot", !.who = {}, !.boot = @ \ {u},
                          !.trialists = @ \cup {u},
                          !.seen = [digest.seen EXCEPT ![u] = fresh]]
        BY <2>2
      <3> QED BY <3>1, <3>2
    <2>4. /\ digest' \in Runs /\ digest'.at = "boot" /\ digest'.now = digest.now
          /\ digest'.seen = seen /\ digest'.dailies = digest.dailies
          /\ digest'.trialists = digest.trialists \cup {u} /\ digest'.deaf = digest.deaf
      BY <1>1, <2>3 DEF Runs, Phases
    <2>5. /\ prefs' \in [Readers -> Prefs] /\ prefs'[u] = fresh
          /\ \A v \in Readers : v # u => prefs'[v] = prefs[v]
      BY <1>1, <2>1, <2>2
    <2>6. DigestTypeOK'
      BY <2>2, <2>4, <2>5 DEF DigestIInv, DigestTypeOK, Runs, Phases
    <2>7. u \notin digest.dailies /\ u \notin digest.deaf
      BY <1>1, <1>3 DEF DigestIInv, QueueOK, DeafOK, NoPrefs
    <2>8. QueueOK'
      <3>1. \A v \in digest.dailies : v # u /\ v \in Readers /\ seen[v] = digest.seen[v]
        BY <1>1, <2>3, <2>7 DEF Runs
      <3>2. \A v \in digest'.dailies \cup digest'.trialists : prefs'[v].row
        BY <1>1, <2>1, <2>4, <2>5 DEF DigestIInv, QueueOK, Runs
      <3>3. \A v \in digest'.dailies : digest'.seen[v].lastDaily = prefs'[v].lastDaily
        BY <2>4, <2>5, <3>1 DEF DigestIInv, QueueOK
      <3>4. \A v \in Readers : ~prefs'[v].row => prefs'[v] = NoPrefs
        BY <2>1, <2>5 DEF DigestIInv, QueueOK
      <3> QED BY <2>4, <3>2, <3>3, <3>4 DEF QueueOK
    <2>9. Clock' = Clock /\ Clock = digest.now /\ digest.now \in 0..MaxHour
      BY <1>1, <2>4 DEF Clock, Runs
    <2>10. TimesOK'
      <3>1. DateKey(u, Clock) \in Nat
        BY <2>9, DatesGrow DEF Dates
      <3>2. \A v \in Readers : prefs'[v].lastDaily <= DateKey(v, Clock)
        BY <2>1, <2>5, <3>1 DEF DigestIInv, TimesOK
      <3> QED BY <2>2, <2>4, <2>9, <3>2 DEF DigestIInv, TimesOK, DateKey, Local
    <2>11. digestFaults = 0 => (\A d \in Dates : daily[u][d] = 0) /\ trials[u] = 0
      BY <1>1, <1>3, NoRowNoMail
    <2>12. DailyOK'
      BY <1>1, <2>2, <2>4, <2>5, <2>11 DEF DigestIInv, DailyOK, DayKept
    <2>13. TrialOK'
      BY <1>1, <2>2, <2>4, <2>5, <2>11 DEF DigestIInv, TrialOK
    <2>14. DeafOK'
      <3>1. \A v \in digest.deaf : v \in Readers /\ v # u
        BY <1>1, <2>7 DEF Runs
      <3> QED BY <2>4, <2>5, <3>1 DEF DigestIInv, DeafOK
    <2> QED BY <2>6, <2>8, <2>10, <2>12, <2>13, <2>14 DEF DigestIInv
  <1> QED BY <1>2, <1>3

-----------------------------------------------------------------------------
\* A daily mail of the window's day goes to a reader who had none.
LEMMA DueMeansNone ==
  ASSUME DigestIInv, digestFaults = 0, NEW u \in digest.dailies, DueToday(u),
         digest.at = "loop"
  PROVE  daily[u][DateKey(u, digest.now)] = 0
  <1>1. /\ u \in Readers /\ prefs[u] \in Prefs /\ digest.now \in 0..MaxHour
        /\ daily[u] \in [Dates -> Nat]
    BY DigestTypes DEF DigestIInv, DigestTypeOK
  <1>2. DateKey(u, digest.now) \in Dates /\ prefs[u].lastDaily \in Int
    BY <1>1, DatesGrow DEF Prefs, Dates, NoDate
  <1>3. Clock = digest.now
    BY DEF Clock
  <1>4. prefs[u].lastDaily < DateKey(u, digest.now)
    <2>1. prefs[u].lastDaily # DateKey(u, digest.now)
      BY DEF DigestIInv, QueueOK, DueToday
    <2>2. prefs[u].lastDaily <= DateKey(u, digest.now)
      BY <1>1, <1>3 DEF DigestIInv, TimesOK
    <2>3. DateKey(u, digest.now) \in Int
      BY <1>2 DEF Dates
    <2> QED BY <1>2, <2>1, <2>2, <2>3
  <1>5. ~DayKept(u, DateKey(u, digest.now))
    BY <1>2, <1>4 DEF DayKept, Dates
  <1> QED BY <1>1, <1>2, <1>5 DEF DigestIInv, DailyOK

LEMMA SendDailyKeeps ==
  ASSUME DigestIInv, NEW u \in Readers, SendDaily(u) PROVE DigestIInv'
  <1>1. /\ digest \in Runs /\ prefs \in [Readers -> Prefs] /\ digest.at = "loop"
        /\ u \in digest.dailies /\ DueToday(u) /\ daily \in [Readers -> [Dates -> Nat]]
    BY DigestTypes DEF DigestIInv, SendDaily
  <1> DEFINE today == DateKey(u, digest.now)
  <1>2. today \in Dates
    BY <1>1, DatesGrow DEF Runs
  <1>3. /\ digest' = [digest EXCEPT !.at = "record", !.dailies = @ \ {u}, !.who = {u}]
        /\ daily' = [daily EXCEPT ![u] = [daily[u] EXCEPT ![today] = daily[u][today] + 1]]
        /\ UNCHANGED <<prefs, bare, paying, hour, trials, changes, digestFaults>>
    BY <1>1 DEF SendDaily
  <1>4. /\ digest' \in Runs /\ digest'.at = "record" /\ digest'.now = digest.now
        /\ digest'.seen = digest.seen /\ digest'.dailies = digest.dailies \ {u}
        /\ digest'.trialists = digest.trialists /\ digest'.deaf = digest.deaf
        /\ digest'.who = {u}
    BY <1>1, <1>3 DEF Runs, Phases
  <1>5. /\ digestFaults = 0 => daily[u][today] = 0
    BY <1>1, DueMeansNone
  <1>6. DateKey(u, digest.now)' = today
    BY <1>4 DEF DateKey, Local
  <1> HIDE DEF today
  <1>7. daily[u] \in [Dates -> Nat] /\ daily[u][today] + 1 \in Nat
    BY <1>1, <1>2
  <1>8. [daily[u] EXCEPT ![today] = daily[u][today] + 1] \in [Dates -> Nat]
    BY <1>7
  <1>9. /\ daily' \in [Readers -> [Dates -> Nat]]
        /\ daily'[u][today] = daily[u][today] + 1
        /\ \A d \in Dates : d # today => daily'[u][d] = daily[u][d]
        /\ \A v \in Readers : v # u => daily'[v] = daily[v]
    BY <1>1, <1>2, <1>3, <1>7, <1>8
  <1>10. DigestTypeOK'
    BY <1>3, <1>4, <1>9 DEF DigestIInv, DigestTypeOK, Runs, Phases
  <1>11. QueueOK'
    BY <1>1, <1>3, <1>4 DEF DigestIInv, QueueOK, Runs
  <1>12. TimesOK'
    <2>1. Clock' = Clock
      BY <1>1, <1>4 DEF Clock
    <2> QED BY <1>3, <1>4, <2>1 DEF DigestIInv, TimesOK, DateKey, Local
  <1>13. DailyOK'
    <2> SUFFICES ASSUME digestFaults = 0, NEW v \in Readers, NEW d \in Dates
                 PROVE  daily'[v][d] <= 1 /\ (daily'[v][d] > 0 => DayKept(v, d)')
      BY <1>3 DEF DailyOK
    <2>1. CASE v = u /\ d = today
      <3>1. daily'[v][d] = 1
        BY <1>5, <1>9, <2>1
      <3>2. DayKept(v, d)'
        BY <1>4, <1>6, <2>1 DEF DayKept
      <3> QED BY <3>1, <3>2
    <2>2. CASE ~(v = u /\ d = today)
      <3>1. daily'[v][d] = daily[v][d]
        BY <1>9, <2>2
      <3>2. daily[v][d] <= 1 /\ (daily[v][d] > 0 => DayKept(v, d))
        BY DEF DigestIInv, DailyOK
      <3>3. DayKept(v, d) => DayKept(v, d)'
        BY <1>1, <1>3 DEF DayKept
      <3> QED BY <3>1, <3>2, <3>3
    <2> QED BY <2>1, <2>2
  <1>14. TrialOK' /\ DeafOK'
    BY <1>1, <1>3, <1>4 DEF DigestIInv, TrialOK, DeafOK
  <1> QED BY <1>10, <1>11, <1>12, <1>13, <1>14 DEF DigestIInv

LEMMA SendTrialKeeps ==
  ASSUME DigestIInv, NEW u \in Readers, SendTrial(u) PROVE DigestIInv'
  <1>1. /\ digest \in Runs /\ digest.at = "loop" /\ digest.dailies = {}
        /\ u \in digest.trialists /\ trials \in [Readers -> Nat]
        /\ digest' = [digest EXCEPT !.at = "recordTrial", !.trialists = @ \ {u},
                         !.who = {u}]
        /\ trials' = [trials EXCEPT ![u] = trials[u] + 1]
        /\ UNCHANGED <<prefs, bare, paying, hour, daily, changes, digestFaults>>
    BY DigestTypes DEF DigestIInv, SendTrial
  <1>2. /\ digest' \in Runs /\ digest'.at = "recordTrial" /\ digest'.now = digest.now
        /\ digest'.seen = digest.seen /\ digest'.dailies = {}
        /\ digest'.trialists = digest.trialists \ {u} /\ digest'.deaf = digest.deaf
        /\ digest'.who = {u}
    BY <1>1 DEF Runs, Phases
  <1>3. /\ trials' \in [Readers -> Nat] /\ trials'[u] = trials[u] + 1
        /\ \A v \in Readers : v # u => trials'[v] = trials[v]
    BY <1>1
  <1>4. digestFaults = 0 => trials[u] = 0
    BY <1>1 DEF DigestIInv, TrialOK
  <1>5. DigestTypeOK'
    BY <1>1, <1>2, <1>3 DEF DigestIInv, DigestTypeOK, Runs, Phases
  <1>6. QueueOK'
    BY <1>1, <1>2 DEF DigestIInv, QueueOK, Runs
  <1>7. TimesOK'
    <2>1. Clock' = Clock
      BY <1>1, <1>2 DEF Clock
    <2> QED BY <1>1, <1>2, <2>1 DEF DigestIInv, TimesOK, DateKey, Local
  <1>8. DailyOK'
    BY <1>1, <1>2 DEF DigestIInv, DailyOK, DayKept
  <1>9. TrialOK'
    BY <1>1, <1>2, <1>3, <1>4 DEF DigestIInv, TrialOK
  <1>10. DeafOK'
    BY <1>1, <1>2 DEF DigestIInv, DeafOK
  <1> QED BY <1>5, <1>6, <1>7, <1>8, <1>9, <1>10 DEF DigestIInv

\* The record keeps the other columns, and the mail's own from then on.
LEMMA RecordKeeps ==
  ASSUME DigestIInv, NEW u \in Readers, Record(u) PROVE DigestIInv'
  <1>1. /\ digest \in Runs /\ prefs \in [Readers -> Prefs] /\ hour \in 0..MaxHour
        /\ digest.at \in {"record", "recordTrial"} /\ u \in digest.who
        /\ digest' = [digest EXCEPT !.at = "loop", !.who = {}]
        /\ prefs' = [prefs EXCEPT ![u] = RecordColumn(u)]
        /\ UNCHANGED <<bare, paying, hour, daily, trials, changes, digestFaults>>
    BY DigestTypes DEF DigestIInv, Record
  <1>2. /\ digest' \in Runs /\ digest'.at = "loop" /\ digest'.now = digest.now
        /\ digest'.seen = digest.seen /\ digest'.dailies = digest.dailies
        /\ digest'.trialists = digest.trialists /\ digest'.deaf = digest.deaf
    BY <1>1 DEF Runs, Phases
  <1> DEFINE today == DateKey(u, digest.now)
  <1>3. today \in Dates /\ Clock = digest.now /\ Clock' = digest.now /\ digest.now \in 0..MaxHour
    BY <1>1, <1>2, DatesGrow DEF Clock, Runs
  <1>4. prefs[u].row /\ u \notin digest.dailies /\ prefs[u] \in Prefs
    BY <1>1 DEF DigestIInv, QueueOK
  <1> DEFINE new == RecordColumn(u)
  <1>5. /\ new \in Prefs /\ new.row /\ new.optOut = prefs[u].optOut
        /\ prefs[u].trialSent => new.trialSent
        /\ prefs[u].lastDaily <= new.lastDaily /\ new.lastDaily <= today
        /\ digest.at = "record" => new.lastDaily = today
        /\ digest.at = "recordTrial" => new.trialSent
    <2>1. prefs[u].lastDaily <= today /\ prefs[u].lastDaily \in Int /\ today \in Int
      BY <1>3, <1>4 DEF DigestIInv, TimesOK, Prefs, Dates, NoDate
    <2>2. CASE digest.at = "record"
      <3>1. new = [prefs[u] EXCEPT !.lastDaily = today]
        BY <2>2 DEF RecordColumn
      <3> HIDE DEF new, today
      <3> QED BY <1>3, <1>4, <2>1, <2>2, <3>1 DEF Prefs
    <2>3. CASE digest.at = "recordTrial"
      <3>1. new = [prefs[u] EXCEPT !.trialSent = TRUE]
        BY <2>3 DEF RecordColumn
      <3> HIDE DEF new, today
      <3>2. new \in Prefs
        BY <1>4, <3>1, Zenon DEF Prefs
      <3>3. new.row = prefs[u].row /\ new.optOut = prefs[u].optOut
        BY <1>4, <3>1 DEF Prefs
      <3>4. new.lastDaily = prefs[u].lastDaily /\ new.trialSent
        BY <1>4, <3>1 DEF Prefs
      <3> QED BY <1>4, <2>1, <2>3, <3>2, <3>3, <3>4
    <2> QED BY <1>1, <2>2, <2>3
  <1>6. prefs' = [prefs EXCEPT ![u] = new]
    BY <1>1
  <1> HIDE DEF new
  <1>7. /\ prefs' \in [Readers -> Prefs] /\ prefs'[u] = new
        /\ \A v \in Readers : v # u => prefs'[v] = prefs[v]
    BY <1>1, <1>5, <1>6
  <1>8. DigestTypeOK'
    BY <1>1, <1>2, <1>7 DEF DigestIInv, DigestTypeOK, Runs, Phases
  <1>9. QueueOK'
    <2>1. \A v \in digest.dailies : v \in Readers /\ v # u
      BY <1>1, <1>4 DEF Runs
    <2>2. \A v \in Readers : ~prefs'[v].row => prefs'[v] = NoPrefs
      BY <1>5, <1>7 DEF DigestIInv, QueueOK
    <2>3. \A v \in digest.dailies \cup digest.trialists : prefs'[v].row
      BY <1>1, <1>5, <1>7 DEF DigestIInv, QueueOK, Runs
    <2>4. \A v \in digest.dailies : digest.seen[v].lastDaily = prefs'[v].lastDaily
      BY <1>7, <2>1 DEF DigestIInv, QueueOK
    <2> QED BY <1>2, <2>2, <2>3, <2>4 DEF QueueOK
  <1>10. TimesOK'
    <2>1. \A v \in Readers : prefs'[v].lastDaily <= DateKey(v, digest.now)
      BY <1>3, <1>5, <1>7 DEF DigestIInv, TimesOK
    <2> QED BY <1>1, <1>2, <1>3, <2>1 DEF DigestIInv, TimesOK, DateKey, Local
  <1>11. DailyOK'
    <2> SUFFICES ASSUME digestFaults = 0, NEW v \in Readers, NEW d \in Dates
                 PROVE  daily[v][d] <= 1 /\ (daily[v][d] > 0 => d <= prefs'[v].lastDaily)
      BY <1>1 DEF DailyOK, DayKept
    <2>1. daily[v][d] <= 1 /\ (daily[v][d] > 0 => DayKept(v, d))
      BY DEF DigestIInv, DailyOK
    <2>2. ASSUME DayKept(v, d) PROVE d <= prefs'[v].lastDaily
      <3>1. prefs[v].lastDaily <= prefs'[v].lastDaily
        BY <1>1, <1>5, <1>7 DEF Prefs, Dates, NoDate
      <3>2. prefs[v].lastDaily \in Int /\ prefs'[v].lastDaily \in Int /\ d \in Int
        BY <1>1, <1>7 DEF Prefs, Dates, NoDate
      <3>3. CASE d <= prefs[v].lastDaily
        BY <3>1, <3>2, <3>3
      <3>4. CASE digest.at = "record" /\ v \in digest.who /\ d = DateKey(v, digest.now)
        <4>1. v = u
          BY <1>1, <3>4 DEF DigestIInv, QueueOK
        <4> QED BY <1>5, <1>7, <3>2, <3>4, <4>1
      <3> QED BY <2>2, <3>3, <3>4 DEF DayKept
    <2> QED BY <2>1, <2>2
  <1>12. TrialOK'
    <2>1. \A v \in digest.who : v = u
      BY <1>1 DEF DigestIInv, QueueOK
    <2> QED BY <1>1, <1>2, <1>5, <1>7, <2>1 DEF DigestIInv, TrialOK
  <1>13. DeafOK'
    BY <1>1, <1>2, <1>5, <1>7 DEF DigestIInv, DeafOK, Runs
  <1> QED BY <1>8, <1>9, <1>10, <1>11, <1>12, <1>13 DEF DigestIInv

-----------------------------------------------------------------------------
\* A reader who changes the opt-out changes nothing else.
LEMMA ChoiceKeeps ==
  ASSUME DigestIInv, NEW u \in Readers, NEW new \in Prefs, NEW deaf \in SUBSET digest.deaf,
         prefs' = [prefs EXCEPT ![u] = new], digest' = [digest EXCEPT !.deaf = deaf],
         new.row, new.trialSent = prefs[u].trialSent, new.lastDaily = prefs[u].lastDaily,
         u \in deaf => new.optOut, changes' \in 0..MaxChanges,
         UNCHANGED <<bare, paying, hour, daily, trials, digestFaults>>
  PROVE  DigestIInv'
  <1>1. /\ digest \in Runs /\ prefs \in [Readers -> Prefs]
    BY DigestTypes DEF DigestIInv
  <1>2. /\ digest' \in Runs /\ digest'.at = digest.at /\ digest'.now = digest.now
        /\ digest'.seen = digest.seen /\ digest'.dailies = digest.dailies
        /\ digest'.trialists = digest.trialists /\ digest'.deaf = deaf
        /\ digest'.who = digest.who
    BY <1>1 DEF Runs
  <1>3. /\ prefs' \in [Readers -> Prefs] /\ prefs'[u] = new
        /\ \A v \in Readers : v # u => prefs'[v] = prefs[v]
    BY <1>1
  <1>4. DigestTypeOK'
    BY <1>2, <1>3 DEF DigestIInv, DigestTypeOK, Runs, Phases
  <1>5. QueueOK'
    BY <1>1, <1>2, <1>3 DEF DigestIInv, QueueOK, Runs
  <1>6. Clock' = Clock
    BY <1>2 DEF Clock
  <1>7. \A v \in Readers : prefs'[v].lastDaily = prefs[v].lastDaily
    BY <1>3
  <1>8. TimesOK'
    BY <1>2, <1>6, <1>7 DEF DigestIInv, TimesOK, DateKey, Local
  <1>9. DailyOK'
    BY <1>2, <1>7 DEF DigestIInv, DailyOK, DayKept, DateKey, Local
  <1>10. TrialOK'
    BY <1>2, <1>3 DEF DigestIInv, TrialOK
  <1>11. DeafOK'
    BY <1>1, <1>2, <1>3 DEF DigestIInv, DeafOK, Runs
  <1> QED BY <1>4, <1>5, <1>8, <1>9, <1>10, <1>11 DEF DigestIInv

LEMMA PutPrefsKeeps ==
  ASSUME DigestIInv, NEW u \in Readers, NEW o \in BOOLEAN, PutPrefs(u, o)
  PROVE  DigestIInv'
  <1>1. digest \in Runs /\ prefs[u] \in Prefs /\ changes' \in 0..MaxChanges
    BY DigestTypes, DigestAssumption DEF DigestIInv, PutPrefs
  <1>2. PICK new : new = [prefs[u] EXCEPT !.row = TRUE, !.optOut = o]
    OBVIOUS
  <1>3. new \in Prefs
    BY <1>1, <1>2, Zenon DEF Prefs
  <1>4. /\ new.row /\ new.optOut = o /\ new.trialSent = prefs[u].trialSent
        /\ new.lastDaily = prefs[u].lastDaily
    BY <1>1, <1>2 DEF Prefs
  <1>5. /\ prefs' = [prefs EXCEPT ![u] = new]
        /\ UNCHANGED <<bare, paying, hour, daily, trials, digestFaults>>
    BY <1>2 DEF PutPrefs
  <1>6. CASE o
    <2>1. digest' = [digest EXCEPT !.deaf = digest.deaf]
      BY <1>1, <1>6 DEF PutPrefs, Runs
    <2> QED BY <1>1, <1>3, <1>4, <1>5, <1>6, <2>1, ChoiceKeeps
  <1>7. CASE ~o
    <2>1. digest' = [digest EXCEPT !.deaf = digest.deaf \ {u}]
      BY <1>7 DEF PutPrefs
    <2> QED BY <1>1, <1>3, <1>4, <1>5, <2>1, ChoiceKeeps
  <1> QED BY <1>6, <1>7

LEMMA EmailUnsubscribeKeeps ==
  ASSUME DigestIInv, NEW u \in Readers, EmailUnsubscribe(u) PROVE DigestIInv'
  <1>1. digest \in Runs /\ prefs[u] \in Prefs /\ changes' \in 0..MaxChanges
    BY DigestTypes, DigestAssumption DEF DigestIInv, EmailUnsubscribe
  <1>2. PICK new : new = [prefs[u] EXCEPT !.optOut = TRUE]
    OBVIOUS
  <1>3. new \in Prefs
    BY <1>1, <1>2, Zenon DEF Prefs
  <1>4. /\ new.row /\ new.optOut /\ new.trialSent = prefs[u].trialSent
        /\ new.lastDaily = prefs[u].lastDaily
    BY <1>1, <1>2 DEF Prefs, EmailUnsubscribe
  <1>5. /\ prefs' = [prefs EXCEPT ![u] = new]
        /\ UNCHANGED <<bare, paying, hour, digest, daily, trials, digestFaults>>
    BY <1>2 DEF EmailUnsubscribe
  <1>6. digest' = [digest EXCEPT !.deaf = digest.deaf]
    BY <1>1, <1>5 DEF Runs
  <1> QED BY <1>1, <1>3, <1>4, <1>5, <1>6, ChoiceKeeps

LEMMA DigestNextOK == DigestIInv /\ [DigestNext]_digestVars => DigestIInv'
  <1> SUFFICES ASSUME DigestIInv, [DigestNext]_digestVars PROVE DigestIInv'
    OBVIOUS
  <1>1. CASE QuietStep
    BY <1>1, QuietKeeps
  <1>2. CASE ReadDailyRows \/ ReadTrialRows
    BY <1>2, ReadDailyRowsKeeps, ReadTrialRowsKeeps
  <1>3. ASSUME NEW u \in Readers,
               BootCreate(u) \/ SendDaily(u) \/ SendTrial(u) \/ Record(u)
        PROVE  DigestIInv'
    BY <1>3, BootCreateKeeps, SendDailyKeeps, SendTrialKeeps, RecordKeeps
  <1>4. ASSUME NEW u \in Readers, EmailUnsubscribe(u) PROVE DigestIInv'
    BY <1>4, EmailUnsubscribeKeeps
  <1>5. ASSUME NEW u \in Readers, NEW o \in BOOLEAN, PutPrefs(u, o) PROVE DigestIInv'
    BY <1>5, PutPrefsKeeps
  <1>6. CASE UNCHANGED digestVars
    BY <1>6 DEF digestVars, DigestIInv, DigestTypeOK, QueueOK, TimesOK, DailyOK, DayKept,
                TrialOK, DeafOK, Clock, DateKey, Local
  <1> QED BY <1>1, <1>2, <1>3, <1>4, <1>5, <1>6
          DEF DigestNext, RunStep, ReaderStep, QuietStep

LEMMA DigestInvariant == DigestSpec => []DigestIInv
  <1> QED BY DigestInitOK, DigestNextOK, PTL DEF DigestSpec

-----------------------------------------------------------------------------
(***************************************************************************)
(* Type correctness of the digest: what its run remembers are readers and  *)
(* preferences, and its mails are counted by date.                         *)
(***************************************************************************)
THEOREM DigestTypeCorrect == DigestSpec => []DigestTypeOK
  <1>1. DigestIInv => DigestTypeOK
    BY DEF DigestIInv
  <1> QED BY DigestInvariant, <1>1, PTL

(***************************************************************************)
(* As long as nothing fails, runDigest (ainews-digest.service.ts) sends a  *)
(* reader at most one daily mail for a local date and one trial: however   *)
(* long a run takes and whatever the readers change while it goes on.      *)
(***************************************************************************)
THEOREM MailsGoOutOnce == DigestSpec => []MailsAreSentOnce
  <1>1. DigestIInv => MailsAreSentOnce
    <2> SUFFICES ASSUME DigestIInv, digestFaults = 0, NEW u \in Readers
                 PROVE  (\A d \in DOMAIN daily[u] : daily[u][d] <= 1) /\ trials[u] <= 1
      BY DEF MailsAreSentOnce, DailyOnce, TrialOnce
    <2>1. DOMAIN daily[u] = Dates
      BY DEF DigestIInv, DigestTypeOK
    <2> QED BY <2>1 DEF DigestIInv, DailyOK, TrialOK
  <1> QED BY DigestInvariant, <1>1, PTL

(***************************************************************************)
(* A reader who had opted out when a run began, and did not come back,     *)
(* gets no mail of it, and no step of a run undoes an opt-out, the ones of *)
(* emailUnsubscribe that come while it goes on included.                   *)
(***************************************************************************)
THEOREM OptOutsHold == DigestSpec => OptOutIsRespected
  <1> DEFINE A == /\ \A u \in digest.deaf : daily'[u] = daily[u] /\ trials'[u] = trials[u]
                  /\ RunStep => \A u \in Readers : prefs[u].optOut => prefs'[u].optOut
  <1>1. ASSUME DigestIInv, [DigestNext]_digestVars PROVE [A]_digestVars
    <2>1. digest \in Runs /\ prefs \in [Readers -> Prefs]
      BY <1>1, DigestTypes DEF DigestIInv
    <2>2. ASSUME NEW u \in digest.deaf PROVE daily'[u] = daily[u] /\ trials'[u] = trials[u]
      <3>1. u \in Readers /\ u \notin digest.dailies \cup digest.trialists
        BY <1>1, <2>1 DEF DigestIInv, DeafOK, Runs
      <3>2. ASSUME NEW v \in Readers, SendDaily(v)
            PROVE  daily'[u] = daily[u] /\ trials'[u] = trials[u]
        <4>1. v # u
          BY <3>1, <3>2 DEF SendDaily
        <4> QED BY <1>1, <3>1, <3>2, <4>1 DEF SendDaily, DigestIInv, DigestTypeOK
      <3>3. ASSUME NEW v \in Readers, SendTrial(v)
            PROVE  daily'[u] = daily[u] /\ trials'[u] = trials[u]
        <4>1. v # u
          BY <3>1, <3>3 DEF SendTrial
        <4> QED BY <1>1, <3>1, <3>3, <4>1 DEF SendTrial, DigestIInv, DigestTypeOK
      <3>4. CASE UNCHANGED <<daily, trials>>
        BY <3>4
      <3>5. \/ UNCHANGED <<daily, trials>>
            \/ \E v \in Readers : SendDaily(v) \/ SendTrial(v)
        BY <1>1 DEF DigestNext, RunStep, ReaderStep, digestVars, ReadPaying, ReadDailyRows, ReadTrialRows, BootEnd,
                    EndRun, BootFind, BootCreate, SkipReader, Record, RunFails, NextHour,
                    EmailUnsubscribe, Subscribe, Change, PutPrefs
      <3> QED BY <3>2, <3>3, <3>4, <3>5
    <2>3. ASSUME RunStep, NEW u \in Readers, prefs[u].optOut PROVE prefs'[u].optOut
      <3>1. ASSUME NEW v \in Readers, BootCreate(v) PROVE prefs'[u].optOut
        <4>1. CASE v = u
          <5>1. prefs[u].row
            BY <1>1, <2>3 DEF DigestIInv, QueueOK, NoPrefs
          <5> QED BY <2>3, <3>1, <4>1, <5>1 DEF BootCreate
        <4>2. CASE v # u
          BY <2>1, <2>3, <3>1, <4>2 DEF BootCreate
        <4> QED BY <4>1, <4>2
      <3>2. ASSUME NEW v \in Readers, Record(v) PROVE prefs'[u].optOut
        <4>1. RecordColumn(v).optOut = prefs[v].optOut
          BY <2>1 DEF RecordColumn, Prefs
        <4>2. prefs' = [prefs EXCEPT ![v] = RecordColumn(v)]
          BY <3>2 DEF Record
        <4> QED BY <2>1, <2>3, <4>1, <4>2
      <3>3. UNCHANGED prefs \/ \E v \in Readers : BootCreate(v) \/ Record(v)
        BY <2>3 DEF RunStep, ReadPaying, ReadDailyRows, ReadTrialRows, BootEnd, EndRun, BootFind, SkipReader,
                    SendDaily, SendTrial
      <3> QED BY <2>3, <3>1, <3>2, <3>3
    <2> QED BY <2>2, <2>3
  <1>2. DigestSpec => [][A]_digestVars
    BY <1>1, DigestInvariant, PTL DEF DigestSpec
  <1> QED BY <1>2 DEF OptOutIsRespected
=============================================================================
