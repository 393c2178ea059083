--------------------------- MODULE PaymentProofs ---------------------------
(***************************************************************************)
(* Proofs about PaymentOrders, for any number of orders and of requests    *)
(* that are served at once.                                                *)
(***************************************************************************)
EXTENDS PaymentOrders, FiniteSetTheorems, TLAPS

\* What a request knows of the payment while it goes on: only a success is
\* booked, and only a failure is noted.
HandlersOK ==
    \A h \in Handlers :
        /\ webhook[h].pc = "pay" => payment[webhook[h].order] = "success"
        /\ webhook[h].pc = "fail" => payment[webhook[h].order] = "failure"
        /\ webhook[h].pc = "read" => payment[webhook[h].order] # "open"

IInv == TypeOK /\ HandlersOK /\ NoGrantWithoutPayment /\ PaidIsGranted

Records == [pc : HandlerPCs, order : Orders, seen : Statuses \cup {"none"}]

\* A request that is not being served, or was given up.
LEMMA WaitingTypeOK == Waiting \in Records /\ Waiting.pc = "idle"
  <1>1. (CHOOSE o \in Orders : TRUE) \in Orders
    BY PaymentAssumption
  <1> QED BY <1>1 DEF Waiting, Records, HandlerPCs

\* Nothing is ordered, paid or granted at first.
LEMMA InitEstablishes == Init => IInv
  <1> SUFFICES ASSUME Init PROVE IInv
    OBVIOUS
  <1>1. (CHOOSE o \in Orders : TRUE) \in Orders
    BY PaymentAssumption
  <1>2. TypeOK
    BY <1>1, WaitingTypeOK, PaymentAssumption DEF Init, TypeOK, Records
  <1>3. HandlersOK /\ NoGrantWithoutPayment /\ PaidIsGranted
    BY WaitingTypeOK DEF Init, HandlersOK, NoGrantWithoutPayment, PaidIsGranted
  <1> QED BY <1>2, <1>3 DEF IInv

\* A step of one request changes that request only.
LEMMA StepOfOneRequest ==
    ASSUME TypeOK, HandlersOK, NEW h \in Handlers, NEW new \in Records,
           webhook' = [webhook EXCEPT ![h] = new], payment' = payment,
           new.pc = "pay" => payment[new.order] = "success",
           new.pc = "fail" => payment[new.order] = "failure",
           new.pc = "read" => payment[new.order] # "open"
    PROVE  HandlersOK' /\ webhook' \in [Handlers -> Records]
  <1>1. webhook \in [Handlers -> Records]
    BY DEF TypeOK, Records
  <1>2. \A g \in Handlers : webhook'[g] = IF g = h THEN new ELSE webhook[g]
    BY <1>1
  <1> QED BY <1>1, <1>2 DEF HandlersOK

\* Every step of the gateways and of the webhook requests keeps the invariant.
LEMMA WebhookStep == ASSUME IInv, WebhookNext PROVE IInv'
  <1> USE DEF gatewayVars, adminVars
  <1>1. /\ TypeOK /\ HandlersOK /\ NoGrantWithoutPayment /\ PaidIsGranted
        /\ webhook \in [Handlers -> Records]
    BY DEF IInv, TypeOK, Records
  <1>2. ASSUME NEW o \in Orders, PlaceOrder(o) PROVE IInv'
    <2>1. TypeOK'
      BY <1>1, <1>2 DEF PlaceOrder, SetStatus, TypeOK, Statuses
    <2>2. PaidIsGranted'
      BY <1>1, <1>2 DEF PlaceOrder, SetStatus, TypeOK, PaidIsGranted
    <2> QED BY <1>1, <1>2, <2>1, <2>2
            DEF PlaceOrder, IInv, HandlersOK, NoGrantWithoutPayment
  <1>3. ASSUME NEW o \in Orders, NEW outcome \in {"success", "failure"},
               Settle(o, outcome)
        PROVE  IInv'
    <2>1. /\ TypeOK'
          /\ \A p \in Orders : payment[p] # "open" => payment'[p] = payment[p]
      BY <1>1, <1>3 DEF Settle, TypeOK
    <2>2. UNCHANGED <<order, grants, webhook, admin>>
      BY <1>3 DEF Settle
    <2>3. HandlersOK'
      BY <1>1, <2>1, <2>2 DEF HandlersOK, TypeOK
    <2>4. NoGrantWithoutPayment' /\ PaidIsGranted'
      BY <1>1, <2>1, <2>2 DEF NoGrantWithoutPayment, PaidIsGranted
    <2> QED BY <2>1, <2>3, <2>4 DEF IInv
  <1>4. ASSUME UNCHANGED <<order, grants, payment, admin>>, HandlersOK',
               webhook' \in [Handlers -> Records],
               acked' \in [Orders -> BOOLEAN], faults' \in 0..MaxFaults,
               UNCHANGED <<clerk, repaid>>
        PROVE  IInv'
    BY <1>1, <1>4 DEF IInv, TypeOK, Records, NoGrantWithoutPayment, PaidIsGranted
  <1>5. ASSUME NEW h \in Handlers, NEW o \in Orders, Notify(h, o) PROVE IInv'
    <2> DEFINE new == [pc |-> "read", order |-> o, seen |-> "none"]
    <2>1. /\ webhook' = [webhook EXCEPT ![h] = new]
          /\ payment[o] # "open"
          /\ UNCHANGED <<order, grants, payment, acked, clerk, repaid, admin, faults>>
      BY <1>5 DEF Notify
    <2>2. new \in Records
      BY DEF Records, HandlerPCs
    <2>3. HandlersOK' /\ webhook' \in [Handlers -> Records]
      BY <1>1, <2>1, <2>2, StepOfOneRequest
    <2> QED BY <1>1, <1>4, <2>1, <2>3 DEF TypeOK
  <1>6. ASSUME NEW h \in Handlers, ReadOrder(h) PROVE IInv'
    <2> DEFINE o == webhook[h].order
               new == [webhook[h] EXCEPT
                         !.seen = order[o].status,
                         !.pc = IF payment[o] = "failure" THEN "fail"
                                ELSE IF order[o].status = "paid" THEN "answer"
                                ELSE "pay"]
    <2>1. /\ webhook' = [webhook EXCEPT ![h] = new]
          /\ webhook[h].pc = "read"
          /\ UNCHANGED <<order, grants, payment, acked, clerk, repaid, admin, faults>>
      BY <1>1, <1>6 DEF ReadOrder
    <2>2. webhook[h] \in Records /\ o \in Orders
      BY <1>1 DEF Records
    <2>3. order[o].status \in Statuses \cup {"none"}
      BY <1>1, <2>2 DEF TypeOK
    <2>4. new \in Records /\ new.order = o
      BY <2>2, <2>3 DEF Records, HandlerPCs
    <2>5. payment[o] \in {"success", "failure"}
      BY <1>1, <2>1, <2>2 DEF HandlersOK, TypeOK
    <2>6. HandlersOK' /\ webhook' \in [Handlers -> Records]
      <3>1. /\ new.pc = "pay" => payment[o] = "success"
            /\ new.pc = "fail" => payment[o] = "failure"
            /\ new.pc # "read"
        BY <2>2, <2>5 DEF Records
      <3> HIDE DEF new
      <3> QED BY <1>1, <2>1, <2>4, <3>1, StepOfOneRequest
    <2> QED BY <1>1, <1>4, <2>1, <2>6 DEF TypeOK
  <1>7. ASSUME NEW h \in Handlers, NEW pc \in {"answer", "idle"}, NEW new \in Records,
               new = [webhook[h] EXCEPT !.pc = pc] \/ new = Waiting,
               webhook' = [webhook EXCEPT ![h] = new], payment' = payment
        PROVE  HandlersOK' /\ webhook' \in [Handlers -> Records]
    <2>1. new.pc \in {"answer", "idle"}
      BY <1>1, <1>7, WaitingTypeOK DEF Records
    <2> QED BY <1>1, <1>7, <2>1, StepOfOneRequest
  <1>8. \A h \in Handlers : [webhook[h] EXCEPT !.pc = "answer"] \in Records
    BY <1>1 DEF Records, HandlerPCs
  <1>9. ASSUME NEW h \in Handlers, MarkFailed(h) PROVE IInv'
    <2>1. HandlersOK' /\ webhook' \in [Handlers -> Records]
      BY <1>1, <1>7, <1>8, <1>9 DEF MarkFailed, Step
    <2>2. /\ order' \in [Orders -> [status : Statuses \cup {"none"},
                                    refundAmount : Nat \cup {NoAmount}]]
          /\ \A p \in Orders : order'[p].status = "paid" => order[p].status = "paid"
      <3> DEFINE o == webhook[h].order
      <3>1. o \in Orders /\ order[o] \in [status : Statuses \cup {"none"},
                                         refundAmount : Nat \cup {NoAmount}]
        BY <1>1 DEF Records, TypeOK
      <3>2. CASE order[o].status = "pending"
        <4>1. order' = [order EXCEPT ![o].status = "failed"]
          BY <1>9, <3>2 DEF MarkFailed, SetStatus
        <4> HIDE DEF o
        <4> QED BY <1>1, <3>1, <4>1 DEF TypeOK, Statuses
      <3>3. CASE order[o].status # "pending"
        BY <1>1, <1>9, <3>3 DEF MarkFailed, TypeOK
      <3> QED BY <3>2, <3>3
    <2>3. UNCHANGED <<grants, payment, acked, clerk, repaid, admin, faults>>
      BY <1>9 DEF MarkFailed
    <2>4. TypeOK'
      BY <1>1, <2>1, <2>2, <2>3 DEF TypeOK, Records
    <2>5. NoGrantWithoutPayment' /\ PaidIsGranted'
      BY <1>1, <2>2, <2>3 DEF NoGrantWithoutPayment, PaidIsGranted
    <2> QED BY <2>1, <2>4, <2>5 DEF IInv
  <1>10. ASSUME NEW h \in Handlers, BookPayment(h) PROVE IInv'
    <2>1. HandlersOK' /\ webhook' \in [Handlers -> Records]
      BY <1>1, <1>7, <1>8, <1>10 DEF BookPayment, Step
    <2> DEFINE o == webhook[h].order
    <2>2. o \in Orders /\ payment[o] = "success"
      BY <1>1, <1>10 DEF BookPayment, HandlersOK, Records
    <2>3. UNCHANGED <<payment, acked, clerk, repaid, admin, faults>>
      BY <1>10 DEF BookPayment
    <2>4. /\ grants' \in [Orders -> Nat]
          /\ \A p \in Orders :
               grants'[p] = IF p = o THEN grants[p] + 1 ELSE grants[p]
      BY <1>1, <1>10 DEF BookPayment, TypeOK
    <2>5. /\ order' \in [Orders -> [status : Statuses \cup {"none"},
                                    refundAmount : Nat \cup {NoAmount}]]
          /\ \A p \in Orders : p # o => order'[p] = order[p]
      BY <1>1, <1>10, SMTT(30) DEF BookPayment, SetStatus, TypeOK, Statuses
    <2>6. TypeOK'
      BY <1>1, <2>1, <2>3, <2>4, <2>5 DEF TypeOK, Records
    <2>7. \A p \in Orders : grants[p] \in Nat
      BY <1>1 DEF TypeOK
    <2>8. NoGrantWithoutPayment'
      BY <1>1, <2>2, <2>3, <2>4 DEF NoGrantWithoutPayment
    <2>9. PaidIsGranted'
      BY <1>1, <2>3, <2>4, <2>5, <2>7 DEF PaidIsGranted
    <2> QED BY <2>1, <2>6, <2>8, <2>9 DEF IInv
  <1>11. ASSUME NEW h \in Handlers, NumberTaken(h) \/ Answer(h) \/ WebhookError(h)
         PROVE  IInv'
    <2>1. webhook' = [webhook EXCEPT ![h] = Waiting] /\ payment' = payment
      BY <1>11 DEF NumberTaken, Answer, WebhookError
    <2>2. HandlersOK' /\ webhook' \in [Handlers -> Records]
      BY <1>7, <2>1, WaitingTypeOK
    <2>3. UNCHANGED <<order, grants, payment, clerk, repaid, admin>>
      BY <1>11 DEF NumberTaken, Answer, WebhookError
    <2>4. acked' \in [Orders -> BOOLEAN]
      BY <1>1, <1>11 DEF NumberTaken, Answer, WebhookError, TypeOK
    <2>5. faults' \in 0..MaxFaults
      BY <1>1, <1>11, PaymentAssumption DEF NumberTaken, Answer, WebhookError, Fault, TypeOK
    <2> QED BY <1>4, <2>2, <2>3, <2>4, <2>5
  <1>12. CASE Crash
    <2>1. webhook' \in [Handlers -> Records] /\ HandlersOK'
      BY <1>12, WaitingTypeOK DEF Crash, HandlersOK
    <2>2. clerk' \in [Clerks -> [pc : {"idle", "write"}, order : Orders, amount : Nat]]
      BY <1>1, <1>12 DEF Crash, TypeOK
    <2>3. faults' \in 0..MaxFaults
      <3>1. faults < MaxFaults /\ faults' = faults + 1
        BY <1>12 DEF Crash, Fault
      <3>2. faults \in 0..MaxFaults /\ MaxFaults \in Nat
        BY <1>1, PaymentAssumption DEF TypeOK
      <3> QED BY <3>1, <3>2
    <2>4. UNCHANGED <<order, grants, payment, acked, repaid, admin>>
      BY <1>12 DEF Crash
    <2>5. TypeOK'
      BY <1>1, <2>1, <2>2, <2>3, <2>4 DEF TypeOK, Records
    <2> QED BY <1>1, <2>1, <2>4, <2>5 DEF IInv, NoGrantWithoutPayment, PaidIsGranted
  <1>13. ASSUME NEW h \in Handlers, SettingsError(h) PROVE IInv'
    <2>1. HandlersOK' /\ webhook' \in [Handlers -> Records]
      BY <1>1, <1>7, <1>8, <1>13 DEF SettingsError, Step
    <2>2. faults' \in 0..MaxFaults
      <3>1. faults < MaxFaults /\ faults' = faults + 1
        BY <1>13 DEF SettingsError, Fault
      <3>2. faults \in 0..MaxFaults /\ MaxFaults \in Nat
        BY <1>1, PaymentAssumption DEF TypeOK
      <3> QED BY <3>1, <3>2
    <2>3. UNCHANGED <<order, grants, payment, acked, clerk, repaid, admin>>
      BY <1>13 DEF SettingsError
    <2> QED BY <1>1, <1>4, <2>1, <2>2, <2>3 DEF TypeOK
  <1> QED BY <1>2, <1>3, <1>5, <1>6, <1>9, <1>10, <1>11, <1>12, <1>13
          DEF WebhookNext, HandlerStep

\* Administrators change the status of orders and refund them; that counts.
LEMMA AdminStep == ASSUME IInv, AdminNext PROVE IInv'
  <1> USE DEF gatewayVars
  <1>1. TypeOK /\ HandlersOK /\ NoGrantWithoutPayment /\ PaidIsGranted
    BY DEF IInv
  <1>2. UNCHANGED <<grants, payment, acked, webhook, faults>>
    BY DEF AdminNext, UpdateStatus, RequestRefund, WriteRefund
  <1>3. HandlersOK' /\ NoGrantWithoutPayment'
    BY <1>1, <1>2 DEF HandlersOK, NoGrantWithoutPayment
  <1>4. ASSUME NEW o \in Orders, NEW status \in Statuses, UpdateStatus(o, status)
        PROVE  IInv'
    <2>1. TypeOK'
      BY <1>1, <1>2, <1>4, PaymentAssumption
         DEF UpdateStatus, Intervene, SetStatus, TypeOK
    <2>2. PaidIsGranted'
      BY <1>1, <1>4 DEF UpdateStatus, Intervene, TypeOK, PaidIsGranted
    <2> QED BY <1>3, <2>1, <2>2 DEF IInv
  <1>5. ASSUME NEW c \in Clerks, NEW o \in Orders, NEW n \in 1..Price,
               RequestRefund(c, o, n)
        PROVE  IInv'
    <2>1. TypeOK'
      BY <1>1, <1>2, <1>5, PaymentAssumption DEF RequestRefund, Intervene, TypeOK
    <2>2. PaidIsGranted'
      BY <1>1, <1>5 DEF RequestRefund, Intervene, TypeOK, PaidIsGranted
    <2> QED BY <1>3, <2>1, <2>2 DEF IInv
  <1>6. ASSUME NEW c \in Clerks, WriteRefund(c) PROVE IInv'
    <2>1. clerk[c] \in [pc : {"idle", "write"}, order : Orders, amount : Nat]
      BY <1>1 DEF TypeOK
    <2>2. \A column \in Nat \cup {NoAmount}, n \in Nat :
            Increment(column, n) \in Nat \cup {NoAmount}
      BY DEF Increment
    <2> DEFINE o == clerk[c].order
    <2>3. order[o].refundAmount \in Nat \cup {NoAmount} /\ repaid[o] \in Nat
      BY <1>1, <2>1 DEF TypeOK
    <2>4. order' \in [Orders -> [status : Statuses \cup {"none"},
                                 refundAmount : Nat \cup {NoAmount}]]
      <3>1. Increment(order[o].refundAmount, clerk[c].amount) \in Nat \cup {NoAmount}
        BY <2>1, <2>2, <2>3
      <3>2. order' = [order EXCEPT ![o] =
                        [status |-> "refunded",
                         refundAmount |->
                           Increment(order[o].refundAmount, clerk[c].amount)]]
        BY <1>6 DEF WriteRefund
      <3> QED BY <1>1, <2>1, <3>1, <3>2 DEF TypeOK, Statuses
    <2>5. repaid' \in [Orders -> Nat]
      BY <1>1, <1>6, <2>1, <2>3 DEF WriteRefund, TypeOK
    <2>6. clerk' \in [Clerks -> [pc : {"idle", "write"}, order : Orders, amount : Nat]]
      BY <1>1, <1>6, <2>1 DEF WriteRefund, TypeOK
    <2>7. admin' = admin
      BY <1>6 DEF WriteRefund
    <2>8. TypeOK'
      BY <1>1, <1>2, <2>4, <2>5, <2>6, <2>7 DEF TypeOK
    <2>9. PaidIsGranted'
      <3>1. \A p \in Orders : order'[p].status = "paid" => order[p].status = "paid"
        BY <1>1, <1>6, <2>1 DEF WriteRefund, TypeOK
      <3> QED BY <1>1, <1>2, <2>7, <3>1 DEF PaidIsGranted
    <2> QED BY <1>3, <2>8, <2>9 DEF IInv
  <1> QED BY <1>4, <1>5, <1>6 DEF AdminNext

\* A step that changes nothing.
LEMMA StutterStep == ASSUME IInv, UNCHANGED vars PROVE IInv'
  BY DEF vars, gatewayVars, adminVars, IInv, TypeOK, HandlersOK,
         NoGrantWithoutPayment, PaidIsGranted

\* The invariant holds whatever administrators do.
THEOREM InvariantHolds == Spec => []IInv
  <1>1. IInv /\ [WebhookNext \/ AdminNext]_vars => IInv'
    BY WebhookStep, AdminStep, StutterStep
  <1> QED BY <1>1, InitEstablishes, PTL DEF Spec

\* The tables and the requests only hold values they can have.
THEOREM TypeCorrect == Spec => []TypeOK
  BY InvariantHolds, PTL DEF IInv

\* No credits are granted for a payment that did not succeed.
THEOREM GrantsArePaid == Spec => []NoGrantWithoutPayment
  BY InvariantHolds, PTL DEF IInv

\* An order that no administrator had a hand in is paid only with its credits.
THEOREM PaymentsAreGranted == Spec => []PaidIsGranted
  BY InvariantHolds, PTL DEF IInv

\* Both together: credits and payments of an order go hand in hand.
THEOREM GrantsFollow == Spec => []GrantsFollowPayments
  BY GrantsArePaid, PaymentsAreGranted, PTL DEF GrantsFollowPayments

-----------------------------------------------------------------------------
(* Gumroad's sales implement OncePerSale.                                  *)

\* While administrators keep away: the order of a sale is there exactly when
\* its credits were granted, once, and a request that is about to book a
\* sale did not find the order, so that it can only insert it.
SalesOK ==
    /\ \A o \in Sales :
         \/ order[o].status = "none" /\ grants[o] = 0
         \/ order[o].status = "paid" /\ grants[o] = 1
    /\ \A o \in Sales : payment[o] # "failure"
    /\ \A h \in Handlers :
         webhook[h].pc = "pay" /\ webhook[h].order \in Sales => webhook[h].seen = "none"

\* No order is there at first.
LEMMA InitSalesOK == Init => SalesOK
  BY WaitingTypeOK DEF Init, SalesOK, Sales

\* A step that leaves orders and requests alone, but for the gateways.
LEMMA SalesStutter ==
    ASSUME SalesOK, UNCHANGED <<order, grants, webhook>>,
           \A o \in Sales : payment'[o] = payment[o]
    PROVE  SalesOK' /\ UNCHANGED Once!onceVars
  <1>1. SalesOK'
    BY DEF SalesOK
  <1>2. {o \in Sales : payment'[o] = "success"} = {o \in Sales : payment[o] = "success"}
    OBVIOUS
  <1>3. [o \in Sales |-> grants'[o]] = [o \in Sales |-> grants[o]]
    OBVIOUS
  <1> QED BY <1>1, <1>2, <1>3 DEF Once!onceVars

\* Every step of the gateways and of the requests is a sale, the one grant of
\* a sale, or a stutter.
LEMMA SalesStep ==
    ASSUME IInv, SalesOK, WebhookNext
    PROVE  SalesOK' /\ [Once!Next]_(Once!onceVars)
  <1> USE DEF gatewayVars, adminVars
  <1>1. TypeOK /\ HandlersOK /\ webhook \in [Handlers -> Records]
    BY DEF IInv, TypeOK, Records
  <1>2. Sales \subseteq Orders /\ \A o \in Sales : Gateway[o] = "gumroad"
    BY DEF Sales
  <1>3. ASSUME NEW o \in Orders, PlaceOrder(o)
        PROVE  SalesOK' /\ UNCHANGED Once!onceVars
    <2>1. o \notin Sales /\ UNCHANGED <<grants, webhook, payment>>
      BY <1>2, <1>3 DEF PlaceOrder
    <2>2. \A p \in Sales : order'[p] = order[p]
      BY <1>1, <1>2, <1>3, <2>1 DEF PlaceOrder, SetStatus, TypeOK
    <2>3. SalesOK'
      BY <2>1, <2>2 DEF SalesOK
    <2> QED BY <2>1, <2>3 DEF Once!onceVars
  <1>4. ASSUME NEW o \in Orders, NEW outcome \in {"success", "failure"},
               Settle(o, outcome)
        PROVE  SalesOK' /\ [Once!Next]_(Once!onceVars)
    <2>1. /\ UNCHANGED <<order, grants, webhook>>
          /\ payment' = [payment EXCEPT ![o] = outcome]
          /\ payment \in [Orders -> {"open", "success", "failure"}]
      BY <1>1, <1>4 DEF Settle, TypeOK
    <2>2. CASE o \in Sales
      <3>1. outcome = "success"
        BY <1>2, <1>4, <2>2 DEF Settle
      <3>2. SalesOK'
        BY <1>2, <2>1, <2>2, <3>1 DEF SalesOK
      <3>3. {p \in Sales : payment'[p] = "success"}
              = {p \in Sales : payment[p] = "success"} \cup {o}
        BY <1>2, <2>1, <2>2, <3>1
      <3>4. Once!Sell(o)
        BY <2>1, <3>3 DEF Once!Sell
      <3> QED BY <2>2, <3>2, <3>4 DEF Once!Next
    <2>3. CASE o \notin Sales
      <3>1. \A p \in Sales : payment'[p] = payment[p]
        BY <1>2, <2>1, <2>3
      <3> QED BY <2>1, <3>1, SalesStutter
    <2> QED BY <2>2, <2>3
  <1>5. ASSUME UNCHANGED <<order, grants, payment>>,
               \A h \in Handlers :
                 webhook'[h].pc = "pay" /\ webhook'[h].order \in Sales
                   => webhook'[h].seen = "none"
        PROVE  SalesOK' /\ UNCHANGED Once!onceVars
    BY <1>5 DEF SalesOK, Once!onceVars
  <1>6. ASSUME NEW h \in Handlers, NEW new \in Records,
               webhook' = [webhook EXCEPT ![h] = new],
               new.pc = "pay" /\ new.order \in Sales => new.seen = "none"
        PROVE  \A g \in Handlers :
                 webhook'[g].pc = "pay" /\ webhook'[g].order \in Sales
                   => webhook'[g].seen = "none"
    BY <1>1, <1>6 DEF SalesOK
  <1>7. ASSUME NEW h \in Handlers, NEW o \in Orders, Notify(h, o)
        PROVE  SalesOK' /\ UNCHANGED Once!onceVars
    <2> DEFINE new == [pc |-> "read", order |-> o, seen |-> "none"]
    <2>1. new \in Records /\ new.pc # "pay"
      BY DEF Records, HandlerPCs
    <2>2. webhook' = [webhook EXCEPT ![h] = new] /\ UNCHANGED <<order, grants, payment>>
      BY <1>7 DEF Notify
    <2> HIDE DEF new
    <2> QED BY <1>5, <1>6, <2>1, <2>2
  <1>8. ASSUME NEW h \in Handlers, ReadOrder(h)
        PROVE  SalesOK' /\ UNCHANGED Once!onceVars
    <2> DEFINE o == webhook[h].order
               new == [webhook[h] EXCEPT
                         !.seen = order[o].status,
                         !.pc = IF payment[o] = "failure" THEN "fail"
                                ELSE IF order[o].status = "paid" THEN "answer"
                                ELSE "pay"]
    <2>1. webhook' = [webhook EXCEPT ![h] = new] /\ UNCHANGED <<order, grants, payment>>
      BY <1>1, <1>8 DEF ReadOrder
    <2>2. webhook[h] \in Records /\ o \in Orders
      BY <1>1 DEF Records
    <2>3. order[o].status \in Statuses \cup {"none"}
      BY <1>1, <2>2 DEF TypeOK
    <2>4. /\ new \in Records
          /\ new.order = o
          /\ new.seen = order[o].status
          /\ new.pc = "pay" => order[o].status # "paid"
      BY <2>2, <2>3 DEF Records, HandlerPCs
    <2>5. o \in Sales => order[o].status \in {"none", "paid"}
      BY DEF SalesOK
    <2> HIDE DEF new
    <2> QED BY <1>5, <1>6, <2>1, <2>4, <2>5
  <1>9. ASSUME NEW h \in Handlers, NEW new \in Records, new.pc # "pay",
               webhook' = [webhook EXCEPT ![h] = new],
               UNCHANGED <<order, grants, payment>>
        PROVE  SalesOK' /\ UNCHANGED Once!onceVars
    BY <1>5, <1>6, <1>9
  <1>10. \A h \in Handlers : /\ [webhook[h] EXCEPT !.pc = "answer"] \in Records
                             /\ [webhook[h] EXCEPT !.pc = "answer"].pc = "answer"
    BY <1>1 DEF Records, HandlerPCs
  <1>11. ASSUME NEW h \in Handlers, MarkFailed(h)
         PROVE  SalesOK' /\ UNCHANGED Once!onceVars
    <2> DEFINE o == webhook[h].order
    <2>1. o \in Orders /\ payment[o] = "failure"
      BY <1>1, <1>11 DEF MarkFailed, HandlersOK, Records
    <2>2. o \notin Sales
      BY <2>1 DEF SalesOK
    <2>3. \A p \in Sales : order'[p] = order[p]
      BY <1>1, <1>2, <1>11, <2>2 DEF MarkFailed, SetStatus, TypeOK
    <2>4. UNCHANGED <<grants, payment>>
      BY <1>11 DEF MarkFailed
    <2>5. \A g \in Handlers :
            webhook'[g].pc = "pay" /\ webhook'[g].order \in Sales
              => webhook'[g].seen = "none"
      BY <1>6, <1>10, <1>11 DEF MarkFailed, Step
    <2> QED BY <2>3, <2>4, <2>5 DEF SalesOK, Once!onceVars
  <1>12. ASSUME NEW h \in Handlers, BookPayment(h)
         PROVE  SalesOK' /\ [Once!Next]_(Once!onceVars)
    <2>0. PICK o \in Orders : o = webhook[h].order
      BY <1>1 DEF Records
    <2>1. o \in Orders /\ payment[o] = "success" /\ webhook[h].pc = "pay"
      BY <1>1, <1>12, <2>0 DEF BookPayment, HandlersOK, Records
    <2>2. /\ payment' = payment
          /\ grants' = [grants EXCEPT ![o] = @ + 1]
          /\ order' = [order EXCEPT ![o].status = "paid"]
          /\ grants \in [Orders -> Nat]
          /\ order \in [Orders -> [status : Statuses \cup {"none"},
                                   refundAmount : Nat \cup {NoAmount}]]
      BY <1>1, <1>12, <2>0 DEF BookPayment, SetStatus, TypeOK
    <2>3. \A g \in Handlers :
            webhook'[g].pc = "pay" /\ webhook'[g].order \in Sales
              => webhook'[g].seen = "none"
      BY <1>6, <1>10, <1>12 DEF BookPayment, Step
    <2>4. CASE o \in Sales
      <3>1. webhook[h].seen = "none"
        BY <2>0, <2>1, <2>4 DEF SalesOK
      <3>2. order[o].status = "none"
        BY <1>12, <2>0, <3>1 DEF BookPayment, NumberIsFree
      <3>3. grants[o] = 0
        BY <2>4, <3>2 DEF SalesOK
      <3>4. grants'[o] = 1 /\ order'[o].status = "paid"
        BY <2>1, <2>2, <3>3
      <3>5. \A p \in Sales : p # o => order'[p] = order[p] /\ grants'[p] = grants[p]
        BY <1>2, <2>1, <2>2
      <3>6. SalesOK'
        BY <2>2, <2>3, <3>4, <3>5 DEF SalesOK
      <3>7. Once!GrantOnce(o)
        <4>1. [p \in Sales |-> grants'[p]]
                = [[p \in Sales |-> grants[p]] EXCEPT ![o] = 1]
          BY <2>4, <3>4, <3>5
        <4>2. o \in {p \in Sales : payment[p] = "success"}
          BY <2>1, <2>4
        <4>3. [p \in Sales |-> grants[p]][o] = 0
          BY <2>4, <3>3
        <4> QED BY <2>2, <4>1, <4>2, <4>3 DEF Once!GrantOnce
      <3> QED BY <2>4, <3>6, <3>7 DEF Once!Next
    <2>5. CASE o \notin Sales
      <3>1. \A p \in Sales : order'[p] = order[p] /\ grants'[p] = grants[p]
        BY <1>2, <2>1, <2>2, <2>5
      <3>2. SalesOK'
        BY <2>2, <2>3, <3>1 DEF SalesOK
      <3>3. [p \in Sales |-> grants'[p]] = [p \in Sales |-> grants[p]]
        BY <3>1
      <3> QED BY <2>2, <3>2, <3>3 DEF Once!onceVars
    <2> QED BY <2>4, <2>5
  <1>13. ASSUME NEW h \in Handlers, NumberTaken(h) \/ Answer(h) \/ WebhookError(h)
         PROVE  SalesOK' /\ UNCHANGED Once!onceVars
    BY <1>9, <1>13, WaitingTypeOK DEF NumberTaken, Answer, WebhookError
  <1>14. ASSUME NEW h \in Handlers, SettingsError(h)
         PROVE  SalesOK' /\ UNCHANGED Once!onceVars
    BY <1>9, <1>10, <1>14 DEF SettingsError, Step
  <1>15. CASE Crash
    <2>1. \A h \in Handlers : webhook'[h].pc # "pay"
      BY <1>15, WaitingTypeOK DEF Crash
    <2> QED BY <1>5, <1>15, <2>1 DEF Crash
  <1>16. ASSUME NEW h \in Handlers, HandlerStep(h) \/ SettingsError(h) \/ WebhookError(h)
         PROVE  SalesOK' /\ [Once!Next]_(Once!onceVars)
    <2>1. CASE ReadOrder(h)
      BY <1>8, <2>1
    <2>2. CASE MarkFailed(h)
      BY <1>11, <2>2
    <2>3. CASE BookPayment(h)
      BY <1>12, <2>3
    <2>4. CASE NumberTaken(h) \/ Answer(h) \/ WebhookError(h)
      BY <1>13, <2>4
    <2>5. CASE SettingsError(h)
      BY <1>14, <2>5
    <2> QED BY <1>16, <2>1, <2>2, <2>3, <2>4, <2>5 DEF HandlerStep
  <1>17. CASE \E o \in Orders : PlaceOrder(o)
    BY <1>3, <1>17
  <1>18. CASE \E o \in Orders, outcome \in {"success", "failure"} : Settle(o, outcome)
    BY <1>4, <1>18
  <1>19. CASE \E h \in Handlers, o \in Orders : Notify(h, o)
    BY <1>7, <1>19
  <1>20. CASE \E h \in Handlers : HandlerStep(h) \/ SettingsError(h) \/ WebhookError(h)
    BY <1>16, <1>20
  <1> QED BY <1>15, <1>17, <1>18, <1>19, <1>20 DEF WebhookNext

\* The ping of a sale is idempotent: while no administrator changes orders,
\* its credits are granted once, however many copies of it are served at the
\* same time and whenever the process dies.
THEOREM PingsAreIdempotent == UnattendedSpec => GumroadGrantsOnce
  <1>1. Init => Once!Init
    BY DEF Init, Once!Init, Sales
  <1>2. IInv /\ [WebhookNext]_vars => IInv'
    BY WebhookStep, StutterStep
  <1>3. IInv /\ SalesOK /\ [WebhookNext]_vars
          => SalesOK' /\ [Once!Next]_(Once!onceVars)
    <2>1. SalesOK /\ UNCHANGED vars => SalesOK' /\ UNCHANGED Once!onceVars
      BY SalesStutter DEF vars, gatewayVars
    <2> QED BY <2>1, SalesStep
  <1> QED BY <1>1, <1>2, <1>3, InitEstablishes, InitSalesOK, PTL
          DEF UnattendedSpec, GumroadGrantsOnce, Once!Spec

-----------------------------------------------------------------------------
(* How often the credits of one order can be granted.                      *)

\* The requests about to grant the credits of an order, and the refunds that
\* were accepted and will yet take an order from 'paid'.
Granting(o) == {h \in Handlers : webhook[h].pc = "pay" /\ webhook[h].order = o}

Writing == {c \in Clerks : clerk[c].pc = "write"}

\* How often an administrator has opened an order again, at most: a refund
\* that was accepted counts when it is written.
Reopened == admin - Cardinality(Writing)

\* Before an order is paid, the requests of the times it was open before have
\* granted; once it is paid, only those that found it open still can.
BoundOK(o) ==
    IF order[o].status = "paid"
    THEN grants[o] + Cardinality(Granting(o)) <= Cardinality(Handlers) * (Reopened + 1)
    ELSE grants[o] <= Cardinality(Handlers) * Reopened

BoundsOK == \A o \in Orders : BoundOK(o)

\* What the bound is made of.
LEMMA CountsAreNat ==
    /\ Cardinality(Handlers) \in Nat
    /\ Cardinality(Writing) \in Nat
    /\ \A o \in Orders : /\ Cardinality(Granting(o)) \in Nat
                         /\ Cardinality(Granting(o)) <= Cardinality(Handlers)
  <1>1. IsFiniteSet(Handlers) /\ IsFiniteSet(Clerks)
    BY PaymentAssumption
  <1>2. Writing \subseteq Clerks /\ \A o \in Orders : Granting(o) \subseteq Handlers
    BY DEF Writing, Granting
  <1> QED BY <1>1, <1>2, FS_Subset, FS_CardinalityType

\* What a step may do to one order without touching its bound: the requests
\* about to grant do not become more once it is paid, it stays as it is or is
\* paid by one of them, and it is opened again only when that counts.
LEMMA BoundKept ==
    ASSUME TypeOK, TypeOK', NEW o \in Orders, BoundOK(o),
           Reopened' >= Reopened,
           \/ /\ grants'[o] = grants[o]
              /\ order[o].status = "paid" <=> order'[o].status = "paid"
              /\ \/ order[o].status # "paid"
                 \/ Cardinality(Granting(o)') <= Cardinality(Granting(o))
           \/ /\ grants'[o] = grants[o] + 1
              /\ order'[o].status = "paid"
              /\ Cardinality(Granting(o)') = Cardinality(Granting(o)) - 1
           \/ /\ grants'[o] = grants[o]
              /\ Reopened' >= Reopened + 1
              /\ Granting(o)' = Granting(o)
    PROVE  BoundOK(o)'
  <1> DEFINE C  == Cardinality(Handlers)
             p  == Cardinality(Granting(o))
             p1 == Cardinality(Granting(o)')
             e  == Reopened
             e1 == Reopened'
             g  == grants[o]
             g1 == grants'[o]
  <1>1. C \in Nat /\ p \in Nat /\ p <= C
    BY CountsAreNat
  <1>2. p1 \in Nat
    <2>1. Granting(o)' \subseteq Handlers
      BY DEF Granting
    <2> QED BY <2>1, PaymentAssumption, FS_Subset, FS_CardinalityType
  <1>3. e \in Int /\ e1 \in Int
    <2>1. Writing' \subseteq Clerks
      BY DEF Writing
    <2>2. Cardinality(Writing') \in Nat
      BY <2>1, PaymentAssumption, FS_Subset, FS_CardinalityType
    <2> QED BY <2>2, CountsAreNat, PaymentAssumption DEF Reopened, TypeOK
  <1>4. g \in Nat /\ g1 \in Nat
    BY DEF TypeOK
  <1>5. /\ BoundOK(o) <=> IF order[o].status = "paid" THEN g + p <= C * (e + 1)
                          ELSE g <= C * e
        /\ BoundOK(o)' <=> IF order'[o].status = "paid" THEN g1 + p1 <= C * (e1 + 1)
                           ELSE g1 <= C * e1
    BY DEF BoundOK
  <1>6. \/ g1 = g /\ (order[o].status = "paid" <=> order'[o].status = "paid")
               /\ (order[o].status # "paid" \/ p1 <= p)
        \/ g1 = g + 1 /\ order'[o].status = "paid" /\ p1 = p - 1
        \/ g1 = g /\ e1 >= e + 1 /\ p1 = p
    OBVIOUS
  <1>7. e1 >= e
    OBVIOUS
  <1> HIDE DEF C, p, p1, e, e1, g, g1
  <1>8. PICK x \in Int, x1 \in Int : x = C * e /\ x1 = C * e1
    BY <1>1, <1>3
  <1>9. C * (e + 1) = x + C /\ C * (e1 + 1) = x1 + C
    BY <1>1, <1>3, <1>8
  <1>10. x1 >= x /\ (e1 >= e + 1 => x1 >= x + C)
    <2>1. PICK n \in Nat : e1 = e + n
      BY <1>3, <1>7
    <2>2. x1 = x + C * n /\ C * n >= 0 /\ C * n \in Int
      BY <1>1, <1>3, <1>8, <2>1
    <2>3. ASSUME n >= 1 PROVE C * n >= C
      BY <1>1, <2>1, <2>3
    <2> QED BY <1>1, <1>3, <1>8, <2>1, <2>2, <2>3
  <1>11. BoundOK(o) => IF order[o].status = "paid" THEN g + p <= x + C ELSE g <= x
    BY <1>5, <1>8, <1>9
  <1>12. (IF order'[o].status = "paid" THEN g1 + p1 <= x1 + C ELSE g1 <= x1)
           => BoundOK(o)'
    BY <1>5, <1>8, <1>9
  <1> QED BY <1>1, <1>2, <1>4, <1>6, <1>8, <1>10, <1>11, <1>12

\* At first nothing is granted and nothing was opened again.
LEMMA InitBounds == Init => BoundsOK
  <1> SUFFICES ASSUME Init, NEW o \in Orders PROVE BoundOK(o)
    BY DEF BoundsOK
  <1>1. Writing = {} /\ admin = 0
    BY DEF Init, Writing
  <1>2. Reopened = 0
    BY <1>1, FS_EmptySet DEF Reopened
  <1>3. grants[o] = 0 /\ order[o].status # "paid"
    BY DEF Init
  <1> QED BY <1>2, <1>3, CountsAreNat DEF BoundOK

\* A step of one request adds it to no order but the one it goes to pay.
LEMMA OneRequestGrants ==
    ASSUME TypeOK, NEW h \in Handlers, NEW new, webhook' = [webhook EXCEPT ![h] = new],
           NEW o \in Orders, new.pc # "pay" \/ new.order # o
    PROVE  Cardinality(Granting(o)') <= Cardinality(Granting(o))
  <1>1. Granting(o)' \subseteq Granting(o)
    BY DEF TypeOK, Granting
  <1>2. IsFiniteSet(Granting(o))
    <2>1. Granting(o) \subseteq Handlers
      BY DEF Granting
    <2> QED BY <2>1, PaymentAssumption, FS_Subset
  <1> QED BY <1>1, <1>2, FS_Subset

\* Refunds that are given up leave the bound where it is, or raise it.
LEMMA ReopenedKept ==
    ASSUME TypeOK, admin' = admin, clerk' = clerk \/ Writing' = {}
    PROVE  Reopened' >= Reopened
  <1>1. Cardinality(Writing) \in Nat /\ admin \in Nat
    BY CountsAreNat, PaymentAssumption DEF TypeOK
  <1>2. CASE clerk' = clerk
    BY <1>1, <1>2 DEF Reopened, Writing
  <1>3. CASE Writing' = {}
    <2>1. Cardinality(Writing') = 0
      BY <1>3, FS_EmptySet
    <2> QED BY <1>1, <2>1 DEF Reopened
  <1> QED BY <1>2, <1>3

\* Every step of the gateways and of the webhook requests keeps the bounds.
LEMMA WebhookKeepsBounds ==
    ASSUME TypeOK, TypeOK', BoundsOK, WebhookNext
    PROVE  BoundsOK'
  <1> USE DEF gatewayVars, adminVars
  <1>1. webhook \in [Handlers -> Records] /\ \A o \in Orders : BoundOK(o)
    BY DEF TypeOK, Records, BoundsOK
  <1>2. Reopened' >= Reopened
    <2>1. CASE Crash
      <3>1. \A c \in Clerks : clerk'[c].pc = "idle"
        <4> SUFFICES ASSUME NEW c \in Clerks PROVE clerk'[c].pc = "idle"
          OBVIOUS
        <4>1. clerk[c] \in [pc : {"idle", "write"}, order : Orders, amount : Nat]
          BY DEF TypeOK
        <4>2. clerk'[c] = [clerk[c] EXCEPT !.pc = "idle", !.amount = 0]
          BY <2>1 DEF Crash
        <4> QED BY <4>1, <4>2
      <3>2. admin' = admin /\ Writing' = {}
        BY <2>1, <3>1 DEF Crash, Writing
      <3> QED BY <3>2, ReopenedKept
    <2>2. CASE ~Crash
      <3>1. admin' = admin /\ clerk' = clerk
        BY <2>2 DEF WebhookNext, PlaceOrder, Settle, Notify, HandlerStep, ReadOrder,
                    MarkFailed, BookPayment, NumberTaken, Answer, SettingsError,
                    WebhookError
      <3> QED BY <3>1, ReopenedKept
    <2> QED BY <2>1, <2>2
  <1>3. ASSUME NEW o \in Orders, grants'[o] = grants[o],
               order[o].status = "paid" <=> order'[o].status = "paid",
               \/ order[o].status # "paid"
               \/ Cardinality(Granting(o)') <= Cardinality(Granting(o))
        PROVE  BoundOK(o)'
    BY <1>1, <1>2, <1>3, BoundKept
  <1>4. ASSUME NEW h \in Handlers, NEW new, webhook' = [webhook EXCEPT ![h] = new],
               new.pc # "pay", UNCHANGED grants,
               \A o \in Orders : order[o].status = "paid" <=> order'[o].status = "paid"
        PROVE  BoundsOK'
    <2> SUFFICES ASSUME NEW o \in Orders PROVE BoundOK(o)'
      BY DEF BoundsOK
    <2>1. Cardinality(Granting(o)') <= Cardinality(Granting(o))
      BY <1>4, OneRequestGrants
    <2> QED BY <1>3, <1>4, <2>1
  <1>5. ASSUME UNCHANGED <<grants, webhook>>,
               \A o \in Orders : order[o].status = "paid" <=> order'[o].status = "paid"
        PROVE  BoundsOK'
    <2> SUFFICES ASSUME NEW o \in Orders PROVE BoundOK(o)'
      BY DEF BoundsOK
    <2>1. Granting(o)' = Granting(o)
      BY <1>5 DEF Granting
    <2>2. Cardinality(Granting(o)') <= Cardinality(Granting(o))
      BY <2>1, CountsAreNat
    <2> QED BY <1>3, <1>5, <2>2
  <1>6. ASSUME NEW o \in Orders, PlaceOrder(o) PROVE BoundsOK'
    BY <1>5, <1>6 DEF PlaceOrder, SetStatus, TypeOK
  <1>7. ASSUME NEW o \in Orders, NEW outcome \in {"success", "failure"},
               Settle(o, outcome)
        PROVE  BoundsOK'
    BY <1>5, <1>7 DEF Settle
  <1>8. ASSUME NEW h \in Handlers, NEW o \in Orders, Notify(h, o) PROVE BoundsOK'
    <2> DEFINE new == [pc |-> "read", order |-> o, seen |-> "none"]
    <2>1. webhook' = [webhook EXCEPT ![h] = new] /\ UNCHANGED <<grants, order>>
      BY <1>8 DEF Notify
    <2>2. new.pc # "pay"
      OBVIOUS
    <2> HIDE DEF new
    <2> QED BY <1>4, <2>1, <2>2
  <1>9. ASSUME NEW h \in Handlers, ReadOrder(h) PROVE BoundsOK'
    <2> DEFINE p == webhook[h].order
               new == [webhook[h] EXCEPT
                         !.seen = order[p].status,
                         !.pc = IF payment[p] = "failure" THEN "fail"
                                ELSE IF order[p].status = "paid" THEN "answer"
                                ELSE "pay"]
    <2>1. /\ webhook' = [webhook EXCEPT ![h] = new]
          /\ UNCHANGED <<grants, order>>
      BY <1>1, <1>9 DEF ReadOrder
    <2>2. new.order = p /\ (new.pc = "pay" => order[p].status # "paid")
      BY <1>1 DEF Records
    <2> HIDE DEF new, p
    <2> SUFFICES ASSUME NEW o \in Orders PROVE BoundOK(o)'
      BY DEF BoundsOK
    <2>3. CASE order[o].status # "paid"
      BY <1>3, <2>1, <2>3
    <2>4. CASE order[o].status = "paid"
      <3>1. new.pc # "pay" \/ new.order # o
        BY <2>2, <2>4
      <3>2. Cardinality(Granting(o)') <= Cardinality(Granting(o))
        BY <2>1, <3>1, OneRequestGrants
      <3> QED BY <1>3, <2>1, <3>2
    <2> QED BY <2>3, <2>4
  <1>10. ASSUME NEW h \in Handlers, MarkFailed(h) PROVE BoundsOK'
    <2>1. webhook' = [webhook EXCEPT ![h] = [webhook[h] EXCEPT !.pc = "answer"]]
      BY <1>1, <1>10 DEF MarkFailed, Step
    <2>2. [webhook[h] EXCEPT !.pc = "answer"].pc # "pay"
      BY <1>1 DEF Records
    <2>3. UNCHANGED grants /\ \A o \in Orders :
            order[o].status = "paid" <=> order'[o].status = "paid"
      <3>1. PICK p \in Orders :
              /\ order' = order \/ order' = [order EXCEPT ![p].status = "failed"]
              /\ order' # order => order[p].status = "pending"
        BY <1>1, <1>10 DEF MarkFailed, SetStatus, Records
      <3>2. UNCHANGED grants
        BY <1>10 DEF MarkFailed
      <3> QED BY <3>1, <3>2 DEF TypeOK
    <2> QED BY <1>4, <2>1, <2>2, <2>3
  <1>11. ASSUME NEW h \in Handlers, BookPayment(h) PROVE BoundsOK'
    <2>0. PICK p \in Orders : p = webhook[h].order
      BY <1>1 DEF Records
    <2> DEFINE new == [webhook[h] EXCEPT !.pc = "answer"]
    <2>1. /\ webhook' = [webhook EXCEPT ![h] = new]
          /\ webhook[h].pc = "pay"
          /\ order' = [order EXCEPT ![p].status = "paid"]
          /\ grants' = [grants EXCEPT ![p] = @ + 1]
      BY <1>1, <1>11, <2>0 DEF BookPayment, Step, SetStatus
    <2>2. new.pc # "pay" /\ new.order = p
      BY <1>1, <2>0 DEF Records
    <2>3. Granting(p)' = Granting(p) \ {h} /\ h \in Granting(p)
      BY <1>1, <2>0, <2>1, <2>2 DEF Granting
    <2> HIDE DEF new
    <2> SUFFICES ASSUME NEW o \in Orders PROVE BoundOK(o)'
      BY DEF BoundsOK
    <2>4. CASE o # p
      <3>1. grants'[o] = grants[o] /\ order'[o] = order[o]
        BY <2>1, <2>4 DEF TypeOK
      <3>2. Cardinality(Granting(o)') <= Cardinality(Granting(o))
        BY <2>1, <2>2, OneRequestGrants
      <3> QED BY <1>3, <3>1, <3>2
    <2>5. CASE o = p
      <3>1. grants'[o] = grants[o] + 1 /\ order'[o].status = "paid"
        BY <2>1, <2>5 DEF TypeOK
      <3>2. IsFiniteSet(Granting(o))
        <4>1. Granting(o) \subseteq Handlers
          BY DEF Granting
        <4> QED BY <4>1, PaymentAssumption, FS_Subset
      <3>3. Cardinality(Granting(o)') = Cardinality(Granting(o)) - 1
        BY <2>3, <2>5, <3>2, FS_RemoveElement
      <3> QED BY <1>1, <1>2, <3>1, <3>3, BoundKept
    <2> QED BY <2>4, <2>5
  <1>12. ASSUME NEW h \in Handlers, SettingsError(h) PROVE BoundsOK'
    <2>1. webhook' = [webhook EXCEPT ![h] = [webhook[h] EXCEPT !.pc = "answer"]]
      BY <1>1, <1>12 DEF SettingsError, Step
    <2>2. [webhook[h] EXCEPT !.pc = "answer"].pc # "pay"
      BY <1>1 DEF Records
    <2>3. UNCHANGED <<grants, order>>
      BY <1>12 DEF SettingsError
    <2> QED BY <1>4, <2>1, <2>2, <2>3
  <1>13. ASSUME NEW h \in Handlers, NumberTaken(h) \/ Answer(h) \/ WebhookError(h)
         PROVE  BoundsOK'
    <2>1. webhook' = [webhook EXCEPT ![h] = Waiting] /\ UNCHANGED <<grants, order>>
      BY <1>13 DEF NumberTaken, Answer, WebhookError
    <2> QED BY <1>4, <2>1, WaitingTypeOK
  <1>14. CASE Crash
    <2> SUFFICES ASSUME NEW o \in Orders PROVE BoundOK(o)'
      BY DEF BoundsOK
    <2>1. Granting(o)' = {} /\ UNCHANGED <<grants, order>>
      BY <1>14, WaitingTypeOK DEF Crash, Granting
    <2>2. Cardinality(Granting(o)') <= Cardinality(Granting(o))
      BY <2>1, FS_EmptySet, CountsAreNat
    <2> QED BY <1>3, <2>1, <2>2
  <1> QED BY <1>6, <1>7, <1>8, <1>9, <1>10, <1>11, <1>12, <1>13, <1>14
          DEF WebhookNext, HandlerStep

\* So does what administrators do: they open an order again only with a step
\* that counts, or that was counted when the refund was accepted.
LEMMA AdminKeepsBounds ==
    ASSUME TypeOK, TypeOK', BoundsOK, AdminNext
    PROVE  BoundsOK'
  <1> SUFFICES ASSUME NEW o \in Orders PROVE BoundOK(o)'
    BY DEF BoundsOK
  <1>1. BoundOK(o)
    BY DEF BoundsOK
  <1>2. UNCHANGED <<grants, webhook>>
    BY DEF AdminNext, UpdateStatus, RequestRefund, WriteRefund
  <1>3. Granting(o)' = Granting(o)
    BY <1>2 DEF Granting
  <1>4. Cardinality(Writing) \in Nat /\ admin \in Nat /\ IsFiniteSet(Writing)
    <2>1. Writing \subseteq Clerks
      BY DEF Writing
    <2> QED BY <2>1, CountsAreNat, PaymentAssumption, FS_Subset DEF TypeOK
  <1>5. ASSUME Reopened' >= Reopened + 1 PROVE BoundOK(o)'
    <2>1. Reopened' >= Reopened
      <3>1. Writing' \subseteq Clerks
        BY DEF Writing
      <3>2. Cardinality(Writing') \in Nat
        BY <3>1, PaymentAssumption, FS_Subset, FS_CardinalityType
      <3> QED BY <1>4, <1>5, <3>2, PaymentAssumption DEF Reopened, TypeOK
    <2> QED BY <1>1, <1>2, <1>3, <1>5, <2>1, BoundKept
  <1>6. ASSUME NEW p \in Orders, NEW status \in Statuses, UpdateStatus(p, status)
        PROVE  BoundOK(o)'
    <2>1. admin' = admin + 1 /\ Writing' = Writing
      BY <1>6 DEF UpdateStatus, Intervene, Writing
    <2>2. Reopened' >= Reopened + 1
      BY <1>4, <2>1 DEF Reopened
    <2> QED BY <1>5, <2>2
  <1>7. ASSUME NEW c \in Clerks, NEW p \in Orders, NEW n \in 1..Price,
               RequestRefund(c, p, n)
        PROVE  BoundOK(o)'
    <2>1. Writing' = Writing \cup {c} /\ c \notin Writing /\ admin' = admin + 1
      BY <1>7 DEF RequestRefund, Intervene, Writing, TypeOK
    <2>2. Cardinality(Writing') = Cardinality(Writing) + 1
      BY <1>4, <2>1, FS_AddElement
    <2>3. Reopened' >= Reopened
      BY <1>4, <2>1, <2>2 DEF Reopened
    <2>4. order' = order
      BY <1>7 DEF RequestRefund
    <2>5. Cardinality(Granting(o)') <= Cardinality(Granting(o))
      BY <1>3, CountsAreNat
    <2> QED BY <1>1, <1>2, <2>3, <2>4, <2>5, BoundKept
  <1>8. ASSUME NEW c \in Clerks, WriteRefund(c) PROVE BoundOK(o)'
    <2>1. Writing' = Writing \ {c} /\ c \in Writing /\ admin' = admin
      BY <1>8 DEF WriteRefund, Writing, TypeOK
    <2>2. Cardinality(Writing') = Cardinality(Writing) - 1
      BY <1>4, <2>1, FS_RemoveElement
    <2>3. Reopened' >= Reopened + 1
      BY <1>4, <2>1, <2>2 DEF Reopened
    <2> QED BY <1>5, <2>3
  <1> QED BY <1>6, <1>7, <1>8 DEF AdminNext

\* The credits of an order are granted no more often than there are requests
\* at once, for each time it was open.
THEOREM GrantsStayBounded == Spec => []GrantsAreBounded
  <1>1. TypeOK /\ BoundsOK => GrantsAreBounded
    <2> SUFFICES ASSUME TypeOK, BoundsOK, NEW o \in Orders
                 PROVE  grants[o] <= Cardinality(Handlers) * (admin + 1)
      BY DEF GrantsAreBounded
    <2> DEFINE C == Cardinality(Handlers)
               w == Cardinality(Writing)
               p == Cardinality(Granting(o))
               g == grants[o]
    <2>1. C \in Nat /\ w \in Nat /\ p \in Nat /\ g \in Nat /\ admin \in Nat
      BY CountsAreNat, PaymentAssumption DEF TypeOK
    <2>2. g <= C * (admin - w + 1) \/ g <= C * (admin - w)
      <3>1. g + p <= C * (admin - w + 1) \/ g <= C * (admin - w)
        BY DEF BoundsOK, BoundOK, Reopened
      <3> HIDE DEF C, w, p, g
      <3>2. C * (admin - w + 1) \in Int
        BY <2>1
      <3> QED BY <2>1, <3>1, <3>2
    <2> HIDE DEF C, w, p, g
    <2>3. /\ C * (admin + 1) = C * (admin - w + 1) + C * w
          /\ C * (admin + 1) = C * (admin - w) + C * w + C
          /\ C * w \in Nat
          /\ C * (admin - w) \in Int /\ C * (admin - w + 1) \in Int
      BY <2>1
    <2>4. g <= C * (admin + 1)
      BY <2>1, <2>2, <2>3
    <2> QED BY <2>4 DEF C, g
  <1>2. TypeOK /\ TypeOK' /\ BoundsOK /\ [WebhookNext \/ AdminNext]_vars => BoundsOK'
    <2>1. BoundsOK /\ UNCHANGED vars => BoundsOK'
      BY DEF vars, adminVars, BoundsOK, BoundOK, Granting, Reopened, Writing
    <2> QED BY <2>1, WebhookKeepsBounds, AdminKeepsBounds
  <1> QED BY <1>1, <1>2, InitBounds, TypeCorrect, PTL DEF Spec
=============================================================================
