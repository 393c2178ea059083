--------------------------- MODULE PaymentOrders ---------------------------
(***************************************************************************)
(* Orders and the payment webhooks: LinkmepayService (the order is created *)
(* before the customer pays, and a notification settles it), the credit    *)
(* purchases of GumroadService.handlePing (the notification creates the    *)
(* order), and what administrators do to orders (OrderService).            *)
(*                                                                         *)
(* A gateway tells the platform of a payment at least once: it repeats the *)
(* notification until it is acknowledged, and copies may overlap.  Each    *)
(* request for a webhook reads the order and, in a second step, commits    *)
(* one transaction that marks it paid, grants its credits and, for a plan, *)
(* opens the subscription; the effect of that grant on the account is in   *)
(* module CreditScheduler (PaySubscription) and CreditSystem (AdminGrant). *)
(***************************************************************************)
EXTENDS Integers, FiniteSets

CONSTANTS
    Orders,             \* orders, each with credits to grant
    Gateway,            \* Gateway[o]: who takes the payment of order o
    Handlers,           \* webhook requests that can be served at once
    Clerks,             \* refund requests that can be served at once
    Price,              \* the amount of every order
    NoAmount,           \* the null of the column refundAmount
    MaxAdmin,           \* bound on what administrators do
    MaxFaults           \* bound on database errors and crashes

ASSUME PaymentAssumption ==
    /\ Orders # {}
    /\ Gateway \in [Orders -> {"linkmepay", "gumroad", "manual"}]
    /\ Price \in Nat \ {0}
    /\ NoAmount \notin Nat
    /\ IsFiniteSet(Handlers)
    /\ IsFiniteSet(Clerks)
    /\ MaxAdmin \in Nat
    /\ MaxFaults \in Nat

VARIABLES
    order,              \* order[o]: status and refundAmount of the row
    grants,             \* grants[o]: grant transactions that name order o
    payment,            \* payment[o]: the gateway's own record of it
    acked,              \* acked[o]: the gateway was acknowledged
    webhook,            \* webhook[h]: a notification being handled
    clerk,              \* clerk[c]: a refund being handled
    repaid,             \* repaid[o]: sum of the refunds that were accepted
    admin,              \* what administrators did so far
    faults              \* faults so far

vars == <<order, grants, payment, acked, webhook, clerk, repaid, admin, faults>>
gatewayVars == <<payment, acked>>
adminVars == <<clerk, repaid, admin>>

\* enum OrderStatus, and "none" while there is no row.
Statuses == {"pending", "paid", "failed", "refunded", "cancelled"}

HandlerPCs == {"idle", "read", "fail", "pay", "answer"}

TypeOK ==
    /\ order \in [Orders -> [status : Statuses \cup {"none"},
                             refundAmount : Nat \cup {NoAmount}]]
    /\ grants \in [Orders -> Nat]
    /\ payment \in [Orders -> {"open", "success", "failure"}]
    /\ acked \in [Orders -> BOOLEAN]
    /\ webhook \in [Handlers -> [pc : HandlerPCs, order : Orders,
                                 seen : Statuses \cup {"none"}]]
    /\ clerk \in [Clerks -> [pc : {"idle", "write"}, order : Orders, amount : Nat]]
    /\ repaid \in [Orders -> Nat]
    /\ admin \in 0..MaxAdmin
    /\ faults \in 0..MaxFaults

Waiting == [pc |-> "idle", order |-> CHOOSE o \in Orders : TRUE, seen |-> "none"]

Init ==
    /\ order = [o \in Orders |-> [status |-> "none", refundAmount |-> NoAmount]]
    /\ grants = [o \in Orders |-> 0]
    /\ payment = [o \in Orders |-> "open"]
    /\ acked = [o \in Orders |-> FALSE]
    /\ webhook = [h \in Handlers |-> Waiting]
    /\ clerk = [c \in Clerks |->
                  [pc |-> "idle", order |-> CHOOSE o \in Orders : TRUE, amount |-> 0]]
    /\ repaid = [o \in Orders |-> 0]
    /\ admin = 0
    /\ faults = 0

Fault == faults < MaxFaults /\ faults' = faults + 1

Intervene == admin < MaxAdmin /\ admin' = admin + 1

SetStatus(o, status) == order' = [order EXCEPT ![o].status = status]

Step(h, pc) == webhook' = [webhook EXCEPT ![h].pc = pc]

-----------------------------------------------------------------------------
\* createSubscriptionCollect, and an administrator's create: a pending row.
\* What the gateway answers only goes to columns nothing reads.
PlaceOrder(o) ==
    /\ Gateway[o] # "gumroad"
    /\ order[o].status = "none"
    /\ SetStatus(o, "pending")
    /\ UNCHANGED <<grants, gatewayVars, webhook, adminVars, faults>>

\* The customer pays, or the payment fails for good.  A LinkMePay payment
\* needs the order first; Gumroad only reports sales.
Settle(o, outcome) ==
    /\ payment[o] = "open"
    /\ \/ Gateway[o] = "linkmepay" /\ order[o].status # "none"
       \/ Gateway[o] = "gumroad" /\ outcome = "success"
    /\ payment' = [payment EXCEPT ![o] = outcome]
    /\ UNCHANGED <<order, grants, acked, webhook, adminVars, faults>>

\* The gateway sends its notification, again if need be.
Notify(h, o) ==
    /\ webhook[h].pc = "idle"
    /\ payment[o] # "open"
    /\ webhook' = [webhook EXCEPT ![h] =
                     [pc |-> "read", order |-> o, seen |-> "none"]]
    /\ UNCHANGED <<order, grants, gatewayVars, adminVars, faults>>

\* A wrong ReadOrder: a notification of an order that is paid is booked again.
ReadOrderIgnoringPaid(h) ==
    LET o == webhook[h].order
    IN  /\ webhook[h].pc = "read"
        /\ webhook' = [webhook EXCEPT ![h] =
                         [@ EXCEPT !.seen = order[o].status,
                                   !.pc = IF payment[o] = "failure" THEN "fail"
                                          ELSE "pay"]]
        /\ UNCHANGED <<order, grants, gatewayVars, adminVars, faults>>

\* The row is read by its number, and what is read decides: a paid order is
\* only acknowledged, a failure (state 3 or 4) is noted, a success booked.
ReadOrder(h) ==
    LET o == webhook[h].order
        seen == order[o].status
    IN  /\ webhook[h].pc = "read"
        /\ webhook' = [webhook EXCEPT ![h] =
                         [@ EXCEPT !.seen = seen,
                                   !.pc = IF payment[o] = "failure" THEN "fail"
                                          ELSE IF seen = "paid" THEN "answer"
                                          ELSE "pay"]]
        /\ UNCHANGED <<order, grants, gatewayVars, adminVars, faults>>

\* updateMany with status 'pending' in its where: a row that is no longer
\* pending is left as it is.
MarkFailed(h) ==
    LET o == webhook[h].order
    IN  /\ webhook[h].pc = "fail"
        /\ IF order[o].status = "pending" THEN SetStatus(o, "failed")
           ELSE UNCHANGED order
        /\ Step(h, "answer")
        /\ UNCHANGED <<grants, gatewayVars, adminVars, faults>>

\* The number of the order must be new when none was found before: LinkMePay
\* always found one.
NumberIsFree(h) ==
    webhook[h].seen = "none" => order[webhook[h].order].status = "none"

\* An insert that does not notice that the number was taken meanwhile.
BookPaymentTwice(h) ==
    /\ webhook[h].pc = "pay"
    /\ SetStatus(webhook[h].order, "paid")
    /\ grants' = [grants EXCEPT ![webhook[h].order] = @ + 1]
    /\ Step(h, "answer")
    /\ UNCHANGED <<gatewayVars, adminVars, faults>>

\* A payment marked paid whose credits are forgotten.
BookPaymentWithoutGrant(h) ==
    /\ webhook[h].pc = "pay"
    /\ NumberIsFree(h)
    /\ SetStatus(webhook[h].order, "paid")
    /\ Step(h, "answer")
    /\ UNCHANGED <<grants, gatewayVars, adminVars, faults>>

\* One transaction: the row is created as paid, or updated to paid whatever
\* its status is by now, and the credits are granted.
BookPayment(h) ==
    LET o == webhook[h].order
    IN  /\ webhook[h].pc = "pay"
        /\ NumberIsFree(h)
        /\ SetStatus(o, "paid")
        /\ grants' = [grants EXCEPT ![o] = @ + 1]
        /\ Step(h, "answer")
        /\ UNCHANGED <<gatewayVars, adminVars, faults>>

\* The unique order number makes the second insert fail: the transaction is
\* rolled back, and the error answer makes the gateway repeat.
NumberTaken(h) ==
    /\ webhook[h].pc = "pay"
    /\ ~NumberIsFree(h)
    /\ webhook' = [webhook EXCEPT ![h] = Waiting]
    /\ UNCHANGED <<order, grants, gatewayVars, adminVars, faults>>

\* The acknowledgement reaches the gateway.
Answer(h) ==
    /\ webhook[h].pc = "answer"
    /\ acked' = [acked EXCEPT ![webhook[h].order] = TRUE]
    /\ webhook' = [webhook EXCEPT ![h] = Waiting]
    /\ UNCHANGED <<order, grants, payment, adminVars, faults>>

\* An error that is acknowledged all the same.
WebhookErrorAcked(h) ==
    /\ webhook[h].pc # "idle"
    /\ Fault
    /\ acked' = [acked EXCEPT ![webhook[h].order] = TRUE]
    /\ webhook' = [webhook EXCEPT ![h] = Waiting]
    /\ UNCHANGED <<order, grants, payment, adminVars>>

\* The LinkMePay configuration cannot be read, and every error of that is
\* answered with the acknowledgement of a notification that was handled.
SettingsError(h) ==
    /\ webhook[h].pc = "read"
    /\ Gateway[webhook[h].order] = "linkmepay"
    /\ Fault
    /\ Step(h, "answer")
    /\ UNCHANGED <<order, grants, gatewayVars, adminVars>>

\* A database error before the commit, or a lost acknowledgement after it.
WebhookError(h) ==
    /\ webhook[h].pc # "idle"
    /\ Fault
    /\ webhook' = [webhook EXCEPT ![h] = Waiting]
    /\ UNCHANGED <<order, grants, gatewayVars, adminVars>>

\* The process dies: no request is answered.
Crash ==
    /\ Fault
    /\ webhook' = [h \in Handlers |-> Waiting]
    /\ clerk' = [c \in Clerks |-> [clerk[c] EXCEPT !.pc = "idle", !.amount = 0]]
    /\ UNCHANGED <<order, grants, gatewayVars, repaid, admin>>

HandlerStep(h) ==
    ReadOrder(h) \/ MarkFailed(h) \/ BookPayment(h) \/ NumberTaken(h) \/ Answer(h)

-----------------------------------------------------------------------------
\* An administrator sets any status; no credits move.
UpdateStatus(o, status) ==
    /\ order[o].status # "none"
    /\ Intervene
    /\ SetStatus(o, status)
    /\ UNCHANGED <<grants, gatewayVars, webhook, clerk, repaid, faults>>

\* Number(order.refundAmount || 0)
Refunded(o) == IF order[o].refundAmount = NoAmount THEN 0 ELSE order[o].refundAmount

\* A refund is checked against the row that was read ...
RequestRefund(c, o, amount) ==
    /\ clerk[c].pc = "idle"
    /\ Intervene
    /\ order[o].status = "paid"
    /\ amount <= Price - Refunded(o)
    /\ clerk' = [clerk EXCEPT ![c] = [pc |-> "write", order |-> o, amount |-> amount]]
    /\ UNCHANGED <<order, grants, gatewayVars, webhook, repaid, faults>>

\* { increment: n } is an SQL addition, and null plus n is null.
Increment(column, n) == IF column = NoAmount THEN NoAmount ELSE column + n

\* ... and then written without looking again.  The credits stay granted.
WriteRefund(c) ==
    LET o == clerk[c].order
    IN  /\ clerk[c].pc = "write"
        /\ order' = [order EXCEPT ![o] =
                       [status |-> "refunded",
                        refundAmount |-> Increment(@.refundAmount, clerk[c].amount)]]
        /\ repaid' = [repaid EXCEPT ![o] = @ + clerk[c].amount]
        /\ clerk' = [clerk EXCEPT ![c] = [@ EXCEPT !.pc = "idle", !.amount = 0]]
        /\ UNCHANGED <<grants, gatewayVars, webhook, admin, faults>>

-----------------------------------------------------------------------------
WebhookNext ==
    \/ \E o \in Orders : PlaceOrder(o)
    \/ \E o \in Orders, outcome \in {"success", "failure"} : Settle(o, outcome)
    \/ \E h \in Handlers, o \in Orders : Notify(h, o)
    \/ \E h \in Handlers : HandlerStep(h) \/ SettingsError(h) \/ WebhookError(h)
    \/ Crash

AdminNext ==
    \/ \E o \in Orders, status \in Statuses : UpdateStatus(o, status)
    \/ \E c \in Clerks, o \in Orders, n \in 1..Price : RequestRefund(c, o, n)
    \/ \E c \in Clerks : WriteRefund(c)

Spec == Init /\ [][WebhookNext \/ AdminNext]_vars

\* No administrator touches an order.
UnattendedSpec == Init /\ [][WebhookNext]_vars

\* The server goes on with a request, and a gateway repeats a notification
\* until it is acknowledged.  That fairness is strong because only the bound
\* on the requests served at once ever stands in its way.
Delivery ==
    /\ \A h \in Handlers : WF_vars(HandlerStep(h))
    /\ \A o \in Orders : SF_vars(~acked[o] /\ \E h \in Handlers : Notify(h, o))

FairUnattendedSpec == UnattendedSpec /\ Delivery

-----------------------------------------------------------------------------
\* Credits are only granted for a payment that succeeded: a failure notice
\* never ends in the transaction that grants.
NoGrantWithoutPayment ==
    \A o \in Orders : grants[o] > 0 => payment[o] = "success"

\* While no administrator intervened, an order marked paid has its credits:
\* both are one transaction, whatever crashes.
PaidIsGranted ==
    admin = 0 => \A o \in Orders : order[o].status = "paid" => grants[o] > 0

\* Credits and payments go together.
GrantsFollowPayments == NoGrantWithoutPayment /\ PaidIsGranted

(***************************************************************************)
(* How far double grants can go: each time an order is open, when it was   *)
(* placed or after an administrator changed it, only copies of the         *)
(* notification that were being handled at once can each grant.  Once an   *)
(* order is read as paid, its copies are acknowledged and nothing else.    *)
(***************************************************************************)
GrantsAreBounded ==
    \A o \in Orders : grants[o] <= Cardinality(Handlers) * (admin + 1)

\* The order shows what happened at the gateway: credits for a success,
\* status 'failed' for a failure.
Handled(o) ==
    /\ payment[o] = "success" => order[o].status = "paid" /\ grants[o] > 0
    /\ payment[o] = "failure" => order[o].status = "failed"

(***************************************************************************)
(* What has happened at the gateway gets to the order, if the gateway      *)
(* keeps telling, whatever crashes and whatever answer is lost.  The one   *)
(* exception is a LinkMePay notification that was acknowledged because the *)
(* configuration could not be read.                                        *)
(***************************************************************************)
OutcomeArrives ==
    \A o \in Orders :
        payment[o] # "open" ~>
            \/ Handled(o)
            \/ Gateway[o] = "linkmepay" /\ acked[o] /\ faults > 0

\* The sales of Gumroad, for which the notification creates the order.
Sales == {o \in Orders : Gateway[o] = "gumroad"}

Once == INSTANCE OncePerSale
    WITH sold    <- {o \in Sales : payment[o] = "success"},
         granted <- [o \in Sales |-> grants[o]]

(***************************************************************************)
(* handlePing promises to be idempotent (line 210): the credits of a sale  *)
(* are granted exactly once, however its pings are repeated and overlap    *)
(* and whatever crashes.  The unique order number keeps the promise as     *)
(* long as no administrator changes the status of the order.               *)
(***************************************************************************)
GumroadGrantsOnce == Once!Spec

(***************************************************************************)
(* What linkmepay.service.ts says of the notification (line 243: it must   *)
(* be idempotent).  Two copies of it that are handled at once both find    *)
(* the order pending, and both grant its credits.                          *)
(***************************************************************************)
LinkmepayGrantsOnce ==
    \A o \in Orders : Gateway[o] = "linkmepay" => grants[o] <= 1

(***************************************************************************)
(* What linkmepay-webhook.controller.ts says of the acknowledgement (line  *)
(* 30: the notification was handled correctly).  It is also given when the *)
(* configuration could not be read; the payment is then never booked.      *)
(***************************************************************************)
AckMeansHandled == \A o \in Orders : acked[o] => Handled(o)

(***************************************************************************)
(* What OrderService.refund checks (lines 101 to 106: a refund beyond what *)
(* is left of the amount is refused).  The column it compares with stays   *)
(* null, and two refunds at once are both compared with the whole amount.  *)
(***************************************************************************)
RefundsWithinPrice == \A o \in Orders : repaid[o] <= Price
=============================================================================
