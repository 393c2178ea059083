-------------------------- MODULE MCPaymentOrders --------------------------
(***************************************************************************)
(* Values of the constants of PaymentOrders that a .cfg cannot write.      *)
(***************************************************************************)
EXTENDS PaymentOrders, TLC

CONSTANTS o1, o2

\* One order of each gateway.
OneOfEach == o1 :> "linkmepay" @@ o2 :> "gumroad"

\* An order whose row exists before it is paid.
OneLinkmepay == o1 :> "linkmepay"
=============================================================================
