---------------------------- MODULE CreditPools ----------------------------
(***************************************************************************)
(* The arithmetic of a credit account's three pools: balancePromo (daily), *)
(* balanceSub (monthly) and balancePayg (permanent) of the CreditAccount   *)
(* row, written here as one record of three integers, and the order in     *)
(* which every deduction of credit.service.ts draws on them.               *)
(*                                                                         *)
(* The columns are Prisma Int and nothing constrains their sign, so a      *)
(* balance is an integer and not a natural number.                         *)
(***************************************************************************)
EXTENDS Integers

Pools == {"promo", "subscription", "payg"}

\* One amount per pool: a balance, a charge or a difference of balances.
Amounts == [promo : Int, subscription : Int, payg : Int]

\* Amounts no pool of which is below zero, as a charge must be.
Charges == [promo : Nat, subscription : Nat, payg : Nat]

Nothing == [promo |-> 0, subscription |-> 0, payg |-> 0]

Only(pool, n) ==
    [promo        |-> IF pool = "promo" THEN n ELSE 0,
     subscription |-> IF pool = "subscription" THEN n ELSE 0,
     payg         |-> IF pool = "payg" THEN n ELSE 0]

Plus(a, b) ==
    [promo        |-> a.promo + b.promo,
     subscription |-> a.subscription + b.subscription,
     payg         |-> a.payg + b.payg]

Minus(a, b) ==
    [promo        |-> a.promo - b.promo,
     subscription |-> a.subscription - b.subscription,
     payg         |-> a.payg - b.payg]

Total(a) == a.promo + a.subscription + a.payg

\* A wrong Drawn: Math.min is forgotten.
DrawnWithoutMin(wanted, pool) == IF wanted > 0 /\ pool > 0 THEN wanted ELSE 0

\* What one pool gives towards an amount still wanted: nothing when nothing
\* is wanted or the pool is not positive, else as much as it has.
Drawn(wanted, pool) ==
    IF wanted > 0 /\ pool > 0
    THEN IF wanted < pool THEN wanted ELSE pool
    ELSE 0

\* The cut of the one-credit deductions (else if), used for any amount.
SplitFirstPoolOnly(balance, amount) ==
    IF balance.promo > 0 THEN Only("promo", Drawn(amount, balance.promo))
    ELSE IF balance.subscription > 0
    THEN Only("subscription", Drawn(amount, balance.subscription))
    ELSE Only("payg", Drawn(amount, balance.payg))

(***************************************************************************)
(* How an amount is cut into pools: promo first, then subscription, then   *)
(* payg.  deduct, deductForUpscaleApi and deductForRoomDecorationApi spill *)
(* over from one pool into the next; the one-credit deductions (ClearBG,   *)
(* Kling, DDColor, scratch repair) take the first positive pool, which is  *)
(* the same cut for an amount of one.                                      *)
(***************************************************************************)
Split(balance, amount) ==
    LET promo == Drawn(amount, balance.promo)
        sub   == Drawn(amount - promo, balance.subscription)
    IN  [promo        |-> promo,
         subscription |-> sub,
         payg         |-> Drawn(amount - promo - sub, balance.payg)]
=============================================================================
