---------------------------- MODULE CreditProofs ----------------------------
(***************************************************************************)
(* Proofs about CreditSystem, for any number of users and of concurrent    *)
(* calls.                                                                  *)
(***************************************************************************)
EXTENDS CreditSystem, Sums, TLAPS

-----------------------------------------------------------------------------
(* Facts about the pools.                                                  *)

\* Sums, differences and single-pool amounts stay amounts, and Total is
\* additive over them.
LEMMA AmountsAlgebra ==
    ASSUME NEW a \in Amounts, NEW b \in Amounts
    PROVE  /\ Plus(a, b) \in Amounts
           /\ Minus(a, b) \in Amounts
           /\ Nothing \in Amounts
           /\ Total(a) \in Int
           /\ Total(Plus(a, b)) = Total(a) + Total(b)
           /\ Total(Minus(a, b)) = Total(a) - Total(b)
           /\ Total(Nothing) = 0
           /\ Plus(a, b).payg = a.payg + b.payg
           /\ Minus(a, b).payg = a.payg - b.payg
           /\ Nothing.payg = 0
  BY DEF Amounts, Plus, Minus, Nothing, Total

\* A charge is an amount, and nothing is a charge.
LEMMA ChargesAreAmounts ==
    /\ Nothing \in Charges
    /\ \A c \in Charges : c \in Amounts
  BY DEF Charges, Amounts, Nothing

\* An amount in one pool only.
LEMMA OnlyIsAmounts ==
    ASSUME NEW pool, NEW n \in Int
    PROVE  /\ Only(pool, n) \in Amounts
           /\ pool \in Pools => Total(Only(pool, n)) = n
           /\ pool # "payg" => Only(pool, n).payg = 0
  BY DEF Only, Amounts, Total, Pools

\* A cut of a balance that covers the amount takes the whole amount: even
\* when some pool is negative, the positive ones then hold enough.
LEMMA SplitCovers ==
    ASSUME NEW b \in Amounts, NEW amount \in Nat
    PROVE  /\ Split(b, amount) \in Charges
           /\ Total(b) >= amount => Total(Split(b, amount)) = amount
  <1> DEFINE promo == Drawn(amount, b.promo)
             sub   == Drawn(amount - promo, b.subscription)
             payg  == Drawn(amount - promo - sub, b.payg)
  <1>1. b.promo \in Int /\ b.subscription \in Int /\ b.payg \in Int
    BY DEF Amounts
  <1>2. \A wanted \in Nat, pool \in Int :
           /\ Drawn(wanted, pool) \in Nat
           /\ Drawn(wanted, pool) <= wanted
           /\ Drawn(wanted, pool) = wanted
                \/ Drawn(wanted, pool) = (IF pool > 0 THEN pool ELSE 0)
    BY DEF Drawn
  <1>3. promo \in Nat /\ promo <= amount
    BY <1>1, <1>2
  <1>4. sub \in Nat /\ sub <= amount - promo
    <2>1. amount - promo \in Nat
      BY <1>3
    <2> QED BY <1>1, <1>2, <2>1
  <1>5. payg \in Nat /\ payg <= amount - promo - sub
    <2>1. amount - promo - sub \in Nat
      BY <1>3, <1>4
    <2> QED BY <1>1, <1>2, <2>1
  <1>6. b.promo + b.subscription + b.payg >= amount
          => promo + sub + payg = amount
    <2>1. promo = amount \/ promo = (IF b.promo > 0 THEN b.promo ELSE 0)
      BY <1>1, <1>2
    <2>2. sub = amount - promo
            \/ sub = (IF b.subscription > 0 THEN b.subscription ELSE 0)
      <3>1. amount - promo \in Nat
        BY <1>3
      <3> QED BY <1>1, <1>2, <3>1
    <2>3. payg = amount - promo - sub \/ payg = (IF b.payg > 0 THEN b.payg ELSE 0)
      <3>1. amount - promo - sub \in Nat
        BY <1>3, <1>4
      <3> QED BY <1>1, <1>2, <3>1
    <2> HIDE DEF promo, sub, payg
    <2> QED BY <1>1, <1>3, <1>4, <1>5, <2>1, <2>2, <2>3
  <1>7. Split(b, amount) = [promo |-> promo, subscription |-> sub, payg |-> payg]
    BY DEF Split
  <1> HIDE DEF promo, sub, payg
  <1> QED BY <1>3, <1>4, <1>5, <1>6, <1>7 DEF Total, Charges

\* A cut takes no more from a pool than is in it, and nothing from a pool
\* that is not positive.
LEMMA SplitWithin ==
    ASSUME NEW b \in Amounts, NEW amount \in Nat, NEW pool \in Pools
    PROVE  Split(b, amount)[pool] <= (IF b[pool] > 0 THEN b[pool] ELSE 0)
  BY DEF Split, Drawn, Amounts, Pools

\* Every price list has one to three positive entries.
LEMMA PricesArePositive ==
    ASSUME NEW p \in EndpointPlans \cup {<<n>> : n \in AdminAmounts}
    PROVE  /\ Len(p) \in 1..3
           /\ \A k \in 1..Len(p) : p[k] \in Nat \ {0}
  <1>1. CASE p \in {<<n>> : n \in AdminAmounts}
    BY <1>1, GatewayAssumption
  <1>2. CASE p \in {<<n>> : n \in 1..100}
    <2>1. PICK n \in 1..100 : p = <<n>>
      BY <1>2
    <2>2. n \in Nat \ {0}
      BY <2>1
    <2> QED BY <2>1, <2>2
  <1>3. CASE p = <<1, 1>> \/ p = <<1, 2>>
    <2>1. Len(p) = 2 /\ p[1] \in Nat \ {0} /\ p[2] \in Nat \ {0}
      BY <1>3
    <2>2. \A k \in 1..2 : k = 1 \/ k = 2
      OBVIOUS
    <2> QED BY <2>1, <2>2
  <1>4. CASE p = <<1, 1, 2>>
    <2>1. Len(p) = 3 /\ p[1] \in Nat \ {0} /\ p[2] \in Nat \ {0} /\ p[3] \in Nat \ {0}
      BY <1>4
    <2>2. \A k \in 1..3 : k = 1 \/ k = 2 \/ k = 3
      OBVIOUS
    <2> QED BY <2>1, <2>2
  <1> QED BY <1>1, <1>2, <1>3, <1>4 DEF EndpointPlans

-----------------------------------------------------------------------------
(* The tables: every committed transaction keeps the books.                *)

StoreOK == StoreTypeOK /\ TotalsMatchLedger /\ PaygMatchesLedger

\* A transaction row keeps the type of the ledger and adds to one sum only.
LEMMA RecordAdds ==
    ASSUME StoreTypeOK, NEW u \in Users, NEW type \in TransactionTypes,
           NEW amounts \in Amounts, Record(u, type, amounts)
    PROVE  /\ ledger' \in [Users -> [TransactionTypes -> Amounts]]
           /\ \A v \in Users, t \in TransactionTypes :
                ledger'[v][t] = IF v = u /\ t = type
                                THEN Plus(ledger[v][t], amounts)
                                ELSE ledger[v][t]
  <1>1. Plus(ledger[u][type], amounts) \in Amounts
    BY AmountsAlgebra DEF StoreTypeOK
  <1> QED BY <1>1 DEF Record, StoreTypeOK

\* What Total and .payg of the four sums of an account add up to.
LEMMA LedgerAddsUp ==
    ASSUME ledger \in [Users -> [TransactionTypes -> Amounts]], NEW u \in Users
    PROVE  LedgerBalance(u).payg =
             ledger[u]["grant"].payg + ledger[u]["refund"].payg
               + (ledger[u]["deduct"].payg + ledger[u]["expire"].payg)
  BY DEF LedgerBalance, Plus, TransactionTypes

\* One row of some type in the ledger, with the matching change of the
\* payg pool and of the two totals, keeps all three in agreement.
LEMMA PostKeepsBooks ==
    ASSUME StoreOK, NEW u \in Users, NEW type \in TransactionTypes,
           NEW amounts \in Amounts, Record(u, type, amounts),
           hasRow' \in [Users -> BOOLEAN],
           balance' \in [Users -> Amounts],
           totalEarned' \in [Users -> Int],
           totalSpent' \in [Users -> Int],
           \A v \in Users :
             /\ balance'[v].payg =
                  balance[v].payg + (IF v = u THEN amounts.payg ELSE 0)
             /\ totalEarned'[v] = totalEarned[v]
                  + (IF v = u /\ type = "grant" THEN Total(amounts) ELSE 0)
             /\ totalSpent'[v] = totalSpent[v]
                  - (IF v = u /\ type \in {"deduct", "refund"} THEN Total(amounts) ELSE 0)
    PROVE  StoreOK'
  <1>1. /\ ledger' \in [Users -> [TransactionTypes -> Amounts]]
        /\ \A v \in Users, t \in TransactionTypes :
             ledger'[v][t] = IF v = u /\ t = type
                             THEN Plus(ledger[v][t], amounts) ELSE ledger[v][t]
    BY RecordAdds DEF StoreOK
  <1>2. \A v \in Users, t \in TransactionTypes :
          /\ ledger[v][t] \in Amounts
          /\ Total(ledger[v][t]) \in Int
          /\ ledger[v][t].payg \in Int
          /\ Total(ledger'[v][t]) = Total(ledger[v][t])
               + (IF v = u /\ t = type THEN Total(amounts) ELSE 0)
          /\ ledger'[v][t].payg = ledger[v][t].payg
               + (IF v = u /\ t = type THEN amounts.payg ELSE 0)
    <2> SUFFICES ASSUME NEW v \in Users, NEW t \in TransactionTypes
                 PROVE  /\ ledger[v][t] \in Amounts
                        /\ Total(ledger[v][t]) \in Int
                        /\ ledger[v][t].payg \in Int
                        /\ Total(ledger'[v][t]) = Total(ledger[v][t])
                             + (IF v = u /\ t = type THEN Total(amounts) ELSE 0)
                        /\ ledger'[v][t].payg = ledger[v][t].payg
                             + (IF v = u /\ t = type THEN amounts.payg ELSE 0)
      OBVIOUS
    <2>1. ledger[v][t] \in Amounts
      BY DEF StoreOK, StoreTypeOK
    <2>2. ledger[v][t].payg \in Int
      BY <2>1 DEF Amounts
    <2> QED BY <1>1, <2>1, <2>2, AmountsAlgebra
  <1>3. amounts.payg \in Int /\ Total(amounts) \in Int
    BY AmountsAlgebra DEF Amounts
  <1>4. StoreTypeOK'
    BY <1>1 DEF StoreTypeOK
  <1>5. TotalsMatchLedger'
    <2> SUFFICES ASSUME NEW v \in Users
                 PROVE  /\ totalEarned'[v] = Total(ledger'[v]["grant"])
                        /\ totalSpent'[v] + Total(ledger'[v]["deduct"])
                                          + Total(ledger'[v]["refund"]) = 0
      BY DEF TotalsMatchLedger
    <2>1. /\ totalEarned[v] = Total(ledger[v]["grant"])
          /\ totalSpent[v] + Total(ledger[v]["deduct"]) + Total(ledger[v]["refund"]) = 0
          /\ totalSpent[v] \in Int
      BY DEF StoreOK, StoreTypeOK, TotalsMatchLedger
    <2>2. \A t \in {"grant", "deduct", "refund"} :
            /\ Total(ledger[v][t]) \in Int
            /\ Total(ledger'[v][t]) = Total(ledger[v][t])
                 + (IF v = u /\ t = type THEN Total(amounts) ELSE 0)
      BY <1>2 DEF TransactionTypes
    <2>3. totalEarned'[v] = Total(ledger'[v]["grant"])
      BY <1>3, <2>1, <2>2
    <2>4. CASE v # u \/ type \in {"grant", "expire"}
      BY <1>3, <2>1, <2>2, <2>4
    <2>5. CASE v = u /\ type \in {"deduct", "refund"}
      BY <1>3, <2>1, <2>2, <2>5
    <2> QED BY <2>3, <2>4, <2>5 DEF TransactionTypes
  <1>6. PaygMatchesLedger'
    <2> SUFFICES ASSUME NEW v \in Users
                 PROVE  balance'[v].payg = LedgerBalance(v).payg'
      BY DEF PaygMatchesLedger
    <2>1. LedgerBalance(v).payg =
             ledger[v]["grant"].payg + ledger[v]["refund"].payg
               + (ledger[v]["deduct"].payg + ledger[v]["expire"].payg)
      BY LedgerAddsUp DEF StoreOK, StoreTypeOK
    <2>2. LedgerBalance(v).payg' =
             ledger'[v]["grant"].payg + ledger'[v]["refund"].payg
               + (ledger'[v]["deduct"].payg + ledger'[v]["expire"].payg)
      BY <1>1 DEF LedgerBalance, Plus, TransactionTypes
    <2>3. balance[v].payg = LedgerBalance(v).payg
      BY DEF StoreOK, PaygMatchesLedger
    <2> QED BY <1>2, <1>3, <2>1, <2>2, <2>3 DEF TransactionTypes
  <1> QED BY <1>4, <1>5, <1>6 DEF StoreOK

\* A grant adds to a pool, to totalEarned and to the grant rows.
LEMMA GrantKeepsBooks ==
    ASSUME StoreOK, NEW u \in Users, NEW amounts \in Amounts, Grant(u, amounts)
    PROVE  StoreOK'
  <1>1. Record(u, "grant", amounts) /\ "grant" \in TransactionTypes
    BY DEF Grant, TransactionTypes
  <1>2. hasRow' \in [Users -> BOOLEAN]
    BY DEF Grant, EnsureRow, StoreOK, StoreTypeOK
  <1>3. \A v \in Users : balance[v] \in Amounts /\ balance[v].payg \in Int
    BY DEF StoreOK, StoreTypeOK, Amounts
  <1>4. /\ balance' \in [Users -> Amounts]
        /\ \A v \in Users : balance'[v].payg =
             balance[v].payg + (IF v = u THEN amounts.payg ELSE 0)
    BY <1>3, AmountsAlgebra DEF Grant, StoreOK, StoreTypeOK
  <1>5. Total(amounts) \in Int
    BY AmountsAlgebra
  <1>6. /\ totalEarned' \in [Users -> Int]
        /\ totalSpent' \in [Users -> Int]
        /\ \A v \in Users :
             /\ totalEarned'[v] = totalEarned[v] + (IF v = u THEN Total(amounts) ELSE 0)
             /\ totalSpent'[v] = totalSpent[v] - 0
    BY <1>5 DEF Grant, StoreOK, StoreTypeOK
  <1> QED BY <1>1, <1>2, <1>4, <1>6, PostKeepsBooks

\* A cut whose total is the amount asked for.
LEMMA DeductKeepsBooks ==
    ASSUME StoreOK, NEW u \in Users, NEW cut \in Amounts, Deduct(u, cut, Total(cut))
    PROVE  StoreOK'
  <1> DEFINE row == Minus(Nothing, cut)
  <1>1. Record(u, "deduct", row) /\ "deduct" \in TransactionTypes
    BY DEF Deduct, TransactionTypes
  <1>2. /\ row \in Amounts
        /\ Total(row) = 0 - Total(cut)
        /\ row.payg = 0 - cut.payg
        /\ Total(cut) \in Int
    BY AmountsAlgebra
  <1>3. \A v \in Users : /\ balance[v] \in Amounts
                         /\ balance[v].payg \in Int
                         /\ cut.payg \in Int
    BY DEF StoreOK, StoreTypeOK, Amounts
  <1> HIDE DEF row
  <1>4. /\ balance' \in [Users -> Amounts]
        /\ \A v \in Users : balance'[v].payg =
             balance[v].payg + (IF v = u THEN row.payg ELSE 0)
    BY <1>2, <1>3, AmountsAlgebra DEF Deduct, StoreOK, StoreTypeOK
  <1>5. /\ hasRow' \in [Users -> BOOLEAN]
        /\ totalEarned' \in [Users -> Int]
        /\ totalSpent' \in [Users -> Int]
        /\ \A v \in Users :
             /\ totalEarned'[v] = totalEarned[v] + 0
             /\ totalSpent'[v] = totalSpent[v] - (IF v = u THEN Total(row) ELSE 0)
    BY <1>2 DEF Deduct, StoreOK, StoreTypeOK
  <1> QED BY <1>1, <1>2, <1>4, <1>5, PostKeepsBooks

\* A refund gives a cut back to its pools and lowers totalSpent.
LEMMA RefundKeepsBooks ==
    ASSUME StoreOK, NEW u \in Users, NEW cut \in Amounts, Refund(u, cut)
    PROVE  StoreOK'
  <1>1. Record(u, "refund", cut) /\ "refund" \in TransactionTypes
    BY DEF Refund, TransactionTypes
  <1>2. \A v \in Users : balance[v] \in Amounts /\ balance[v].payg \in Int
    BY DEF StoreOK, StoreTypeOK, Amounts
  <1>3. /\ balance' \in [Users -> Amounts]
        /\ \A v \in Users : balance'[v].payg =
             balance[v].payg + (IF v = u THEN cut.payg ELSE 0)
    BY <1>2, AmountsAlgebra DEF Refund, StoreOK, StoreTypeOK
  <1>4. Total(cut) \in Int
    BY AmountsAlgebra
  <1>5. /\ hasRow' \in [Users -> BOOLEAN]
        /\ totalEarned' \in [Users -> Int]
        /\ totalSpent' \in [Users -> Int]
        /\ \A v \in Users :
             /\ totalEarned'[v] = totalEarned[v] + 0
             /\ totalSpent'[v] = totalSpent[v] - (IF v = u THEN Total(cut) ELSE 0)
    BY <1>4 DEF Refund, StoreOK, StoreTypeOK
  <1> QED BY <1>1, <1>3, <1>5, PostKeepsBooks

\* The absolute write of the daily reset does not touch the payg pool.
LEMMA SetPromoKeepsBooks ==
    ASSUME StoreOK, NEW u \in Users, NEW delta \in Int, SetPromo(u, delta),
           UNCHANGED <<hasRow, totalSpent>>
    PROVE  StoreOK'
  <1> DEFINE type == IF delta > 0 THEN "grant" ELSE "expire"
  <1>1. /\ Record(u, type, Only("promo", delta))
        /\ type \in TransactionTypes
    BY DEF SetPromo, TransactionTypes
  <1>2. /\ Only("promo", delta) \in Amounts
        /\ Total(Only("promo", delta)) = delta
        /\ Only("promo", delta).payg = 0
    BY OnlyIsAmounts DEF Pools
  <1>3. /\ balance' \in [Users -> Amounts]
        /\ \A v \in Users : balance'[v].payg = balance[v].payg
                            /\ balance[v].payg \in Int
    <2>1. \A v \in Users : balance[v].payg \in Int
      BY DEF StoreOK, StoreTypeOK, Amounts
    <2>2. CASE delta = 0
      BY <2>1, <2>2 DEF SetPromo, StoreOK, StoreTypeOK
    <2>3. CASE delta # 0
      <3>1. balance' = [balance EXCEPT ![u].promo = DailyPromo] /\ DailyPromo \in Int
        BY <2>3, SchedulerAssumption DEF SetPromo
      <3>2. balance \in [Users -> Amounts]
        BY DEF StoreOK, StoreTypeOK
      <3> QED BY <2>1, <3>1, <3>2 DEF Amounts
    <2> QED BY <2>2, <2>3
  <1>4. /\ totalEarned' \in [Users -> Int]
        /\ \A v \in Users : totalEarned'[v] = totalEarned[v]
             + (IF v = u /\ type = "grant" THEN delta ELSE 0)
    BY DEF SetPromo, StoreOK, StoreTypeOK
  <1>5. /\ hasRow' \in [Users -> BOOLEAN]
        /\ totalSpent' \in [Users -> Int]
        /\ \A v \in Users : totalSpent'[v] = totalSpent[v] - 0
    BY DEF StoreOK, StoreTypeOK
  <1>6. type \notin {"deduct", "refund"}
    OBVIOUS
  <1> HIDE DEF type
  <1> QED BY <1>1, <1>2, <1>3, <1>4, <1>5, <1>6, PostKeepsBooks

\* Neither does the monthly expiry.
LEMMA EmptyKeepsBooks ==
    ASSUME StoreOK, NEW u \in Users, NEW expired \in Int, Empty(u, expired),
           hasRow' \in [Users -> BOOLEAN], UNCHANGED <<totalEarned, totalSpent>>
    PROVE  StoreOK'
  <1>1. CASE expired > 0
    <2> DEFINE row == Only("subscription", -expired)
    <2>1. Record(u, "expire", row) /\ "expire" \in TransactionTypes
      BY <1>1 DEF Empty, TransactionTypes
    <2>2. row \in Amounts /\ row.payg = 0
      BY OnlyIsAmounts
    <2>3. /\ balance' \in [Users -> Amounts]
          /\ \A v \in Users : balance'[v].payg = balance[v].payg
                              /\ balance[v].payg \in Int
      <3>1. balance' = [balance EXCEPT ![u].subscription = 0]
        BY <1>1 DEF Empty
      <3>2. balance \in [Users -> Amounts]
        BY DEF StoreOK, StoreTypeOK
      <3> QED BY <3>1, <3>2 DEF Amounts
    <2>4. /\ totalEarned' \in [Users -> Int]
          /\ totalSpent' \in [Users -> Int]
          /\ \A v \in Users : /\ totalEarned'[v] = totalEarned[v] + 0
                              /\ totalSpent'[v] = totalSpent[v] - 0
      BY DEF StoreOK, StoreTypeOK
    <2> HIDE DEF row
    <2> QED BY <2>1, <2>2, <2>3, <2>4, PostKeepsBooks
  <1>2. CASE ~(expired > 0)
    BY <1>2 DEF Empty, StoreOK, StoreTypeOK, TotalsMatchLedger,
                PaygMatchesLedger, LedgerBalance
  <1> QED BY <1>1, <1>2

-----------------------------------------------------------------------------
(* The calls.                                                              *)

GatewayOK == GatewayTypeOK /\ CallsOK

\* A step of one call leaves the others as they were.
LEMMA OtherCallsKeepOK ==
    ASSUME GatewayOK, NEW r \in Requests, NEW new \in RequestRecords,
           req' = [req EXCEPT ![r] = new], CallOK(new), faults' \in 0..MaxFaults
    PROVE  GatewayOK'
  <1>1. req \in [Requests -> RequestRecords]
    BY DEF GatewayOK, GatewayTypeOK
  <1>2. GatewayTypeOK'
    BY <1>1 DEF GatewayTypeOK
  <1>3. \A q \in Requests : req'[q] = IF q = r THEN new ELSE req[q]
    BY <1>1
  <1> QED BY <1>2, <1>3 DEF GatewayOK, CallsOK

\* What the type of a call that has arrived says of its price list.
LEMMA CallPrices ==
    ASSUME GatewayOK, NEW r \in Requests, req[r].pc # "free"
    PROVE  /\ Price(r) \in Nat \ {0}
           /\ req[r].stage \in 1..Len(req[r].prices)
           /\ Len(req[r].prices) \in 1..3
           /\ req[r].prices \in EndpointPlans \cup {<<n>> : n \in AdminAmounts}
  <1>1. req[r] \in RequestRecords
    BY DEF GatewayOK, GatewayTypeOK
  <1>2. req[r].stage \in 1..3 /\ req[r].stage <= Len(req[r].prices)
    BY <1>1 DEF RequestRecords, Stages, GatewayOK, CallsOK, CallOK
  <1>3. req[r].prices # <<>>
    BY <1>2
  <1>4. req[r].prices \in EndpointPlans \cup {<<n>> : n \in AdminAmounts}
    BY <1>1, <1>3 DEF RequestRecords
  <1>5. /\ Len(req[r].prices) \in 1..3
        /\ \A k \in 1..Len(req[r].prices) : req[r].prices[k] \in Nat \ {0}
    BY <1>4, PricesArePositive
  <1>6. req[r].stage \in 1..Len(req[r].prices)
    BY <1>2, <1>5
  <1> QED BY <1>4, <1>5, <1>6 DEF Price

\* Steps that only move the program counter, to where nothing is known.
LEMMA GotoKeepsOK ==
    ASSUME GatewayOK, NEW r \in Requests, req[r].pc # "free",
           NEW pc \in {"create", "refund", "refundBase", "failed", "lost"},
           pc = "create" => req[r].pc = "read",
           NEW new \in {[req[r] EXCEPT !.pc = pc],
                        [req[r] EXCEPT !.pc = pc, !.row = Nothing]},
           req' = [req EXCEPT ![r] = new],
           faults' \in 0..MaxFaults
    PROVE  GatewayOK'
  <1>1. req \in [Requests -> RequestRecords] /\ req[r] \in RequestRecords
    BY DEF GatewayOK, GatewayTypeOK
  <1>2. Nothing \in Amounts /\ pc \in PCs
    BY ChargesAreAmounts DEF PCs
  <1>3. new \in RequestRecords
    <2>1. [req[r] EXCEPT !.pc = pc] \in RequestRecords
      BY <1>1, <1>2 DEF RequestRecords
    <2>2. [req[r] EXCEPT !.pc = pc, !.row = Nothing] \in RequestRecords
      BY <1>1, <1>2 DEF RequestRecords
    <2> QED BY <2>1, <2>2
  <1>4. /\ new.pc = pc
        /\ new.stage = req[r].stage
        /\ new.prices = req[r].prices
        /\ new.kind = req[r].kind
        /\ new.held = req[r].held
    BY <1>1 DEF RequestRecords
  <1>5. CallOK(new)
    BY <1>4 DEF CallOK, PaidStages, GatewayOK, CallsOK
  <1> QED BY <1>3, <1>5, OtherCallsKeepOK

\* A step that leaves the tables alone keeps the books.
LEMMA StoreUnchanged ==
    ASSUME StoreOK, UNCHANGED storeVars
    PROVE  StoreOK'
  BY DEF StoreOK, StoreTypeOK, TotalsMatchLedger, PaygMatchesLedger,
         LedgerBalance, storeVars

\* A call that arrives has a price list and is at its first stage.
LEMMA ArriveKeepsOK ==
    ASSUME GatewayOK, NEW r \in Requests, NEW u \in Users,
           \/ \E prices \in Plans : Arrive(r, u, prices)
           \/ \E n \in AdminAmounts : ArriveAdmin(r, u, n)
    PROVE  GatewayOK'
  <1>1. req \in [Requests -> RequestRecords] /\ req[r] \in RequestRecords
    BY DEF GatewayOK, GatewayTypeOK
  <1>2. req[r].pc = "free"
    BY DEF Arrive, ArriveAdmin
  <1>3. req[r].stage = 1 /\ req[r].kind = "api"
    BY <1>2 DEF GatewayOK, CallsOK, CallOK
  <1>4. faults' \in 0..MaxFaults
    BY DEF Arrive, ArriveAdmin, GatewayOK, GatewayTypeOK
  <1>5. ASSUME NEW prices \in Plans, Arrive(r, u, prices)
        PROVE  GatewayOK'
    <2> DEFINE new == [req[r] EXCEPT !.pc = "read", !.user = u, !.prices = prices]
    <2>1. prices \in EndpointPlans
      BY GatewayAssumption
    <2>2. new \in RequestRecords
      BY <1>1, <2>1 DEF RequestRecords, PCs
    <2>3. req' = [req EXCEPT ![r] = new]
      BY <1>1, <1>5 DEF Arrive
    <2>4. new.pc = "read" /\ new.stage = 1 /\ new.kind = "api" /\ new.prices = prices
      BY <1>1, <1>3 DEF RequestRecords
    <2> HIDE DEF new
    <2>5. 1 <= Len(new.prices)
      <3>1. Len(prices) \in 1..3
        BY <2>1, PricesArePositive
      <3>2. 1 <= Len(prices)
        BY <3>1
      <3> QED BY <2>4, <3>2
    <2>6. PaidStages(new) = {}
      BY <2>4 DEF PaidStages
    <2>7. CallOK(new)
      BY <2>4, <2>5, <2>6 DEF CallOK
    <2> QED BY <1>4, <2>2, <2>3, <2>7, OtherCallsKeepOK
  <1>6. ASSUME NEW n \in AdminAmounts, ArriveAdmin(r, u, n)
        PROVE  GatewayOK'
    <2> DEFINE new == [req[r] EXCEPT !.pc = "read", !.kind = "admin",
                                     !.user = u, !.prices = <<n>>]
    <2>1. <<n>> \in {<<m>> : m \in AdminAmounts}
      OBVIOUS
    <2>2. new \in RequestRecords
      BY <1>1, <2>1 DEF RequestRecords, PCs
    <2>3. req' = [req EXCEPT ![r] = new]
      BY <1>1, <1>6 DEF ArriveAdmin
    <2>4. new.pc = "read" /\ new.stage = 1 /\ new.kind = "admin" /\ new.prices = <<n>>
      BY <1>1, <1>3 DEF RequestRecords
    <2>5. Len(<<n>>) = 1
      OBVIOUS
    <2> HIDE DEF new
    <2>6. PaidStages(new) = {}
      BY <2>4 DEF PaidStages
    <2>7. CallOK(new)
      BY <2>4, <2>5, <2>6 DEF CallOK
    <2> QED BY <1>4, <2>2, <2>3, <2>7, OtherCallsKeepOK
  <1> QED BY <1>5, <1>6

\* The deduction takes exactly the price, so the stage is paid.
LEMMA DebitKeepsOK ==
    ASSUME GatewayOK, StoreOK, NEW r \in Requests, Debit(r)
    PROVE  GatewayOK' /\ StoreOK'
  <1> DEFINE cut == Split(req[r].row, Price(r))
             k   == req[r].stage
             new == [req[r] EXCEPT !.pc = IF req[r].kind = "admin" THEN "ok"
                                          ELSE "upstream",
                                   !.row = Nothing,
                                   !.held = [@ EXCEPT ![k] = cut]]
  <1>1. req \in [Requests -> RequestRecords] /\ req[r] \in RequestRecords
    BY DEF GatewayOK, GatewayTypeOK
  <1>2. /\ req[r].pc = "debit"
        /\ Deduct(req[r].user, cut, Price(r))
        /\ UNCHANGED faults
    BY DEF Debit
  <1>3. /\ Price(r) \in Nat
        /\ Len(req[r].prices) \in Nat
        /\ k \in 1..Len(req[r].prices)
    BY <1>2, CallPrices
  <1>4. Total(req[r].row) >= Price(r)
    BY <1>2 DEF GatewayOK, CallsOK, CallOK, Price
  <1>5. req[r].row \in Amounts /\ req[r].user \in Users /\ k \in Stages
        /\ req[r].held \in [Stages -> Charges]
    BY <1>1 DEF RequestRecords
  <1>6. cut \in Charges /\ Total(cut) = Price(r)
    BY <1>3, <1>4, <1>5, SplitCovers
  <1>7. cut \in Amounts
    BY <1>6, ChargesAreAmounts
  <1>8. StoreOK'
    <2>1. Deduct(req[r].user, cut, Total(cut))
      BY <1>2, <1>6
    <2> HIDE DEF cut
    <2> QED BY <1>5, <1>7, <2>1, DeductKeepsBooks
  <1>9. req' = [req EXCEPT ![r] = new]
    BY <1>1 DEF Debit
  <1> HIDE DEF cut
  <1>10. [req[r].held EXCEPT ![k] = cut] \in [Stages -> Charges]
    BY <1>5, <1>6
  <1>11. new \in RequestRecords
    BY <1>1, <1>10, ChargesAreAmounts DEF RequestRecords, PCs
  <1>12. /\ new.pc = IF req[r].kind = "admin" THEN "ok" ELSE "upstream"
         /\ new.stage = k
         /\ new.prices = req[r].prices
         /\ new.kind = req[r].kind
         /\ new.held = [req[r].held EXCEPT ![k] = cut]
    BY <1>1 DEF RequestRecords
  <1> HIDE DEF new
  <1>14. \A j \in 1..k : Total(new.held[j]) = new.prices[j]
    <2>1. \A j \in 1..(k - 1) : Total(req[r].held[j]) = req[r].prices[j]
      BY <1>2 DEF GatewayOK, CallsOK, CallOK, PaidStages
    <2>2. \A j \in 1..k : j = k \/ (j \in 1..(k - 1) /\ j # k)
      BY <1>3
    <2>3. \A j \in Stages : new.held[j] = IF j = k THEN cut ELSE req[r].held[j]
      BY <1>5, <1>12
    <2>4. 1..k \subseteq Stages
      BY <1>5 DEF Stages
    <2>5. req[r].prices[k] = Total(cut)
      BY <1>6 DEF Price
    <2> QED BY <1>12, <2>1, <2>2, <2>3, <2>4, <2>5
  <1>15. req[r].kind = "admin" => Len(req[r].prices) = 1
    BY DEF GatewayOK, CallsOK, CallOK
  <1>16. CallOK(new)
    <2>1. PaidStages(new) = 1..k
      BY <1>12 DEF PaidStages
    <2>2. /\ k <= Len(new.prices)
          /\ new.pc \in {"ok", "upstream"}
          /\ new.pc = "ok" => Len(new.prices) = 1
          /\ new.kind = "admin" => Len(new.prices) = 1
      BY <1>3, <1>12, <1>15
    <2>3. new.pc = "ok" => new.stage = Len(new.prices)
      <3>1. Len(new.prices) = 1 => k = 1
        BY <1>3, <1>12
      <3> QED BY <1>12, <2>2, <3>1
    <2> QED BY <1>12, <1>14, <2>1, <2>2, <2>3 DEF CallOK
  <1>17. faults' \in 0..MaxFaults
    BY <1>2 DEF GatewayOK, GatewayTypeOK
  <1> QED BY <1>8, <1>9, <1>11, <1>16, <1>17, OtherCallsKeepOK

\* Reading the account only lets a covered price through.
LEMMA ReadKeepsOK ==
    ASSUME GatewayOK, StoreOK, NEW r \in Requests, ReadAccount(r)
    PROVE  GatewayOK'
  <1> DEFINE u == req[r].user
             new == [req[r] EXCEPT !.pc = "debit", !.row = balance[u]]
  <1>1. req \in [Requests -> RequestRecords] /\ req[r] \in RequestRecords
    BY DEF GatewayOK, GatewayTypeOK
  <1>2. req[r].pc = "read" /\ faults' \in 0..MaxFaults
    BY DEF ReadAccount, GatewayOK, GatewayTypeOK
  <1>3. balance[u] \in Amounts /\ Total(balance[u]) \in Int
    BY <1>1, AmountsAlgebra DEF RequestRecords, StoreOK, StoreTypeOK
  <1>4. Price(r) \in Nat
    BY <1>2, CallPrices
  <1>5. CASE Total(balance[u]) < Price(r)
    <2> DEFINE refused == [req[r] EXCEPT !.pc = Caught(r)]
    <2>1. req' = [req EXCEPT ![r] = refused]
      BY <1>1, <1>5 DEF ReadAccount, Goto
    <2>2. Caught(r) \in {"failed", "refundBase"}
      BY DEF Caught
    <2> QED BY <1>2, <2>1, <2>2, GotoKeepsOK
  <1>6. CASE ~(Total(balance[u]) < Price(r))
    <2>1. req' = [req EXCEPT ![r] = new]
      BY <1>1, <1>6 DEF ReadAccount
    <2>2. new \in RequestRecords
      BY <1>1, <1>3 DEF RequestRecords, PCs
    <2>3. /\ new.pc = "debit"
          /\ new.row = balance[u]
          /\ new.stage = req[r].stage
          /\ new.prices = req[r].prices
          /\ new.kind = req[r].kind
          /\ new.held = req[r].held
      BY <1>1 DEF RequestRecords
    <2>4. Total(balance[u]) >= req[r].prices[req[r].stage]
      BY <1>3, <1>4, <1>6 DEF Price
    <2> HIDE DEF new
    <2>5. PaidStages(new) = PaidStages(req[r])
      BY <1>2, <2>3 DEF PaidStages
    <2>6. CallOK(new)
      BY <1>2, <2>3, <2>4, <2>5 DEF CallOK, GatewayOK, CallsOK
    <2> QED BY <1>2, <2>1, <2>2, <2>6, OtherCallsKeepOK
  <1> QED BY <1>5, <1>6

\* An answer of the image service moves on to the next stage, or ends
\* a call whose stages are all paid.
LEMMA UpstreamOkKeepsOK ==
    ASSUME GatewayOK, NEW r \in Requests, UpstreamOk(r)
    PROVE  GatewayOK'
  <1> DEFINE k == req[r].stage
  <1>1. req \in [Requests -> RequestRecords] /\ req[r] \in RequestRecords
    BY DEF GatewayOK, GatewayTypeOK
  <1>2. req[r].pc = "upstream" /\ faults' \in 0..MaxFaults
    BY DEF UpstreamOk, GatewayOK, GatewayTypeOK
  <1>3. /\ Len(req[r].prices) \in 1..3
        /\ k \in 1..Len(req[r].prices)
    BY <1>2, CallPrices
  <1>4. CallOK(req[r]) /\ PaidStages(req[r]) = 1..k
    BY <1>2 DEF GatewayOK, CallsOK, PaidStages
  <1>5. CASE k < Len(req[r].prices)
    <2> DEFINE new == [req[r] EXCEPT !.pc = "read", !.stage = k + 1]
    <2>1. req' = [req EXCEPT ![r] = new]
      BY <1>1, <1>5 DEF UpstreamOk
    <2>2. k + 1 \in Stages /\ k + 1 <= Len(req[r].prices)
      <3> DEFINE n == Len(req[r].prices)
      <3>1. n \in 1..3 /\ k \in 1..n /\ k < n
        BY <1>3, <1>5
      <3> HIDE DEF n, k
      <3>2. k + 1 \in 1..3 /\ k + 1 <= n
        BY <3>1
      <3> QED BY <3>2 DEF Stages, n
    <2>3. new \in RequestRecords
      BY <1>1, <2>2 DEF RequestRecords, PCs
    <2>4. /\ new.pc = "read"
          /\ new.stage = k + 1
          /\ new.prices = req[r].prices
          /\ new.kind = req[r].kind
          /\ new.held = req[r].held
      BY <1>1 DEF RequestRecords
    <2> HIDE DEF new
    <2>5. PaidStages(new) = 1..k
      <3>1. PaidStages(new) = 1..((k + 1) - 1)
        BY <2>4 DEF PaidStages
      <3> QED BY <1>3, <3>1
    <2>6. CallOK(new)
      BY <1>4, <2>2, <2>4, <2>5 DEF CallOK
    <2> QED BY <1>2, <2>1, <2>3, <2>6, OtherCallsKeepOK
  <1>6. CASE ~(k < Len(req[r].prices))
    <2> DEFINE new == [req[r] EXCEPT !.pc = "ok"]
    <2>1. req' = [req EXCEPT ![r] = new]
      BY <1>1, <1>6 DEF UpstreamOk, Goto
    <2>2. new \in RequestRecords
      BY <1>1 DEF RequestRecords, PCs
    <2>3. /\ new.pc = "ok"
          /\ new.stage = k
          /\ new.prices = req[r].prices
          /\ new.kind = req[r].kind
          /\ new.held = req[r].held
      BY <1>1 DEF RequestRecords
    <2>4. k = Len(req[r].prices)
      BY <1>3, <1>6
    <2> HIDE DEF new
    <2>5. PaidStages(new) = 1..k
      BY <2>3 DEF PaidStages
    <2>6. k <= Len(new.prices)
      BY <1>3, <2>3
    <2>7. CallOK(new)
      BY <1>4, <2>3, <2>4, <2>5, <2>6 DEF CallOK
    <2> QED BY <1>2, <2>1, <2>2, <2>7, OtherCallsKeepOK
  <1> QED BY <1>5, <1>6

\* A refund step: the charge of stage k is dropped, nothing is known after.
LEMMA RefundKeepsOK ==
    ASSUME GatewayOK, StoreOK, NEW r \in Requests, RefundStage(r) \/ RefundBase(r)
    PROVE  GatewayOK' /\ StoreOK'
  <1>1. req \in [Requests -> RequestRecords] /\ req[r] \in RequestRecords
    BY DEF GatewayOK, GatewayTypeOK
  <1>2. PICK k \in Stages, pc \in {"failed", "refundBase"} :
          /\ Refund(req[r].user, req[r].held[k])
          /\ req' = [req EXCEPT ![r] = [@ EXCEPT !.pc = pc, !.held[k] = Nothing]]
    <2>1. CASE RefundStage(r)
      <3>1. Caught(r) \in {"failed", "refundBase"} /\ req[r].stage \in Stages
        BY <1>1 DEF Caught, RequestRecords
      <3> QED BY <2>1, <3>1 DEF RefundStage
    <2>2. CASE RefundBase(r)
      BY <2>2 DEF RefundBase, Stages
    <2> QED BY <2>1, <2>2
  <1>3. req[r].pc # "free" /\ faults' \in 0..MaxFaults
    BY DEF RefundStage, RefundBase, GatewayOK, GatewayTypeOK
  <1>4. /\ req[r].user \in Users
        /\ req[r].held \in [Stages -> Charges]
        /\ req[r].held[k] \in Amounts
    BY <1>1, ChargesAreAmounts DEF RequestRecords
  <1>5. StoreOK'
    BY <1>2, <1>4, RefundKeepsBooks
  <1> DEFINE held == [req[r].held EXCEPT ![k] = Nothing]
             new  == [req[r] EXCEPT !.pc = pc, !.held = held]
  <1>6. req' = [req EXCEPT ![r] = new]
    BY <1>1, <1>2
  <1>7. held \in [Stages -> Charges]
    BY <1>4, ChargesAreAmounts
  <1>8. new \in RequestRecords
    BY <1>1, <1>7 DEF RequestRecords, PCs
  <1>9. /\ new.pc = pc
        /\ new.stage = req[r].stage
        /\ new.prices = req[r].prices
        /\ new.kind = req[r].kind
    BY <1>1 DEF RequestRecords
  <1> HIDE DEF new
  <1>10. CallOK(new)
    BY <1>3, <1>9 DEF CallOK, PaidStages, GatewayOK, CallsOK
  <1> QED BY <1>3, <1>5, <1>6, <1>8, <1>10, OtherCallsKeepOK

\* Every step of a call keeps the invariants of the calls and the tables.
LEMMA GatewayStep ==
    ASSUME GatewayOK, StoreOK, NEW callers \in SUBSET Users, GatewayNext(callers)
    PROVE  GatewayOK' /\ StoreOK'
  <1> PICK r \in Requests :
        \/ \E u \in Users, prices \in Plans : Arrive(r, u, prices)
        \/ \E u \in Users, n \in AdminAmounts : ArriveAdmin(r, u, n)
        \/ RequestStep(r)
        \/ DatabaseError(r) \/ RefundError(r)
    BY DEF GatewayNext
  <1>1. /\ req \in [Requests -> RequestRecords]
        /\ faults \in 0..MaxFaults
        /\ Caught(r) \in {"failed", "refundBase"}
        /\ MaxFaults \in Nat
    BY GatewayAssumption DEF GatewayOK, GatewayTypeOK, Caught
  <1>2. CASE \E u \in Users, prices \in Plans : Arrive(r, u, prices)
    <2>1. UNCHANGED storeVars
      BY <1>2 DEF Arrive
    <2> QED BY <1>2, <2>1, ArriveKeepsOK, StoreUnchanged
  <1>3. CASE \E u \in Users, n \in AdminAmounts : ArriveAdmin(r, u, n)
    <2>1. UNCHANGED storeVars
      BY <1>3 DEF ArriveAdmin
    <2> QED BY <1>3, <2>1, ArriveKeepsOK, StoreUnchanged
  <1>4. CASE ReadAccount(r)
    <2>1. UNCHANGED storeVars
      BY <1>4 DEF ReadAccount
    <2> QED BY <1>4, <2>1, ReadKeepsOK, StoreUnchanged
  <1>5. CASE ReadNoAccount(r)
    <2>1. UNCHANGED storeVars /\ faults' \in 0..MaxFaults /\ req[r].pc = "read"
      BY <1>1, <1>5 DEF ReadNoAccount
    <2>2. req' = [req EXCEPT ![r] = [req[r] EXCEPT !.pc = "create"]]
      BY <1>1, <1>5 DEF ReadNoAccount, Goto
    <2> QED BY <2>1, <2>2, GotoKeepsOK, StoreUnchanged
  <1>6. CASE CreateAccount(r)
    <2>1. faults' \in 0..MaxFaults /\ req[r].pc = "create"
      BY <1>1, <1>6 DEF CreateAccount
    <2>2. req' = [req EXCEPT ![r] = [req[r] EXCEPT !.pc = Caught(r)]]
      BY <1>1, <1>6 DEF CreateAccount, Goto
    <2>3. hasRow' \in [Users -> BOOLEAN]
      BY <1>6 DEF CreateAccount, EnsureRow, StoreOK, StoreTypeOK
    <2>4. StoreOK'
      BY <1>6, <2>3 DEF CreateAccount, StoreOK, StoreTypeOK, TotalsMatchLedger,
                        PaygMatchesLedger, LedgerBalance
    <2> QED BY <1>1, <2>1, <2>2, <2>4, GotoKeepsOK
  <1>7. CASE Debit(r)
    BY <1>7, DebitKeepsOK
  <1>8. CASE UpstreamOk(r)
    <2>1. UNCHANGED storeVars
      BY <1>8 DEF UpstreamOk
    <2> QED BY <1>8, <2>1, UpstreamOkKeepsOK, StoreUnchanged
  <1>9. CASE UpstreamFail(r)
    <2>1. UNCHANGED storeVars /\ faults' \in 0..MaxFaults /\ req[r].pc = "upstream"
      BY <1>1, <1>9 DEF UpstreamFail
    <2>2. req' = [req EXCEPT ![r] = [req[r] EXCEPT !.pc = "refund"]]
      BY <1>1, <1>9 DEF UpstreamFail, Goto
    <2> QED BY <2>1, <2>2, GotoKeepsOK, StoreUnchanged
  <1>10. CASE RefundStage(r) \/ RefundBase(r)
    BY <1>10, RefundKeepsOK
  <1>11. CASE DatabaseError(r)
    <2>1. UNCHANGED storeVars /\ faults' \in 0..MaxFaults /\ req[r].pc # "free"
      BY <1>1, <1>11 DEF DatabaseError, Fault
    <2>2. req' = [req EXCEPT ![r] =
                    [req[r] EXCEPT !.pc = Caught(r), !.row = Nothing]]
      BY <1>1, <1>11 DEF DatabaseError
    <2> QED BY <1>1, <2>1, <2>2, GotoKeepsOK, StoreUnchanged
  <1>12. CASE RefundError(r)
    <2>1. UNCHANGED storeVars /\ faults' \in 0..MaxFaults /\ req[r].pc # "free"
      BY <1>1, <1>12 DEF RefundError, Fault
    <2>2. PICK pc \in {"failed", "refundBase"} :
            req' = [req EXCEPT ![r] = [req[r] EXCEPT !.pc = pc]]
      BY <1>1, <1>12 DEF RefundError, Goto
    <2> QED BY <2>1, <2>2, GotoKeepsOK, StoreUnchanged
  <1> QED BY <1>2, <1>3, <1>4, <1>5, <1>6, <1>7, <1>8, <1>9, <1>10, <1>11, <1>12
          DEF RequestStep

-----------------------------------------------------------------------------
(* The midnight job and the payments.                                      *)

\* The job between two runs.
LEMMA IdleTypeOK ==
    Idle \in JobRecords
  <1>1. (CHOOSE u \in Users : TRUE) \in Users
    BY UsersAssumption
  <1> QED BY <1>1, ChargesAreAmounts DEF Idle, JobRecords

SchedulerOK == SchedulerTypeOK

\* A step of the job that leaves the tables and the subscriptions alone.
LEMMA JobMovesKeepOK ==
    ASSUME SchedulerOK, StoreOK, UNCHANGED <<storeVars, day, lastReset, subscription, active>>,
           job' \in JobRecords
    PROVE  SchedulerOK' /\ StoreOK'
  <1>1. StoreOK'
    BY StoreUnchanged
  <1> QED BY <1>1 DEF SchedulerOK, SchedulerTypeOK

\* Every step of the midnight job keeps its type and the books.
LEMMA JobStepKeepsOK ==
    ASSUME SchedulerOK, StoreOK, JobStep
    PROVE  SchedulerOK' /\ StoreOK'
  <1>1. /\ job \in JobRecords
        /\ day \in Nat
        /\ lastReset \in [Users -> Nat]
        /\ subscription \in [Users -> Subscriptions]
        /\ active \in [Users -> BOOLEAN]
    BY DEF SchedulerOK, SchedulerTypeOK
  <1>2. /\ hasRow \in [Users -> BOOLEAN]
        /\ balance \in [Users -> Amounts]
    BY DEF StoreOK, StoreTypeOK
  <1>3. /\ job.user \in Users /\ job.today \in Nat /\ job.mark \in Nat
        /\ job.row \in Amounts /\ job.todo \subseteq Users /\ job.batch \in Nat
    BY <1>1 DEF JobRecords
  <1>4. \A v \in Users : subscription[v].periodEnd \in Nat
    BY <1>1 DEF Subscriptions
  <1>5. ASSUME NEW u \in Users, ResetRead(u)
        PROVE  SchedulerOK' /\ StoreOK'
    <2>1. job' \in JobRecords
      BY <1>1, <1>2, <1>3, <1>5 DEF ResetRead, JobRecords
    <2>2. UNCHANGED <<storeVars, day, lastReset, subscription, active>>
      BY <1>5 DEF ResetRead
    <2> QED BY <2>1, <2>2, JobMovesKeepOK
  <1>6. ASSUME NEW u \in Users, RollFind(u)
        PROVE  SchedulerOK' /\ StoreOK'
    <2>1. job' \in JobRecords
      BY <1>1, <1>3, <1>4, <1>6 DEF RollFind, JobRecords
    <2>2. UNCHANGED <<storeVars, day, lastReset, subscription, active>>
      BY <1>6 DEF RollFind
    <2> QED BY <2>1, <2>2, JobMovesKeepOK
  <1>15. CASE RollRead
    <2>1. job' \in JobRecords
      BY <1>1, <1>2, <1>3, <1>15 DEF RollRead, JobRecords
    <2>2. UNCHANGED <<storeVars, day, lastReset, subscription, active>>
      BY <1>15 DEF RollRead
    <2> QED BY <2>1, <2>2, JobMovesKeepOK
  <1>7. NextUser => job' \in JobRecords
    <2>1. Nothing \in Amounts
      BY ChargesAreAmounts
    <2>2. [job EXCEPT !.pc = "resets", !.found = FALSE, !.row = Nothing, !.mark = 0]
             \in JobRecords
      BY <1>1, <2>1 DEF JobRecords
    <2> QED BY <2>2 DEF NextUser
  <1>8. lastReset' = [lastReset EXCEPT ![job.user] = job.today]
          => lastReset' \in [Users -> Nat]
    BY <1>1, <1>3
  <1>9. CASE ResetWrite
    <2>1. job' \in JobRecords /\ UNCHANGED <<hasRow, totalSpent, day, subscription, active>>
      BY <1>7, <1>9 DEF ResetWrite
    <2>2. CASE job.mark = job.today
      <3>1. UNCHANGED <<storeVars, day, lastReset, subscription, active>>
        BY <1>9, <2>2 DEF ResetWrite, storeVars
      <3> QED BY <2>1, <3>1, JobMovesKeepOK
    <2>3. CASE job.mark # job.today
      <3>1. SetPromo(job.user, DailyPromo - job.row.promo)
        BY <1>9, <2>3 DEF ResetWrite
      <3>2. DailyPromo - job.row.promo \in Int
        BY <1>3, SchedulerAssumption DEF Amounts
      <3>3. StoreOK'
        BY <1>3, <2>1, <3>1, <3>2, SetPromoKeepsBooks
      <3>4. lastReset' \in [Users -> Nat]
        BY <1>8, <3>1 DEF SetPromo
      <3> QED BY <1>1, <2>1, <3>3, <3>4 DEF SchedulerOK, SchedulerTypeOK
    <2> QED BY <2>2, <2>3
  <1>10. CASE ResetCreate
    <2>1. Grant(job.user, Only("promo", DailyPromo)) /\ NextUser
          /\ lastReset' = [lastReset EXCEPT ![job.user] = job.today]
          /\ UNCHANGED <<day, subscription, active>>
      BY <1>10 DEF ResetCreate
    <2>2. Only("promo", DailyPromo) \in Amounts
      BY SchedulerAssumption, OnlyIsAmounts
    <2>3. StoreOK'
      BY <1>3, <2>1, <2>2, GrantKeepsBooks
    <2> QED BY <1>1, <1>7, <1>8, <2>1, <2>3 DEF SchedulerOK, SchedulerTypeOK
  <1>11. CASE ResetConflict \/ RollConflict
    <2>1. job' \in JobRecords
      BY <1>11, IdleTypeOK DEF ResetConflict, RollConflict
    <2>2. UNCHANGED <<storeVars, day, lastReset, subscription, active>>
      BY <1>11 DEF ResetConflict, RollConflict
    <2> QED BY <2>1, <2>2, JobMovesKeepOK
  <1>12. CASE ResetsDone \/ BatchDone
    <2>1. job' \in JobRecords
      BY <1>1, <1>12 DEF ResetsDone, BatchDone, JobRecords
    <2>2. UNCHANGED <<storeVars, day, lastReset, subscription, active>>
      BY <1>12 DEF ResetsDone, BatchDone
    <2> QED BY <2>1, <2>2, JobMovesKeepOK
  <1>13. CASE Batch
    <2>1. job' \in JobRecords
      <3>1. {u \in Users : Due(u, day)} \in SUBSET Users
        OBVIOUS
      <3>2. job.batch + 1 \in Nat
        BY <1>3
      <3> QED BY <1>1, <1>13, <3>1, <3>2, IdleTypeOK DEF Batch, JobRecords
    <2>2. UNCHANGED <<storeVars, day, lastReset, subscription, active>>
      BY <1>13 DEF Batch
    <2> QED BY <2>1, <2>2, JobMovesKeepOK
  <1>14. CASE RollWrite
    <2>1. /\ EnsureRow(job.user)
          /\ Empty(job.user, job.row.subscription)
          /\ subscription' =
               [subscription EXCEPT ![job.user].periodEnd = NextPeriodEnd(job.mark)]
          /\ job' = [job EXCEPT !.pc = "rolls", !.found = FALSE,
                                !.row = Nothing, !.mark = 0]
          /\ UNCHANGED <<totalEarned, totalSpent, day, lastReset, active>>
      BY <1>14 DEF RollWrite
    <2>2. job' \in JobRecords
      BY <1>1, <2>1, ChargesAreAmounts DEF JobRecords
    <2>3. NextPeriodEnd(job.mark) \in Nat
      BY <1>3, SchedulerAssumption DEF NextPeriodEnd
    <2>4. subscription' \in [Users -> Subscriptions]
      BY <1>1, <1>3, <2>1, <2>3 DEF Subscriptions
    <2>5. hasRow' \in [Users -> BOOLEAN] /\ job.row.subscription \in Int
      BY <1>2, <1>3, <2>1 DEF EnsureRow, Amounts
    <2>6. StoreOK'
      BY <1>3, <2>1, <2>5, EmptyKeepsBooks
    <2> QED BY <1>1, <2>1, <2>2, <2>4, <2>6 DEF SchedulerOK, SchedulerTypeOK
  <1> QED BY <1>5, <1>6, <1>9, <1>10, <1>11, <1>12, <1>13, <1>14, <1>15 DEF JobStep

-----------------------------------------------------------------------------
(* The inductive invariant of the whole system.                            *)

IInv == StoreOK /\ GatewayOK /\ SchedulerOK /\ grants \in 0..MaxGrants

\* The invariant holds of empty accounts.
LEMMA InitEstablishes == Init => IInv
  <1> SUFFICES ASSUME Init PROVE IInv
    OBVIOUS
  <1> USE DEF Init
  <1>1. (CHOOSE u \in Users : TRUE) \in Users
    BY UsersAssumption
  <1>2. Nothing \in Amounts /\ Nothing \in Charges /\ Total(Nothing) = 0
    BY ChargesAreAmounts, AmountsAlgebra
  <1>3. StoreTypeOK
    BY <1>2 DEF StoreInit, StoreTypeOK
  <1>4. TotalsMatchLedger
    <2> SUFFICES ASSUME NEW u \in Users
                 PROVE  /\ totalEarned[u] = Total(ledger[u]["grant"])
                        /\ totalSpent[u] + Total(ledger[u]["deduct"])
                                         + Total(ledger[u]["refund"]) = 0
      BY DEF TotalsMatchLedger
    <2>1. /\ totalEarned[u] = 0
          /\ totalSpent[u] = 0
          /\ \A t \in {"grant", "deduct", "refund"} : ledger[u][t] = Nothing
      BY DEF StoreInit, TransactionTypes
    <2> QED BY <1>2, <2>1
  <1>5. PaygMatchesLedger
    BY DEF StoreInit, PaygMatchesLedger, LedgerBalance, Plus, Nothing, TransactionTypes
  <1>6. GatewayTypeOK
    BY <1>1, <1>2, GatewayAssumption
       DEF GatewayInit, GatewayTypeOK, RequestRecords, PCs, Stages
  <1>7. CallsOK
    BY DEF GatewayInit, CallsOK, CallOK, PaidStages
  <1>8. SchedulerOK
    BY <1>1, IdleTypeOK DEF SchedulerInit, SchedulerOK, SchedulerTypeOK, Subscriptions
  <1>9. grants \in 0..MaxGrants
    BY SystemAssumption
  <1> QED BY <1>3, <1>4, <1>5, <1>6, <1>7, <1>8, <1>9 DEF IInv, StoreOK, GatewayOK

\* Every step of the system keeps the invariant.
LEMMA NextKeeps == IInv /\ [Next]_vars => IInv'
  <1> SUFFICES ASSUME IInv, [Next]_vars PROVE IInv'
    OBVIOUS
  <1>1. StoreOK /\ GatewayOK /\ SchedulerOK /\ grants \in 0..MaxGrants
    BY DEF IInv
  <1>2. UNCHANGED gatewayVars => GatewayOK'
    BY <1>1 DEF gatewayVars, GatewayOK, GatewayTypeOK, CallsOK
  <1>3. UNCHANGED schedulerVars => SchedulerOK'
    BY <1>1 DEF schedulerVars, SchedulerOK, SchedulerTypeOK
  <1>4. Counted => grants' \in 0..MaxGrants
    BY <1>1, SystemAssumption DEF Counted
  <1>5. Fault => faults' \in 0..MaxFaults
    BY <1>1, GatewayAssumption DEF Fault, GatewayOK, GatewayTypeOK
  <1>6. req' = req /\ faults' \in 0..MaxFaults => GatewayOK'
    BY <1>1 DEF GatewayOK, GatewayTypeOK, CallsOK
  <1>7. CASE GatewayNext({u \in Users : active[u]}) /\ UNCHANGED <<schedulerVars, grants>>
    <2>1. {u \in Users : active[u]} \in SUBSET Users
      OBVIOUS
    <2> QED BY <1>1, <1>3, <1>7, <2>1, GatewayStep DEF IInv
  <1>8. ASSUME NEW u \in Users, NEW pool \in Pools, NEW n \in GrantAmounts,
               AdminGrant(u, pool, n)
        PROVE  IInv'
    <2>1. n \in Int
      BY SystemAssumption
    <2>2. Only(pool, n) \in Amounts /\ Grant(u, Only(pool, n))
      BY <1>8, <2>1, OnlyIsAmounts DEF AdminGrant
    <2>3. StoreOK'
      BY <1>1, <2>2, GrantKeepsBooks
    <2> QED BY <1>2, <1>3, <1>4, <1>8, <2>3 DEF AdminGrant, IInv
  <1>9. ASSUME NEW u \in Users, NEW n \in GrantAmounts, Pay(u, n)
        PROVE  IInv'
    <2>1. n \in Int
      BY SystemAssumption
    <2>2. Only("subscription", n) \in Amounts
      BY <2>1, OnlyIsAmounts
    <2>3. StoreOK'
      BY <1>1, <1>9, <2>2, GrantKeepsBooks, StoreUnchanged DEF Pay, PaySubscription
    <2>4. day + Month \in Nat
      BY <1>1, SchedulerAssumption DEF SchedulerOK, SchedulerTypeOK
    <2>5. SchedulerOK'
      BY <1>1, <1>9, <2>4 DEF Pay, PaySubscription, SchedulerOK, SchedulerTypeOK, Subscriptions
    <2> QED BY <1>2, <1>4, <1>9, <2>3, <2>5 DEF Pay, IInv
  <1>10. ASSUME NEW u \in Users, Cancel(u)
         PROVE  IInv'
    <2>1. StoreOK'
      BY <1>1, <1>10, StoreUnchanged DEF Cancel, CancelSubscription
    <2>2. SchedulerOK'
      BY <1>1, <1>10 DEF Cancel, CancelSubscription, SchedulerOK, SchedulerTypeOK, Subscriptions
    <2> QED BY <1>2, <1>4, <1>10, <2>1, <2>2 DEF Cancel, IInv
  <1>16. ASSUME NEW u \in Users, ChangeStatus(u)
         PROVE  IInv'
    <2>1. StoreOK'
      BY <1>1, <1>16, StoreUnchanged DEF ChangeStatus, SetActive
    <2>2. SchedulerOK'
      BY <1>1, <1>16 DEF ChangeStatus, SetActive, SchedulerOK, SchedulerTypeOK
    <2> QED BY <1>2, <1>4, <1>16, <2>1, <2>2 DEF ChangeStatus, IInv
  <1>11. ASSUME NEW missed \in BOOLEAN, Cron(missed)
         PROVE  IInv'
    <2>1. StoreOK'
      BY <1>1, <1>11, StoreUnchanged DEF Cron, Midnight
    <2>2. day' \in Nat
      BY <1>1, <1>11 DEF Cron, Midnight, SchedulerOK, SchedulerTypeOK
    <2>3. \A users \in SUBSET Users :
            [Idle EXCEPT !.pc = "resets", !.today = day',
                         !.listed = users, !.todo = users] \in JobRecords
      BY <2>2, IdleTypeOK DEF JobRecords
    <2>4. {u \in Users : active[u]} \in SUBSET Users
      OBVIOUS
    <2>5. job' \in JobRecords
      BY <1>1, <1>11, <2>3, <2>4 DEF Cron, Midnight, SchedulerOK, SchedulerTypeOK
    <2>6. SchedulerOK'
      BY <1>1, <1>11, <2>2, <2>5 DEF Cron, Midnight, SchedulerOK, SchedulerTypeOK
    <2>7. GatewayOK'
      <3>1. faults' \in 0..MaxFaults
        BY <1>1, <1>5, <1>11 DEF Cron, GatewayOK, GatewayTypeOK
      <3> QED BY <1>6, <1>11, <3>1 DEF Cron
    <2> QED BY <1>1, <1>11, <2>1, <2>6, <2>7 DEF Cron, IInv
  <1>12. CASE Job
    BY <1>1, <1>2, <1>12, JobStepKeepsOK DEF Job, IInv
  <1>13. CASE JobFails
    <2>1. SchedulerOK' /\ StoreOK'
      BY <1>1, <1>13, IdleTypeOK, JobMovesKeepOK DEF JobFails, JobError
    <2> QED BY <1>1, <1>5, <1>6, <1>13, <2>1 DEF JobFails, IInv
  <1>14. CASE Crash
    <2>1. SchedulerOK' /\ StoreOK'
      BY <1>1, <1>14, IdleTypeOK, JobMovesKeepOK DEF Crash
    <2>2. faults' \in 0..MaxFaults
      BY <1>5, <1>14 DEF Crash
    <2>3. \A r \in Requests :
            req[r] \in RequestRecords /\ CallOK(req[r])
      BY <1>1 DEF GatewayOK, GatewayTypeOK, CallsOK
    <2>4. ASSUME NEW r \in Requests, InFlight(r)
          PROVE  /\ [req[r] EXCEPT !.pc = "lost", !.row = Nothing] \in RequestRecords
                 /\ CallOK([req[r] EXCEPT !.pc = "lost", !.row = Nothing])
      <3> DEFINE new == [req[r] EXCEPT !.pc = "lost", !.row = Nothing]
      <3>1. new \in RequestRecords
        BY <2>3, ChargesAreAmounts DEF RequestRecords, PCs
      <3>2. /\ new.pc = "lost"
            /\ new.stage = req[r].stage
            /\ new.prices = req[r].prices
            /\ new.kind = req[r].kind
        BY <2>3 DEF RequestRecords
      <3>3. req[r].pc # "free"
        BY <2>4 DEF InFlight
      <3> HIDE DEF new
      <3>4. CallOK(new)
        BY <2>3, <3>2, <3>3 DEF CallOK, PaidStages
      <3> QED BY <3>1, <3>4 DEF new
    <2>5. req' = [r \in Requests |->
                    IF InFlight(r) THEN [req[r] EXCEPT !.pc = "lost", !.row = Nothing]
                    ELSE req[r]]
      BY <1>14 DEF Crash
    <2>6. \A r \in Requests : req'[r] \in RequestRecords /\ CallOK(req'[r])
      BY <2>3, <2>4, <2>5
    <2>7. GatewayOK'
      BY <2>2, <2>5, <2>6 DEF GatewayOK, GatewayTypeOK, CallsOK
    <2> QED BY <1>1, <1>14, <2>1, <2>7 DEF Crash, IInv
  <1>15. CASE UNCHANGED vars
    BY <1>1, <1>2, <1>3, <1>15, StoreUnchanged DEF vars, IInv
  <1> QED BY <1>7, <1>8, <1>9, <1>10, <1>11, <1>12, <1>13, <1>14, <1>15, <1>16
          DEF Next

\* The inductive invariant holds of every reachable state.
THEOREM InvariantHolds == Spec => []IInv
  BY InitEstablishes, NextKeeps, PTL DEF Spec

\* The tables, the calls, the subscriptions and the job only ever hold the
\* values CreditAccount, CreditTransaction, Subscription and the local
\* variables of the handlers can have.
THEOREM TypeCorrect == Spec => []TypeOK
  <1>1. IInv => TypeOK
    BY DEF IInv, StoreOK, GatewayOK, SchedulerOK, TypeOK
  <1> QED BY <1>1, InvariantHolds, PTL

\* totalEarned and totalSpent agree with the transaction rows, for any number
\* of accounts and of calls that race each other and the job.
THEOREM TotalsAgree == Spec => []TotalsMatchLedger
  <1>1. IInv => TotalsMatchLedger
    BY DEF IInv, StoreOK
  <1> QED BY <1>1, InvariantHolds, PTL

\* The payg pool agrees with the transaction rows.
THEOREM PaygAgrees == Spec => []PaygMatchesLedger
  <1>1. IInv => PaygMatchesLedger
    BY DEF IInv, StoreOK
  <1> QED BY <1>1, InvariantHolds, PTL

\* Both together: every column an account shows is explained by its rows.
THEOREM AccountsAgree == Spec => []AccountsMatchLedger
  BY TotalsAgree, PaygAgrees, PTL DEF AccountsMatchLedger

\* A call that succeeded paid each of its stages in full: the cut of a row
\* that covers the price never falls short, whatever the signs of the pools.
THEOREM PaidInFull == Spec => []SuccessIsPaidInFull
  <1>1. ASSUME IInv, NEW r \in Requests, req[r].pc = "ok",
               NEW k \in 1..Len(req[r].prices)
        PROVE  Total(req[r].held[k]) = req[r].prices[k]
    <2>1. CallOK(req[r])
      BY <1>1 DEF IInv, GatewayOK, CallsOK
    <2>2. req[r].stage = Len(req[r].prices)
      BY <1>1, <2>1 DEF CallOK
    <2>3. k \in PaidStages(req[r])
      BY <1>1, <2>2 DEF PaidStages
    <2> QED BY <2>1, <2>3 DEF CallOK
  <1>2. IInv => SuccessIsPaidInFull
    BY <1>1 DEF SuccessIsPaidInFull
  <1> QED BY <1>2, InvariantHolds, PTL

-----------------------------------------------------------------------------
(* How a pool can fall below zero.                                         *)

\* Adding a charge to a balance lowers no pool.
LEMMA AdditionLowersNothing ==
    ASSUME StoreTypeOK, NEW u \in Users, NEW amounts \in Charges,
           balance' = [balance EXCEPT ![u] = Plus(@, amounts)]
    PROVE  \A v \in Users, pool \in Pools :
             balance[v][pool] >= 0 => balance'[v][pool] >= 0
  <1> SUFFICES ASSUME NEW v \in Users, NEW pool \in Pools, balance[v][pool] >= 0
               PROVE  balance'[v][pool] >= 0
    OBVIOUS
  <1>1. balance[v] \in Amounts
    BY DEF StoreTypeOK
  <1>2. balance'[v] = IF v = u THEN Plus(balance[v], amounts) ELSE balance[v]
    BY DEF StoreTypeOK
  <1>3. amounts[pool] \in Nat /\ balance[v][pool] \in Int
    BY <1>1 DEF Charges, Amounts, Pools
  <1>4. Plus(balance[v], amounts)[pool] = balance[v][pool] + amounts[pool]
    BY DEF Plus, Pools
  <1> QED BY <1>2, <1>3, <1>4

\* A non-negative amount in one pool only is a charge.
LEMMA OnlyIsCharges ==
    ASSUME NEW pool, NEW n \in Nat
    PROVE  Only(pool, n) \in Charges
  BY DEF Only, Charges

\* The job sets a pool to the daily target or to zero.
LEMMA JobOverdrawsNothing ==
    ASSUME IInv, JobStep, NEW u \in Users, NEW pool \in Pools, balance[u][pool] >= 0
    PROVE  balance'[u][pool] >= 0
  <1>1. /\ StoreTypeOK
        /\ balance \in [Users -> Amounts]
        /\ job.user \in Users
        /\ DailyPromo \in Nat
    BY SchedulerAssumption
       DEF IInv, StoreOK, StoreTypeOK, SchedulerOK, SchedulerTypeOK, JobRecords
  <1>2. balance' = balance => balance'[u][pool] >= 0
    OBVIOUS
  <1>3. ASSUME NEW v \in Users, NEW n \in Nat,
               \/ balance' = [balance EXCEPT ![v].promo = n]
               \/ balance' = [balance EXCEPT ![v].subscription = n]
        PROVE  balance'[u][pool] >= 0
    BY <1>1, <1>3 DEF Amounts, Pools
  <1>4. CASE ResetWrite
    BY <1>1, <1>2, <1>3, <1>4 DEF ResetWrite, SetPromo
  <1>5. CASE ResetCreate
    <2>1. Only("promo", DailyPromo) \in Charges
      BY <1>1, OnlyIsCharges
    <2>2. balance' = [balance EXCEPT ![job.user] = Plus(@, Only("promo", DailyPromo))]
      BY <1>5 DEF ResetCreate, Grant
    <2> QED BY <1>1, <2>1, <2>2, AdditionLowersNothing
  <1>6. CASE RollWrite
    BY <1>1, <1>2, <1>3, <1>6 DEF RollWrite, Empty
  <1>7. CASE \/ \E v \in Users : ResetRead(v) \/ RollFind(v)
             \/ ResetConflict \/ ResetsDone \/ Batch \/ BatchDone
             \/ RollRead \/ RollConflict
    BY <1>2, <1>7 DEF ResetRead, RollFind, RollRead, ResetConflict, ResetsDone,
                      Batch, BatchDone, RollConflict, storeVars
  <1> QED BY <1>4, <1>5, <1>6, <1>7 DEF JobStep

\* A deduction does, but only when the row it was cut from is out of date.
LEMMA GatewayOverdraftIsStale ==
    ASSUME IInv, NEW callers, GatewayNext(callers), NEW u \in Users, NEW pool \in Pools,
           balance[u][pool] >= 0, balance'[u][pool] < 0
    PROVE  \E r \in Requests : /\ req[r].pc = "debit"
                               /\ req[r].user = u
                               /\ req[r].row # balance[u]
  <1>1. StoreTypeOK /\ GatewayOK /\ balance \in [Users -> Amounts]
    BY DEF IInv, StoreOK, StoreTypeOK
  <1>2. balance[u] \in Amounts /\ balance[u][pool] \in Int
    BY <1>1 DEF Amounts, Pools
  <1>3. balance' # balance
    BY <1>2
  <1>4. PICK r \in Requests : Debit(r) \/ RefundStage(r) \/ RefundBase(r)
    BY <1>3 DEF GatewayNext, RequestStep, Arrive, ArriveAdmin, ReadAccount,
                ReadNoAccount, CreateAccount, UpstreamOk, UpstreamFail,
                DatabaseError, RefundError, storeVars
  <1>5. /\ req[r].user \in Users
        /\ req[r].row \in Amounts
        /\ req[r].stage \in Stages
        /\ \A k \in Stages : req[r].held[k] \in Charges
    BY <1>1 DEF GatewayOK, GatewayTypeOK, RequestRecords
  <1>6. ASSUME NEW k \in Stages, Refund(req[r].user, req[r].held[k])
        PROVE  FALSE
    <2>1. balance'[u][pool] >= 0
      BY <1>1, <1>5, <1>6, AdditionLowersNothing DEF Refund
    <2>2. balance'[u][pool] \in Int
      BY <1>1, <1>2, <1>5, <1>6, ChargesAreAmounts
         DEF Refund, Plus, Amounts, Pools
    <2> QED BY <2>1, <2>2
  <1>7. 1 \in Stages
    BY DEF Stages
  <1>8. Debit(r)
    BY <1>4, <1>5, <1>6, <1>7 DEF RefundStage, RefundBase
  <1> DEFINE cut == Split(req[r].row, Price(r))
  <1>9. /\ req[r].pc = "debit"
        /\ balance' = [balance EXCEPT ![req[r].user] = Minus(@, cut)]
    BY <1>8 DEF Debit, Deduct
  <1>10. req[r].user = u
    BY <1>1, <1>2, <1>5, <1>9
  <1>11. Price(r) \in Nat
    BY <1>1, <1>9, CallPrices
  <1>12. ASSUME req[r].row = balance[u]
         PROVE  FALSE
    <2>1. cut[pool] <= (IF balance[u][pool] > 0 THEN balance[u][pool] ELSE 0)
      BY <1>2, <1>11, <1>12, SplitWithin
    <2>2. cut \in Charges
      BY <1>5, <1>11, SplitCovers
    <2>3. cut[pool] \in Nat
      BY <2>2 DEF Charges, Pools
    <2> HIDE DEF cut
    <2>4. balance'[u][pool] = balance[u][pool] - cut[pool]
      BY <1>1, <1>9, <1>10 DEF Minus, Pools
    <2> QED BY <1>2, <2>1, <2>3, <2>4
  <1> QED BY <1>9, <1>10, <1>12

\* No pool falls below zero unless a deduction was cut from an outdated row:
\* two calls at once are the only way to overdraw an account.
THEOREM OverdraftOnlyFromStaleRow == Spec => OverdraftNeedsStaleRow
  <1>1. ASSUME IInv, Next, NEW u \in Users, NEW pool \in Pools,
               balance[u][pool] >= 0, balance'[u][pool] < 0
        PROVE  \E r \in Requests : /\ req[r].pc = "debit"
                                   /\ req[r].user = u
                                   /\ req[r].row # balance[u]
    <2>1. StoreTypeOK /\ balance[u][pool] \in Int
      BY <1>1 DEF IInv, StoreOK, StoreTypeOK, Amounts, Pools
    <2>2. GatewayNext({v \in Users : active[v]}) =>
            \E r \in Requests : /\ req[r].pc = "debit"
                                /\ req[r].user = u
                                /\ req[r].row # balance[u]
      BY <1>1, GatewayOverdraftIsStale
    <2>3. ~JobStep
      <3>1. SUFFICES ASSUME JobStep PROVE FALSE
        OBVIOUS
      <3>2. balance'[u][pool] >= 0
        BY <1>1, <3>1, JobOverdrawsNothing
      <3>3. balance'[u][pool] \in Int
        <4>1. StoreOK'
          BY <1>1, <3>1, JobStepKeepsOK DEF IInv
        <4> QED BY <4>1 DEF StoreOK, StoreTypeOK, Amounts, Pools
      <3> QED BY <1>1, <3>2, <3>3
    <2>4. ASSUME NEW v \in Users, NEW p \in Pools, NEW n \in GrantAmounts,
                 Grant(v, Only(p, n))
          PROVE  FALSE
      <3>1. n \in Nat /\ Only(p, n) \in Charges /\ Only(p, n) \in Amounts
        BY SystemAssumption, OnlyIsCharges, ChargesAreAmounts
      <3>2. balance'[u][pool] >= 0
        BY <1>1, <2>1, <2>4, <3>1, AdditionLowersNothing DEF Grant
      <3>3. StoreOK'
        BY <1>1, <2>4, <3>1, GrantKeepsBooks DEF IInv
      <3>4. balance'[u][pool] \in Int
        BY <3>3 DEF StoreOK, StoreTypeOK, Amounts, Pools
      <3> QED BY <1>1, <3>2, <3>4
    <2>5. balance' # balance
      BY <1>1, <2>1
    <2>6. "subscription" \in Pools
      BY DEF Pools
    <2> QED BY <1>1, <2>2, <2>3, <2>4, <2>5, <2>6
            DEF Next, AdminGrant, Pay, PaySubscription, Cancel, CancelSubscription,
                ChangeStatus, SetActive, Cron, Midnight, Job, JobFails, JobError, Crash, storeVars
  <1>2. IInv /\ [Next]_vars => [OverdraftIsStale]_vars
    BY <1>1 DEF OverdraftIsStale
  <1> QED BY <1>2, InvariantHolds, PTL DEF Spec, OverdraftNeedsStaleRow

-----------------------------------------------------------------------------
(* What calls hold.                                                        *)

\* Holdings depend on the place, the stage and the charges of a call only,
\* and a step of one call leaves the others as they were.
LEMMA OtherCallsKeepHoldings ==
    ASSUME GatewayOK, HoldingsOK, NEW r \in Requests, NEW new,
           req' = [req EXCEPT ![r] = new], faults' >= faults,
           HoldsOK(new), faults' = 0 => CaughtOK(new)
    PROVE  HoldingsOK'
  <1>1. \A q \in Requests : req'[q] = IF q = r THEN new ELSE req[q]
    BY DEF GatewayOK, GatewayTypeOK
  <1>2. faults' = 0 => faults = 0
    <2>1. faults \in Nat
      BY DEF GatewayOK, GatewayTypeOK
    <2> QED BY <2>1
  <1> QED BY <1>1, <1>2 DEF HoldingsOK

\* A step that moves a call to another place keeps what is known of it.
LEMMA MovingKeepsHoldings ==
    ASSUME GatewayOK, HoldingsOK, NEW r \in Requests, NEW pc, NEW new,
           req' = [req EXCEPT ![r] = new], faults' >= faults,
           new.pc = pc, new.stage = req[r].stage, new.held = req[r].held,
           \/ pc \in {"read", "create", "debit"}
              /\ req[r].pc \in {"free", "read", "create"}
           \/ pc = "refund" /\ req[r].pc = "upstream"
           \/ pc \in {"ok", "lost"}
           \/ pc = Caught(r) /\ req[r].pc \in {"read", "create", "debit"}
           \/ faults' # 0 /\ pc \in {"failed", "refundBase"}
    PROVE  HoldingsOK'
  <1>1. HoldsOK(req[r])
    BY DEF HoldingsOK
  <1>2. HoldsOK(new)
    BY <1>1 DEF HoldsOK, Caught
  <1>3. ASSUME pc = Caught(r), req[r].pc \in {"read", "create", "debit"}
        PROVE  CaughtOK(new)
    <2>1. req[r].stage \in 1..3
      BY DEF GatewayOK, GatewayTypeOK, RequestRecords, Stages
    <2>2. \A k \in req[r].stage..3 : req[r].held[k] = Nothing
      BY <1>1, <1>3 DEF HoldsOK
    <2> QED BY <1>3, <2>1, <2>2 DEF CaughtOK, Caught, Stages
  <1>4. faults' = 0 => CaughtOK(new)
    BY <1>3 DEF CaughtOK
  <1> QED BY <1>2, <1>4, OtherCallsKeepHoldings

\* Every step of a call keeps what is known of its charges.
LEMMA GatewayKeepsHoldings ==
    ASSUME GatewayOK, StoreOK, HoldingsOK, NEW callers \in SUBSET Users, GatewayNext(callers)
    PROVE  HoldingsOK'
  <1>0. PICK r \in Requests :
          \/ \E u \in Users, prices \in Plans : Arrive(r, u, prices)
          \/ \E u \in Users, n \in AdminAmounts : ArriveAdmin(r, u, n)
          \/ RequestStep(r)
          \/ DatabaseError(r) \/ RefundError(r)
    BY DEF GatewayNext
  <1>1. /\ req \in [Requests -> RequestRecords]
        /\ req[r] \in RequestRecords
        /\ faults \in Nat
        /\ req[r].stage \in 1..3
        /\ req[r].held \in [1..3 -> Charges]
    BY DEF GatewayOK, GatewayTypeOK, RequestRecords, Stages
  <1>2. HoldsOK(req[r]) /\ (faults = 0 => CaughtOK(req[r]))
    BY DEF HoldingsOK
  <1>3. ASSUME NEW pc, req' = [req EXCEPT ![r] = [req[r] EXCEPT !.pc = pc]]
        PROVE  \E new : /\ req' = [req EXCEPT ![r] = new]
                        /\ new.pc = pc
                        /\ new.stage = req[r].stage
                        /\ new.held = req[r].held
    <2>1. /\ [req[r] EXCEPT !.pc = pc].pc = pc
          /\ [req[r] EXCEPT !.pc = pc].stage = req[r].stage
          /\ [req[r] EXCEPT !.pc = pc].held = req[r].held
      BY <1>1 DEF RequestRecords
    <2> QED BY <1>3, <2>1
  <1>4. ASSUME NEW u \in Users, NEW prices \in Plans, Arrive(r, u, prices)
        PROVE  HoldingsOK'
    <2> DEFINE new == [req[r] EXCEPT !.pc = "read", !.user = u, !.prices = prices]
    <2>1. req' = [req EXCEPT ![r] = new] /\ req[r].pc = "free" /\ faults' >= faults
      BY <1>1, <1>4 DEF Arrive
    <2>2. new.pc = "read" /\ new.stage = req[r].stage /\ new.held = req[r].held
      BY <1>1 DEF RequestRecords
    <2> HIDE DEF new
    <2> QED BY <2>1, <2>2, MovingKeepsHoldings
  <1>5. ASSUME NEW u \in Users, NEW n \in AdminAmounts, ArriveAdmin(r, u, n)
        PROVE  HoldingsOK'
    <2> DEFINE new == [req[r] EXCEPT !.pc = "read", !.kind = "admin",
                                     !.user = u, !.prices = <<n>>]
    <2>1. req' = [req EXCEPT ![r] = new] /\ req[r].pc = "free" /\ faults' >= faults
      BY <1>1, <1>5 DEF ArriveAdmin
    <2>2. new.pc = "read" /\ new.stage = req[r].stage /\ new.held = req[r].held
      BY <1>1 DEF RequestRecords
    <2> HIDE DEF new
    <2> QED BY <2>1, <2>2, MovingKeepsHoldings
  <1>6. CASE ReadAccount(r)
    <2> DEFINE new == [req[r] EXCEPT !.pc = "debit", !.row = balance[req[r].user]]
    <2>1. req[r].pc = "read" /\ faults' >= faults
      BY <1>1, <1>6 DEF ReadAccount
    <2>2. CASE req' = [req EXCEPT ![r] = [req[r] EXCEPT !.pc = Caught(r)]]
      BY <1>3, <2>1, <2>2, MovingKeepsHoldings
    <2>3. CASE req' = [req EXCEPT ![r] = new]
      <3>1. new.pc = "debit" /\ new.stage = req[r].stage /\ new.held = req[r].held
        BY <1>1 DEF RequestRecords
      <3> HIDE DEF new
      <3> QED BY <2>1, <2>3, <3>1, MovingKeepsHoldings
    <2> QED BY <1>1, <1>6, <2>2, <2>3 DEF ReadAccount, Goto
  <1>7. CASE ReadNoAccount(r)
    <2>1. /\ req' = [req EXCEPT ![r] = [req[r] EXCEPT !.pc = "create"]]
          /\ req[r].pc = "read" /\ faults' >= faults
      BY <1>1, <1>7 DEF ReadNoAccount, Goto
    <2> QED BY <1>3, <2>1, MovingKeepsHoldings
  <1>8. CASE CreateAccount(r)
    <2>1. /\ req' = [req EXCEPT ![r] = [req[r] EXCEPT !.pc = Caught(r)]]
          /\ req[r].pc = "create" /\ faults' >= faults
      BY <1>1, <1>8 DEF CreateAccount, Goto
    <2>2. PICK new : /\ req' = [req EXCEPT ![r] = new]
                     /\ new.pc = Caught(r)
                     /\ new.stage = req[r].stage
                     /\ new.held = req[r].held
      BY <1>3, <2>1
    <2> QED BY <2>1, <2>2, MovingKeepsHoldings
  <1>9. CASE Debit(r)
    <2> DEFINE k    == req[r].stage
               cut  == Split(req[r].row, Price(r))
               held == [req[r].held EXCEPT ![k] = cut]
               new  == [req[r] EXCEPT !.pc = IF req[r].kind = "admin" THEN "ok"
                                             ELSE "upstream",
                                      !.row = Nothing, !.held = held]
    <2>1. /\ req' = [req EXCEPT ![r] = new]
          /\ req[r].pc = "debit" /\ faults' >= faults
      BY <1>1, <1>9 DEF Debit
    <2>2. new.pc \in {"ok", "upstream"} /\ new.stage = k /\ new.held = held
      BY <1>1 DEF RequestRecords
    <2>3. \A j \in (k + 1)..3 : held[j] = Nothing
      BY <1>1, <1>2, <2>1 DEF HoldsOK
    <2> HIDE DEF new, held
    <2>4. HoldsOK(new) /\ CaughtOK(new)
      BY <2>2, <2>3 DEF HoldsOK, CaughtOK
    <2> QED BY <2>1, <2>4, OtherCallsKeepHoldings
  <1>10. CASE UpstreamOk(r)
    <2> DEFINE next == [req[r] EXCEPT !.pc = "read", !.stage = req[r].stage + 1]
    <2>1. req[r].pc = "upstream" /\ faults' >= faults
      BY <1>1, <1>10 DEF UpstreamOk
    <2>2. CASE req' = [req EXCEPT ![r] = next]
      <3>1. /\ next.pc = "read" /\ next.stage = req[r].stage + 1
            /\ next.held = req[r].held
        BY <1>1 DEF RequestRecords
      <3> HIDE DEF next
      <3>2. HoldsOK(next) /\ CaughtOK(next)
        BY <1>2, <2>1, <3>1 DEF HoldsOK, CaughtOK
      <3> QED BY <2>1, <2>2, <3>2, OtherCallsKeepHoldings
    <2>3. CASE req' = [req EXCEPT ![r] = [req[r] EXCEPT !.pc = "ok"]]
      <3>1. PICK new : /\ req' = [req EXCEPT ![r] = new]
                       /\ new.pc = "ok"
                       /\ new.stage = req[r].stage
                       /\ new.held = req[r].held
        BY <1>3, <2>3
      <3> QED BY <2>1, <3>1, MovingKeepsHoldings
    <2> QED BY <1>1, <1>10, <2>2, <2>3 DEF UpstreamOk, Goto
  <1>11. CASE UpstreamFail(r)
    <2>1. /\ req' = [req EXCEPT ![r] = [req[r] EXCEPT !.pc = "refund"]]
          /\ req[r].pc = "upstream" /\ faults' >= faults
      BY <1>1, <1>11 DEF UpstreamFail, Goto
    <2>2. PICK new : /\ req' = [req EXCEPT ![r] = new]
                     /\ new.pc = "refund"
                     /\ new.stage = req[r].stage
                     /\ new.held = req[r].held
      BY <1>3, <2>1
    <2> QED BY <2>1, <2>2, MovingKeepsHoldings
  <1>12. CASE RefundStage(r)
    <2> DEFINE k    == req[r].stage
               held == [req[r].held EXCEPT ![k] = Nothing]
               new  == [req[r] EXCEPT !.pc = Caught(r), !.held = held]
    <2>1. /\ req' = [req EXCEPT ![r] = new]
          /\ req[r].pc = "refund" /\ faults' >= faults
      BY <1>1, <1>12 DEF RefundStage
    <2>2. new.pc = Caught(r) /\ new.stage = k /\ new.held = held
      BY <1>1 DEF RequestRecords
    <2>3. \A j \in k..3 : held[j] = Nothing
      BY <1>1, <1>2, <2>1 DEF HoldsOK
    <2> HIDE DEF new, held
    <2>4. HoldsOK(new)
      BY <2>2 DEF HoldsOK, Caught
    <2>5. CaughtOK(new)
      BY <1>1, <2>2, <2>3 DEF CaughtOK, Caught, Stages
    <2> QED BY <2>1, <2>4, <2>5, OtherCallsKeepHoldings
  <1>13. CASE RefundBase(r)
    <2> DEFINE held == [req[r].held EXCEPT ![1] = Nothing]
               new  == [req[r] EXCEPT !.pc = "failed", !.held = held]
    <2>1. /\ req' = [req EXCEPT ![r] = new]
          /\ req[r].pc = "refundBase" /\ faults' >= faults
      BY <1>1, <1>13 DEF RefundBase
    <2>2. new.pc = "failed" /\ new.stage = req[r].stage /\ new.held = held
      BY <1>1 DEF RequestRecords
    <2>3. ASSUME faults = 0
          PROVE  \A k \in 1..3 : held[k] # Nothing => k = 2 /\ req[r].stage = 3
      <3>1. \A k \in req[r].stage..3 : req[r].held[k] = Nothing
        BY <1>2, <2>1, <2>3 DEF CaughtOK
      <3> QED BY <1>1, <3>1
    <2> HIDE DEF new, held
    <2>4. HoldsOK(new) /\ (faults = 0 => CaughtOK(new))
      BY <2>2, <2>3 DEF HoldsOK, CaughtOK, Stages
    <2>5. faults' = 0 => faults = 0
      BY <1>1, <2>1
    <2> QED BY <2>1, <2>4, <2>5, OtherCallsKeepHoldings
  <1>14. CASE DatabaseError(r)
    <2> DEFINE new == [req[r] EXCEPT !.pc = Caught(r), !.row = Nothing]
    <2>1. /\ req' = [req EXCEPT ![r] = new]
          /\ req[r].pc \in {"read", "create", "debit"} /\ faults' >= faults
      BY <1>1, <1>14 DEF DatabaseError, Fault
    <2>2. new.pc = Caught(r) /\ new.stage = req[r].stage /\ new.held = req[r].held
      BY <1>1 DEF RequestRecords
    <2> HIDE DEF new
    <2> QED BY <2>1, <2>2, MovingKeepsHoldings
  <1>15. CASE RefundError(r)
    <2>1. PICK pc \in {"failed", "refundBase"} :
            req' = [req EXCEPT ![r] = [req[r] EXCEPT !.pc = pc]]
      BY <1>1, <1>15 DEF RefundError, Goto, Caught
    <2>2. faults' >= faults /\ faults' # 0
      BY <1>1, <1>15 DEF RefundError, Fault
    <2> QED BY <1>3, <2>1, <2>2, MovingKeepsHoldings
  <1> QED BY <1>0, <1>4, <1>5, <1>6, <1>7, <1>8, <1>9, <1>10, <1>11, <1>12, <1>13, <1>14, <1>15
          DEF RequestStep

\* Every step of the system does: the job and the accounts' other writers do
\* not touch the calls, and a crash loses those in flight.
LEMMA NextKeepsHoldings ==
    ASSUME IInv, HoldingsOK, [Next]_vars
    PROVE  HoldingsOK'
  <1>1. GatewayOK /\ StoreOK /\ faults \in Nat
    BY DEF IInv, GatewayOK, GatewayTypeOK
  <1>2. ASSUME req' = req, faults' >= faults
        PROVE  HoldingsOK'
    BY <1>1, <1>2 DEF HoldingsOK
  <1>3. CASE GatewayNext({u \in Users : active[u]})
    <2>1. {u \in Users : active[u]} \in SUBSET Users
      OBVIOUS
    <2> QED BY <1>1, <1>3, <2>1, GatewayKeepsHoldings
  <1>4. CASE Crash
    <2>1. req \in [Requests -> RequestRecords]
      BY <1>1 DEF GatewayOK, GatewayTypeOK
    <2>2. ASSUME NEW r \in Requests
          PROVE  HoldsOK(req'[r])
      <3> DEFINE new == [req[r] EXCEPT !.pc = "lost", !.row = Nothing]
      <3>1. new.pc = "lost"
        BY <2>1 DEF RequestRecords
      <3>2. req' = [q \in Requests |->
                      IF InFlight(q) THEN [req[q] EXCEPT !.pc = "lost", !.row = Nothing]
                      ELSE req[q]]
        BY <1>4 DEF Crash
      <3>3. req'[r] = new \/ req'[r] = req[r]
        BY <3>2
      <3> HIDE DEF new
      <3> QED BY <3>1, <3>3 DEF HoldsOK, HoldingsOK
    <2>3. faults' # 0
      <3>1. Fault
        BY <1>4 DEF Crash
      <3> QED BY <1>1, <3>1 DEF Fault
    <2> QED BY <2>2, <2>3 DEF HoldingsOK
  <1>5. CASE \E missed \in BOOLEAN : Cron(missed)
    BY <1>1, <1>2, <1>5 DEF Cron, Fault
  <1>6. CASE JobFails
    BY <1>1, <1>2, <1>6 DEF JobFails, Fault
  <1>7. CASE UNCHANGED gatewayVars
    BY <1>1, <1>2, <1>7 DEF gatewayVars
  <1> QED BY <1>3, <1>4, <1>5, <1>6, <1>7
          DEF Next, AdminGrant, Pay, Cancel, ChangeStatus, Job, vars

-----------------------------------------------------------------------------
(* The resets of a run.                                                    *)

\* A user that has had its reset keeps it until the run's loop is over.
LEMMA JobKeepsResets ==
    ASSUME SchedulerTypeOK, ResetsOK, JobStep
    PROVE  ResetsOK'
  <1>1. /\ job \in JobRecords
        /\ lastReset \in [Users -> Nat]
        /\ job.user \in Users
        /\ job.listed \subseteq Users
        /\ job.batch \in Nat
    BY DEF SchedulerTypeOK, JobRecords
  <1>2. ASSUME NEW u \in Users, ResetRead(u)
        PROVE  ResetsOK'
    <2>1. /\ job'.pc = "reset" /\ job'.user = u /\ job'.todo = job.todo \ {u}
          /\ job'.mark = lastReset[u] /\ job'.listed = job.listed
          /\ job'.today = job.today
          /\ lastReset' = lastReset
          /\ job.pc = "resets"
      BY <1>1, <1>2 DEF ResetRead, JobRecords
    <2> QED BY <2>1 DEF ResetsOK, RunResetsEveryone
  <1>3. ASSUME NEW u \in Users, RollFind(u)
        PROVE  ResetsOK'
    <2>1. job'.pc \in {"rolls", "found"} /\ job'.batch = job.batch /\ job.pc = "rolls"
      BY <1>1, <1>3 DEF RollFind, JobRecords
    <2> QED BY <2>1 DEF ResetsOK, RunResetsEveryone
  <1>10. CASE RollRead
    <2>1. job'.pc = "roll" /\ job'.batch = job.batch /\ job.pc = "found"
      BY <1>1, <1>10 DEF RollRead, JobRecords
    <2> QED BY <2>1 DEF ResetsOK, RunResetsEveryone
  <1>4. CASE ResetWrite \/ ResetCreate
    <2>1. /\ job'.pc = "resets" /\ job'.listed = job.listed /\ job'.todo = job.todo
          /\ job'.today = job.today
          /\ job.pc = "reset"
      BY <1>1, <1>4 DEF ResetWrite, ResetCreate, NextUser, JobRecords
    <2>2. \/ lastReset' = [lastReset EXCEPT ![job.user] = job.today]
          \/ (lastReset' = lastReset /\ job.mark = job.today)
      BY <1>4 DEF ResetWrite, ResetCreate, SetPromo
    <2>3. job.mark = lastReset[job.user]
      BY <2>1 DEF ResetsOK
    <2>4. \A u \in job.listed \ (job.todo \cup {job.user}) : lastReset[u] = job.today
      BY <2>1 DEF ResetsOK
    <2>5. \A u \in job.listed \ job.todo : lastReset'[u] = job.today
      BY <1>1, <2>2, <2>3, <2>4
    <2> QED BY <2>1, <2>5 DEF ResetsOK, RunResetsEveryone
  <1>5. CASE ResetsDone
    <2>1. /\ job'.pc = "batch" /\ job'.listed = job.listed
          /\ job'.today = job.today
          /\ lastReset' = lastReset
          /\ job.pc = "resets" /\ job.todo = {}
      BY <1>1, <1>5 DEF ResetsDone, JobRecords
    <2> QED BY <2>1 DEF ResetsOK, RunResetsEveryone
  <1>6. CASE ResetConflict \/ RollConflict
    <2>1. job'.pc = "idle"
      BY <1>6 DEF ResetConflict, RollConflict, Idle
    <2> QED BY <2>1 DEF ResetsOK, RunResetsEveryone
  <1>7. CASE Batch
    <2>1. job'.pc = "idle" \/ (job'.pc = "rolls" /\ job'.batch = job.batch + 1)
      BY <1>1, <1>7 DEF Batch, Idle, JobRecords
    <2> QED BY <1>1, <2>1 DEF ResetsOK, RunResetsEveryone
  <1>8. CASE BatchDone
    <2>1. job'.pc = "batch" /\ job'.batch = job.batch /\ job.pc = "rolls"
      BY <1>1, <1>8 DEF BatchDone, JobRecords
    <2> QED BY <1>1, <2>1 DEF ResetsOK, RunResetsEveryone
  <1>9. CASE RollWrite
    <2>1. job'.pc = "rolls" /\ job'.batch = job.batch /\ job.pc = "roll"
      BY <1>1, <1>9 DEF RollWrite, JobRecords
    <2> QED BY <2>1 DEF ResetsOK, RunResetsEveryone
  <1> QED BY <1>2, <1>3, <1>4, <1>5, <1>6, <1>7, <1>8, <1>9, <1>10 DEF JobStep

\* Nobody else writes the dates; a run begins with all its users to do, and
\* ends wherever it fails.
LEMMA NextKeepsResets ==
    ASSUME IInv, ResetsOK, [Next]_vars
    PROVE  ResetsOK'
  <1>1. SchedulerTypeOK
    BY DEF IInv, SchedulerOK
  <1>2. ASSUME job' = job, lastReset' = lastReset
        PROVE  ResetsOK'
    BY <1>2 DEF ResetsOK, RunResetsEveryone
  <1>3. ASSUME job' = Idle
        PROVE  ResetsOK'
    BY <1>3 DEF ResetsOK, RunResetsEveryone, Idle
  <1>4. CASE Job
    BY <1>1, <1>4, JobKeepsResets DEF Job
  <1>5. ASSUME NEW missed \in BOOLEAN, Cron(missed)
        PROVE  ResetsOK'
    <2> DEFINE users == {u \in Users : active[u]}
    <2>1. CASE job' = job
      BY <1>2, <1>5, <2>1 DEF Cron, Midnight
    <2>2. CASE job' = [Idle EXCEPT !.pc = "resets", !.today = day',
                                   !.listed = users, !.todo = users]
      <3>1. job'.pc = "resets" /\ job'.listed = users /\ job'.todo = users
        BY <2>2 DEF Idle
      <3> HIDE DEF users
      <3> QED BY <3>1 DEF ResetsOK, RunResetsEveryone
    <2> QED BY <1>5, <2>1, <2>2 DEF Cron, Midnight
  <1>6. CASE JobFails \/ Crash
    <2>1. job' = Idle
      BY <1>6 DEF JobFails, JobError, Crash
    <2> QED BY <1>3, <2>1
  <1>7. CASE UNCHANGED <<job, lastReset>>
    BY <1>2, <1>7
  <1> QED BY <1>4, <1>5, <1>6, <1>7
          DEF Next, schedulerVars, AdminGrant, Pay, PaySubscription, Cancel,
              CancelSubscription, ChangeStatus, SetActive, vars

-----------------------------------------------------------------------------
(* What an account has deducted and its calls hold.                        *)

\* What a call holds is an integer.
LEMMA HoldingsAreInt ==
    ASSUME NEW c \in RequestRecords, NEW u, NEW pool \in Pools
    PROVE  HeldBy(c, u, pool) \in Int
  <1>1. c.held \in [1..3 -> Charges]
    BY DEF RequestRecords, Stages
  <1>2. \A k \in 1..3 : c.held[k][pool] \in Int
    BY <1>1 DEF Charges, Pools
  <1> QED BY <1>2 DEF HeldBy

\* Only the holdings of the call whose step it is change.
LEMMA HeldChanges ==
    ASSUME GatewayOK, GatewayOK', NEW r \in Requests,
           \A q \in Requests \ {r} : req'[q] = req[q],
           NEW u, NEW pool \in Pools
    PROVE  Held(u, pool)' = Held(u, pool)
                            + (HeldBy(req'[r], u, pool) - HeldBy(req[r], u, pool))
  <1> DEFINE f == [q \in Requests |-> HeldBy(req[q], u, pool)]
             g == [q \in Requests |-> HeldBy(req'[q], u, pool)]
  <1>1. \A c \in RequestRecords : HeldBy(c, u, pool) \in Int
    BY HoldingsAreInt
  <1>2. \A q \in Requests : req[q] \in RequestRecords /\ req'[q] \in RequestRecords
    BY DEF GatewayOK, GatewayTypeOK
  <1>3. f \in [Requests -> Int] /\ g \in [Requests -> Int]
    BY <1>1, <1>2
  <1>4. f[r] = HeldBy(req[r], u, pool) /\ g[r] = HeldBy(req'[r], u, pool)
    OBVIOUS
  <1>5. \A q \in Requests \ {r} : g[q] = f[q]
    OBVIOUS
  <1>6. Held(u, pool) = SumFunction(f) /\ Held(u, pool)' = SumFunction(g)
    BY DEF Held
  <1> HIDE DEF f, g
  <1>7. IsFiniteSet(Requests)
    BY GatewayAssumption
  <1>8. SumFunction(g) = SumFunction(f) + (g[r] - f[r])
    BY <1>3, <1>5, <1>7, SumChanges
  <1> QED BY <1>4, <1>6, <1>8

\* With the call's row of the ledger: a step that takes or gives back what it
\* adds to or drops from the call's holdings keeps the two in agreement.
LEMMA HeldAgrees ==
    ASSUME StoreOK, GatewayOK, GatewayOK', ChargesAreHeld, NEW r \in Requests,
           \A q \in Requests \ {r} : req'[q] = req[q],
           \A u \in Users, pool \in Pools :
             LET taken == -(ledger'[u]["deduct"][pool] + ledger'[u]["refund"][pool])
                 was   == -(ledger[u]["deduct"][pool] + ledger[u]["refund"][pool])
             IN  taken - was = HeldBy(req'[r], u, pool) - HeldBy(req[r], u, pool),
           StoreOK'
    PROVE  ChargesAreHeld'
  <1> SUFFICES ASSUME NEW u \in Users, NEW pool \in Pools
               PROVE  -(ledger'[u]["deduct"][pool] + ledger'[u]["refund"][pool])
                        = Held(u, pool)'
    BY DEF ChargesAreHeld
  <1>1. /\ ledger[u]["deduct"][pool] \in Int
        /\ ledger[u]["refund"][pool] \in Int
        /\ ledger'[u]["deduct"][pool] \in Int
        /\ ledger'[u]["refund"][pool] \in Int
    BY DEF StoreOK, StoreTypeOK, Amounts, TransactionTypes, Pools
  <1>2. -(ledger[u]["deduct"][pool] + ledger[u]["refund"][pool]) = Held(u, pool)
    BY DEF ChargesAreHeld
  <1>3. Held(u, pool)' = Held(u, pool)
                         + (HeldBy(req'[r], u, pool) - HeldBy(req[r], u, pool))
    BY HeldChanges
  <1> QED BY <1>1, <1>2, <1>3

\* A step that moves neither charges nor deductions keeps them too.
LEMMA NothingTaken ==
    ASSUME ChargesAreHeld, GatewayOK,
           \A r \in Requests : \A u \in Users, pool \in Pools :
             HeldBy(req'[r], u, pool) = HeldBy(req[r], u, pool),
           \A u \in Users : /\ ledger'[u]["deduct"] = ledger[u]["deduct"]
                            /\ ledger'[u]["refund"] = ledger[u]["refund"]
    PROVE  ChargesAreHeld'
  <1> SUFFICES ASSUME NEW u \in Users, NEW pool \in Pools
               PROVE  Held(u, pool)' = Held(u, pool)
    BY DEF ChargesAreHeld
  <1>1. [r \in Requests |-> HeldBy(req'[r], u, pool)]
          = [r \in Requests |-> HeldBy(req[r], u, pool)]
    OBVIOUS
  <1> QED BY <1>1 DEF Held

\* The steps that take nothing: the user and the charges of a call stay.
LEMMA MovingTakesNothing ==
    ASSUME GatewayOK, ChargesAreHeld, NEW r \in Requests, NEW new,
           req' = [req EXCEPT ![r] = new],
           new.held = req[r].held, new.user = req[r].user,
           UNCHANGED ledger
    PROVE  ChargesAreHeld'
  <1>1. \A q \in Requests : req'[q] = IF q = r THEN new ELSE req[q]
    BY DEF GatewayOK, GatewayTypeOK
  <1>2. \A q \in Requests : \A u \in Users, pool \in Pools :
          HeldBy(req'[q], u, pool) = HeldBy(req[q], u, pool)
    BY <1>1 DEF HeldBy
  <1> QED BY <1>2, NothingTaken

\* Nor does a call that arrives: nothing was held in its name.
LEMMA ArrivingTakesNothing ==
    ASSUME GatewayOK, ChargesAreHeld, HoldingsOK, NEW r \in Requests, NEW new,
           req' = [req EXCEPT ![r] = new],
           req[r].pc = "free", new.held = req[r].held,
           UNCHANGED ledger
    PROVE  ChargesAreHeld'
  <1>1. \A q \in Requests : req'[q] = IF q = r THEN new ELSE req[q]
    BY DEF GatewayOK, GatewayTypeOK
  <1>2. req[r].stage = 1
    BY DEF GatewayOK, CallsOK, CallOK
  <1>3. \A k \in 1..3 : req[r].held[k] = Nothing
    BY <1>2 DEF HoldingsOK, HoldsOK
  <1>4. \A u \in Users, pool \in Pools :
          HeldBy(new, u, pool) = 0 /\ HeldBy(req[r], u, pool) = 0
    BY <1>3 DEF HeldBy, Nothing, Pools
  <1>5. \A q \in Requests : \A u \in Users, pool \in Pools :
          HeldBy(req'[q], u, pool) = HeldBy(req[q], u, pool)
    BY <1>1, <1>4
  <1> QED BY <1>5, NothingTaken

\* What changing one stage's charge changes of the holdings of a call.
LEMMA StageHoldings ==
    ASSUME NEW c \in RequestRecords, NEW k \in Stages, NEW cut \in Charges,
           NEW new, new.user = c.user, new.held = [c.held EXCEPT ![k] = cut],
           NEW u, NEW pool \in Pools
    PROVE  HeldBy(new, u, pool) = HeldBy(c, u, pool)
             + (IF u = c.user THEN cut[pool] - c.held[k][pool] ELSE 0)
  <1>1. c.held \in [1..3 -> Charges]
    BY DEF RequestRecords, Stages
  <1>2. \A j \in 1..3 : new.held[j] = IF j = k THEN cut ELSE c.held[j]
    BY <1>1
  <1>3. \A j \in 1..3 : c.held[j][pool] \in Int
    <2>1. \A j \in 1..3 : c.held[j] \in Charges
      BY <1>1
    <2> QED BY <2>1 DEF Charges, Pools
  <1>4. cut[pool] \in Int
    BY DEF Charges, Pools
  <1>5. k = 1 \/ k = 2 \/ k = 3
    BY DEF Stages
  <1>6. CASE u = c.user
    <2>1. /\ HeldBy(new, u, pool)
               = new.held[1][pool] + new.held[2][pool] + new.held[3][pool]
          /\ HeldBy(c, u, pool) = c.held[1][pool] + c.held[2][pool] + c.held[3][pool]
      BY <1>6 DEF HeldBy
    <2>2. CASE k = 1
      BY <1>2, <1>3, <1>4, <1>6, <2>1, <2>2
    <2>3. CASE k = 2
      BY <1>2, <1>3, <1>4, <1>6, <2>1, <2>3
    <2>4. CASE k = 3
      BY <1>2, <1>3, <1>4, <1>6, <2>1, <2>4
    <2> QED BY <1>5, <2>2, <2>3, <2>4
  <1>7. CASE u # c.user
    BY <1>7 DEF HeldBy
  <1> QED BY <1>6, <1>7

\* A deduction is held by the stage it pays for.
LEMMA DebitIsHeld ==
    ASSUME GatewayOK, StoreOK, ChargesAreHeld, HoldingsOK, NEW r \in Requests, Debit(r)
    PROVE  ChargesAreHeld'
  <1> DEFINE k    == req[r].stage
             cut  == Split(req[r].row, Price(r))
             new  == [req[r] EXCEPT !.pc = IF req[r].kind = "admin" THEN "ok"
                                           ELSE "upstream",
                                    !.row = Nothing,
                                    !.held = [@ EXCEPT ![k] = cut]]
  <1>1. /\ req \in [Requests -> RequestRecords]
        /\ req[r] \in RequestRecords
        /\ ledger \in [Users -> [TransactionTypes -> Amounts]]
        /\ k \in 1..3
        /\ req[r].held \in [Stages -> Charges]
        /\ req[r].row \in Amounts
        /\ req[r].user \in Users
    BY DEF GatewayOK, GatewayTypeOK, RequestRecords, Stages, StoreOK, StoreTypeOK
  <1>2. req[r].pc = "debit" /\ Record(req[r].user, "deduct", Minus(Nothing, cut))
    BY DEF Debit, Deduct
  <1>3. req' = [req EXCEPT ![r] = new]
    BY <1>1 DEF Debit
  <1>4. Price(r) \in Nat
    BY <1>2, CallPrices
  <1>5. cut \in Charges /\ cut \in Amounts
    BY <1>1, <1>4, SplitCovers, ChargesAreAmounts
  <1>6. req[r].held[k] = Nothing
    BY <1>1, <1>2 DEF HoldingsOK, HoldsOK
  <1>7. new.user = req[r].user /\ new.held = [req[r].held EXCEPT ![k] = cut]
    BY <1>1 DEF RequestRecords
  <1>8. GatewayOK' /\ StoreOK'
    BY DebitKeepsOK
  <1>9. \A q \in Requests : req'[q] = IF q = r THEN new ELSE req[q]
    BY <1>1, <1>3
  <1> HIDE DEF new, cut, k
  <1>10. ASSUME NEW u \in Users, NEW pool \in Pools
         PROVE  LET taken == -(ledger'[u]["deduct"][pool] + ledger'[u]["refund"][pool])
                    was   == -(ledger[u]["deduct"][pool] + ledger[u]["refund"][pool])
                IN  taken - was = HeldBy(req'[r], u, pool) - HeldBy(req[r], u, pool)
    <2>1. HeldBy(new, u, pool) = HeldBy(req[r], u, pool)
            + (IF u = req[r].user THEN cut[pool] - Nothing[pool] ELSE 0)
      <3>1. k \in Stages
        BY <1>1 DEF Stages
      <3>2. HeldBy(new, u, pool) = HeldBy(req[r], u, pool)
              + (IF u = req[r].user THEN cut[pool] - req[r].held[k][pool] ELSE 0)
        <4>1. req[r] \in RequestRecords /\ cut \in Charges
          BY <1>1, <1>5
        <4> QED BY <1>7, <3>1, <4>1, StageHoldings
      <3> QED BY <1>6, <3>2
    <2>2. cut[pool] \in Int /\ Nothing[pool] = 0
      BY <1>5 DEF Charges, Nothing, Pools
    <2>3. /\ ledger'[u]["refund"] = ledger[u]["refund"]
          /\ ledger'[u]["deduct"] = IF u = req[r].user
                                    THEN Plus(ledger[u]["deduct"], Minus(Nothing, cut))
                                    ELSE ledger[u]["deduct"]
      BY <1>1, <1>2 DEF Record, TransactionTypes
    <2>4. Plus(ledger[u]["deduct"], Minus(Nothing, cut))[pool]
            = ledger[u]["deduct"][pool] - cut[pool]
      <3>1. ledger[u]["deduct"] \in Amounts
        BY <1>1 DEF TransactionTypes
      <3> QED BY <1>5, <3>1 DEF Plus, Minus, Nothing, Pools, Amounts
    <2>5. ledger[u]["deduct"][pool] \in Int /\ ledger[u]["refund"][pool] \in Int
      BY <1>1 DEF TransactionTypes, Amounts, Pools
    <2>6. HeldBy(req[r], u, pool) \in Int
      BY <1>1, HoldingsAreInt
    <2> QED BY <1>9, <2>1, <2>2, <2>3, <2>4, <2>5, <2>6
  <1> QED BY <1>8, <1>9, <1>10, HeldAgrees

\* A refund is of a charge the call held, and is held no more.
LEMMA RefundIsReleased ==
    ASSUME GatewayOK, StoreOK, ChargesAreHeld, NEW r \in Requests,
           RefundStage(r) \/ RefundBase(r)
    PROVE  ChargesAreHeld'
  <1>1. /\ req \in [Requests -> RequestRecords]
        /\ req[r] \in RequestRecords
        /\ ledger \in [Users -> [TransactionTypes -> Amounts]]
        /\ req[r].stage \in Stages /\ 1 \in Stages
        /\ req[r].held \in [Stages -> Charges]
        /\ req[r].user \in Users
    BY DEF GatewayOK, GatewayTypeOK, RequestRecords, Stages, StoreOK, StoreTypeOK
  <1>11. PICK k \in Stages : \E pc :
           /\ Refund(req[r].user, req[r].held[k])
           /\ req' = [req EXCEPT ![r] = [@ EXCEPT !.pc = pc, !.held[k] = Nothing]]
    <2>1. CASE RefundStage(r)
      BY <1>1, <2>1 DEF RefundStage
    <2>2. CASE RefundBase(r)
      BY <1>1, <2>2 DEF RefundBase
    <2> QED BY <2>1, <2>2
  <1>2. PICK pc :
          /\ Refund(req[r].user, req[r].held[k])
          /\ req' = [req EXCEPT ![r] = [@ EXCEPT !.pc = pc, !.held[k] = Nothing]]
    BY <1>11
  <1> DEFINE cut == req[r].held[k]
             new == [req[r] EXCEPT !.pc = pc, !.held = [@ EXCEPT ![k] = Nothing]]
  <1>3. \A q \in Requests : req'[q] = IF q = r THEN new ELSE req[q]
    BY <1>1, <1>2
  <1>4. cut \in Charges /\ cut \in Amounts /\ Nothing \in Charges
    BY <1>1, ChargesAreAmounts
  <1>5. new.user = req[r].user /\ new.held = [req[r].held EXCEPT ![k] = Nothing]
    BY <1>1 DEF RequestRecords
  <1>6. GatewayOK' /\ StoreOK'
    BY RefundKeepsOK
  <1>7. Record(req[r].user, "refund", cut)
    BY <1>2 DEF Refund
  <1> HIDE DEF new
  <1>8. ASSUME NEW u \in Users, NEW pool \in Pools
         PROVE  LET taken == -(ledger'[u]["deduct"][pool] + ledger'[u]["refund"][pool])
                    was   == -(ledger[u]["deduct"][pool] + ledger[u]["refund"][pool])
                IN  taken - was = HeldBy(req'[r], u, pool) - HeldBy(req[r], u, pool)
    <2>1. HeldBy(new, u, pool) = HeldBy(req[r], u, pool)
            + (IF u = req[r].user THEN Nothing[pool] - cut[pool] ELSE 0)
      <3>1. req[r] \in RequestRecords /\ Nothing \in Charges
        BY <1>1, <1>4
      <3> QED BY <1>5, <3>1, StageHoldings
    <2> HIDE DEF cut
    <2>2. cut[pool] \in Int /\ Nothing[pool] = 0
      BY <1>4 DEF Charges, Nothing, Pools
    <2>3. /\ ledger'[u]["deduct"] = ledger[u]["deduct"]
          /\ ledger'[u]["refund"] = IF u = req[r].user
                                    THEN Plus(ledger[u]["refund"], cut)
                                    ELSE ledger[u]["refund"]
      BY <1>1, <1>7 DEF Record, TransactionTypes
    <2>4. Plus(ledger[u]["refund"], cut)[pool] = ledger[u]["refund"][pool] + cut[pool]
      <3>1. ledger[u]["refund"] \in Amounts
        BY <1>1 DEF TransactionTypes
      <3> QED BY <1>4, <3>1 DEF Plus, Pools, Amounts
    <2>5. ledger[u]["deduct"][pool] \in Int /\ ledger[u]["refund"][pool] \in Int
      BY <1>1 DEF TransactionTypes, Amounts, Pools
    <2>6. HeldBy(req[r], u, pool) \in Int
      BY <1>1, HoldingsAreInt
    <2> QED BY <1>3, <2>1, <2>2, <2>3, <2>4, <2>5, <2>6
  <1> QED BY <1>3, <1>6, <1>8, HeldAgrees

\* Every step of a call keeps what was deducted and what is held in agreement.
LEMMA GatewayKeepsCharges ==
    ASSUME GatewayOK, StoreOK, ChargesAreHeld, HoldingsOK,
           NEW callers \in SUBSET Users, GatewayNext(callers)
    PROVE  ChargesAreHeld'
  <1>0. PICK r \in Requests :
          \/ \E u \in Users, prices \in Plans : Arrive(r, u, prices)
          \/ \E u \in Users, n \in AdminAmounts : ArriveAdmin(r, u, n)
          \/ RequestStep(r)
          \/ DatabaseError(r) \/ RefundError(r)
    BY DEF GatewayNext
  <1>1. req \in [Requests -> RequestRecords] /\ req[r] \in RequestRecords
    BY DEF GatewayOK, GatewayTypeOK
  <1>2. ASSUME NEW new, req' = [req EXCEPT ![r] = new], UNCHANGED ledger,
               new.held = req[r].held,
               new.user = req[r].user \/ req[r].pc = "free"
        PROVE  ChargesAreHeld'
    BY <1>2, MovingTakesNothing, ArrivingTakesNothing
  <1>3. ASSUME NEW pc, req' = [req EXCEPT ![r] = [req[r] EXCEPT !.pc = pc]],
               UNCHANGED ledger
        PROVE  ChargesAreHeld'
    <2> DEFINE new == [req[r] EXCEPT !.pc = pc]
    <2>1. new.user = req[r].user /\ new.held = req[r].held
      BY <1>1 DEF RequestRecords
    <2>2. req' = [req EXCEPT ![r] = new]
      BY <1>3
    <2> HIDE DEF new
    <2> QED BY <1>2, <1>3, <2>1, <2>2
  <1>4. ASSUME NEW u \in Users, NEW prices \in Plans, Arrive(r, u, prices)
        PROVE  ChargesAreHeld'
    <2> DEFINE new == [req[r] EXCEPT !.pc = "read", !.user = u, !.prices = prices]
    <2>1. req' = [req EXCEPT ![r] = new] /\ req[r].pc = "free"
      BY <1>1, <1>4 DEF Arrive
    <2>2. UNCHANGED ledger
      BY <1>4 DEF Arrive, storeVars
    <2>3. new.held = req[r].held
      BY <1>1 DEF RequestRecords
    <2> HIDE DEF new
    <2> QED BY <1>2, <2>1, <2>2, <2>3
  <1>5. ASSUME NEW u \in Users, NEW n \in AdminAmounts, ArriveAdmin(r, u, n)
        PROVE  ChargesAreHeld'
    <2> DEFINE new == [req[r] EXCEPT !.pc = "read", !.kind = "admin",
                                     !.user = u, !.prices = <<n>>]
    <2>1. req' = [req EXCEPT ![r] = new] /\ req[r].pc = "free"
      BY <1>1, <1>5 DEF ArriveAdmin
    <2>2. UNCHANGED ledger
      BY <1>5 DEF ArriveAdmin, storeVars
    <2>3. new.held = req[r].held
      BY <1>1 DEF RequestRecords
    <2> HIDE DEF new
    <2> QED BY <1>2, <2>1, <2>2, <2>3
  <1>6. CASE ReadAccount(r)
    <2> DEFINE new == [req[r] EXCEPT !.pc = "debit", !.row = balance[req[r].user]]
    <2>1. UNCHANGED ledger
      BY <1>6 DEF ReadAccount, storeVars
    <2>2. \/ req' = [req EXCEPT ![r] = [req[r] EXCEPT !.pc = Caught(r)]]
          \/ req' = [req EXCEPT ![r] = new]
      BY <1>1, <1>6 DEF ReadAccount, Goto
    <2>3. new.user = req[r].user /\ new.held = req[r].held
      BY <1>1 DEF RequestRecords
    <2> HIDE DEF new
    <2> QED BY <1>2, <1>3, <2>1, <2>2, <2>3
  <1>7. CASE ReadNoAccount(r) \/ CreateAccount(r) \/ UpstreamFail(r) \/ RefundError(r)
    <2>1. UNCHANGED ledger
      BY <1>7 DEF ReadNoAccount, CreateAccount, UpstreamFail, RefundError, storeVars
    <2>2. \E pc : req' = [req EXCEPT ![r] = [req[r] EXCEPT !.pc = pc]]
      BY <1>1, <1>7 DEF ReadNoAccount, CreateAccount, UpstreamFail, RefundError, Goto
    <2> QED BY <1>3, <2>1, <2>2
  <1>8. CASE Debit(r)
    BY <1>8, DebitIsHeld
  <1>9. CASE UpstreamOk(r)
    <2> DEFINE new == [req[r] EXCEPT !.pc = "read", !.stage = req[r].stage + 1]
    <2>1. UNCHANGED ledger
      BY <1>9 DEF UpstreamOk, storeVars
    <2>2. \/ req' = [req EXCEPT ![r] = [req[r] EXCEPT !.pc = "ok"]]
          \/ req' = [req EXCEPT ![r] = new]
      BY <1>1, <1>9 DEF UpstreamOk, Goto
    <2>3. new.user = req[r].user /\ new.held = req[r].held
      BY <1>1 DEF RequestRecords
    <2> HIDE DEF new
    <2> QED BY <1>2, <1>3, <2>1, <2>2, <2>3
  <1>10. CASE RefundStage(r) \/ RefundBase(r)
    BY <1>10, RefundIsReleased
  <1>11. CASE DatabaseError(r)
    <2> DEFINE new == [req[r] EXCEPT !.pc = Caught(r), !.row = Nothing]
    <2>1. UNCHANGED ledger
      BY <1>11 DEF DatabaseError, storeVars
    <2>2. req' = [req EXCEPT ![r] = new]
      BY <1>1, <1>11 DEF DatabaseError
    <2>3. new.user = req[r].user /\ new.held = req[r].held
      BY <1>1 DEF RequestRecords
    <2> HIDE DEF new
    <2> QED BY <1>2, <2>1, <2>2, <2>3
  <1> QED BY <1>0, <1>4, <1>5, <1>6, <1>7, <1>8, <1>9, <1>10, <1>11 DEF RequestStep

\* Grants, resets and expiries are other rows than deductions and refunds.
LEMMA OtherRowsTakeNothing ==
    ASSUME StoreOK, NEW u \in Users, NEW type \in {"grant", "expire"},
           NEW amounts, Record(u, type, amounts)
    PROVE  \A v \in Users : /\ ledger'[v]["deduct"] = ledger[v]["deduct"]
                            /\ ledger'[v]["refund"] = ledger[v]["refund"]
  <1>1. ledger \in [Users -> [TransactionTypes -> Amounts]]
    BY DEF StoreOK, StoreTypeOK
  <1> QED BY <1>1 DEF Record, TransactionTypes

\* The job writes no others.
LEMMA JobTakesNothing ==
    ASSUME StoreOK, SchedulerOK, JobStep
    PROVE  \A v \in Users : /\ ledger'[v]["deduct"] = ledger[v]["deduct"]
                            /\ ledger'[v]["refund"] = ledger[v]["refund"]
  <1> DEFINE Kept == \A v \in Users : /\ ledger'[v]["deduct"] = ledger[v]["deduct"]
                                      /\ ledger'[v]["refund"] = ledger[v]["refund"]
  <1>1. job.user \in Users
    BY DEF SchedulerOK, SchedulerTypeOK, JobRecords
  <1>2. UNCHANGED ledger => Kept
    OBVIOUS
  <1>3. ASSUME NEW amounts,
               \/ Record(job.user, "grant", amounts)
               \/ Record(job.user, "expire", amounts)
        PROVE  Kept
    BY <1>1, <1>3, OtherRowsTakeNothing
  <1>4. ResetWrite => UNCHANGED ledger \/ \E amounts :
                        \/ Record(job.user, "grant", amounts)
                        \/ Record(job.user, "expire", amounts)
    BY DEF ResetWrite, SetPromo
  <1>5. ResetCreate => \E amounts : Record(job.user, "grant", amounts)
    BY DEF ResetCreate, Grant
  <1>6. RollWrite => UNCHANGED ledger \/ \E amounts : Record(job.user, "expire", amounts)
    BY DEF RollWrite, Empty
  <1>7. ~ResetWrite /\ ~ResetCreate /\ ~RollWrite => UNCHANGED storeVars
    BY DEF JobStep, ResetRead, RollFind, RollRead, ResetConflict, ResetsDone,
           Batch, BatchDone, RollConflict
  <1>8. UNCHANGED storeVars => UNCHANGED ledger
    BY DEF storeVars
  <1> HIDE DEF Kept
  <1>9. Kept
    BY <1>2, <1>3, <1>4, <1>5, <1>6, <1>7, <1>8
  <1> QED BY <1>9 DEF Kept

\* Every step of the system does.
LEMMA NextKeepsCharges ==
    ASSUME IInv, ChargesAreHeld, HoldingsOK, [Next]_vars
    PROVE  ChargesAreHeld'
  <1>1. GatewayOK /\ StoreOK /\ SchedulerOK
    BY DEF IInv
  <1>2. ASSUME req' = req,
               \A v \in Users : /\ ledger'[v]["deduct"] = ledger[v]["deduct"]
                                /\ ledger'[v]["refund"] = ledger[v]["refund"]
        PROVE  ChargesAreHeld'
    BY <1>1, <1>2, NothingTaken
  <1>3. CASE GatewayNext({u \in Users : active[u]})
    <2>1. {u \in Users : active[u]} \in SUBSET Users
      OBVIOUS
    <2> QED BY <1>1, <1>3, <2>1, GatewayKeepsCharges
  <1>4. CASE Crash
    <2>1. req \in [Requests -> RequestRecords]
      BY <1>1 DEF GatewayOK, GatewayTypeOK
    <2>2. req' = [q \in Requests |->
                    IF InFlight(q) THEN [req[q] EXCEPT !.pc = "lost", !.row = Nothing]
                    ELSE req[q]]
      BY <1>4 DEF Crash
    <2>3. ASSUME NEW r \in Requests
          PROVE  req'[r].user = req[r].user /\ req'[r].held = req[r].held
      BY <2>1, <2>2 DEF RequestRecords
    <2>4. \A r \in Requests : \A u \in Users, pool \in Pools :
            HeldBy(req'[r], u, pool) = HeldBy(req[r], u, pool)
      BY <2>3 DEF HeldBy
    <2>5. UNCHANGED ledger
      BY <1>4 DEF Crash, storeVars
    <2> QED BY <1>1, <2>4, <2>5, NothingTaken
  <1>5. CASE Job
    BY <1>1, <1>2, <1>5, JobTakesNothing DEF Job, gatewayVars
  <1>6. ASSUME NEW u \in Users, NEW amounts, Grant(u, amounts), UNCHANGED gatewayVars
        PROVE  ChargesAreHeld'
    <2>1. Record(u, "grant", amounts)
      BY <1>6 DEF Grant
    <2> QED BY <1>1, <1>2, <1>6, <2>1, OtherRowsTakeNothing DEF gatewayVars
  <1>7. ASSUME NEW u \in Users, NEW pool \in Pools, NEW n \in GrantAmounts,
               AdminGrant(u, pool, n)
        PROVE  ChargesAreHeld'
    BY <1>6, <1>7 DEF AdminGrant
  <1>8. CASE req' = req /\ UNCHANGED storeVars
    BY <1>2, <1>8 DEF storeVars
  <1>9. ASSUME NEW u \in Users, NEW n \in GrantAmounts, Pay(u, n)
        PROVE  ChargesAreHeld'
    <2>1. CASE Grant(u, Only("subscription", n))
      BY <1>6, <1>9, <2>1 DEF Pay
    <2>2. CASE UNCHANGED storeVars
      BY <1>8, <1>9, <2>2 DEF Pay, gatewayVars
    <2> QED BY <1>9, <2>1, <2>2 DEF Pay, PaySubscription
  <1> QED BY <1>3, <1>4, <1>5, <1>7, <1>8, <1>9
          DEF Next, Cancel, CancelSubscription, ChangeStatus, SetActive, Cron,
              Midnight, JobFails, JobError, gatewayVars, vars

\* The accounts begin with nothing deducted and nothing held.
LEMMA InitHolds == Init => ChargesAreHeld /\ HoldingsOK /\ ResetsOK
  <1> SUFFICES ASSUME Init PROVE ChargesAreHeld /\ HoldingsOK /\ ResetsOK
    OBVIOUS
  <1>1. \A r \in Requests :
          /\ req[r].pc = "free"
          /\ req[r].held = [k \in Stages |-> Nothing]
    BY DEF Init, GatewayInit
  <1>2. HoldingsOK
    <2>1. \A r \in Requests : req[r].stage = 1
      BY DEF Init, GatewayInit
    <2> QED BY <1>1, <2>1 DEF HoldingsOK, HoldsOK, CaughtOK, Stages
  <1>3. ResetsOK
    BY DEF Init, SchedulerInit, Idle, ResetsOK, RunResetsEveryone
  <1>4. ASSUME NEW u \in Users, NEW pool \in Pools
        PROVE  -(ledger[u]["deduct"][pool] + ledger[u]["refund"][pool]) = Held(u, pool)
    <2> DEFINE f == [r \in Requests |-> HeldBy(req[r], u, pool)]
    <2>1. \A r \in Requests : HeldBy(req[r], u, pool) = 0
      BY <1>1 DEF HeldBy, Stages, Nothing, Pools
    <2>2. f \in [Requests -> Int] /\ \A r \in Requests : f[r] = 0
      BY <2>1
    <2>3. Held(u, pool) = SumFunction(f)
      BY DEF Held
    <2> HIDE DEF f
    <2>4. Held(u, pool) = 0
      BY <2>2, <2>3, GatewayAssumption, SumOfZeros
    <2>5. ledger[u]["deduct"][pool] = 0 /\ ledger[u]["refund"][pool] = 0
      BY DEF Init, StoreInit, TransactionTypes, Nothing, Pools
    <2>6. \A m, n \in Int : -(m + n) = (0 - m) - n
      OBVIOUS
    <2>7. -(ledger[u]["deduct"][pool] + ledger[u]["refund"][pool]) = 0
      <3>1. ledger[u]["deduct"][pool] \in Int /\ ledger[u]["refund"][pool] \in Int
        BY <2>5
      <3>2. -(ledger[u]["deduct"][pool] + ledger[u]["refund"][pool])
              = (0 - ledger[u]["deduct"][pool]) - ledger[u]["refund"][pool]
        BY <2>6, <3>1
      <3>3. (0 - ledger[u]["deduct"][pool]) - ledger[u]["refund"][pool] = 0
        BY <2>5
      <3> QED BY <3>2, <3>3
    <2> QED BY <2>4, <2>7
  <1> QED BY <1>2, <1>3, <1>4 DEF ChargesAreHeld

\* What calls hold and what runs have reset, together with the invariant above.
THEOREM HoldingsHold == Spec => [](ChargesAreHeld /\ HoldingsOK /\ ResetsOK)
  <1>1. /\ IInv
        /\ ChargesAreHeld /\ HoldingsOK /\ ResetsOK
        /\ [Next]_vars
        => (ChargesAreHeld /\ HoldingsOK /\ ResetsOK)'
    BY NextKeepsCharges, NextKeepsHoldings, NextKeepsResets
  <1> QED BY <1>1, InitHolds, InvariantHolds, PTL DEF Spec

\* Every credit deducted is held by exactly the calls that took it or was
\* refunded to the pool it came from, for any number of calls that race.
THEOREM EveryChargeIsHeld == Spec => []ChargesAreHeld
  BY HoldingsHold, PTL

\* A failed call costs nothing unless the database or the process failed, but
\* for the scratch repair of a pipeline whose remastering failed.
THEOREM FailuresAreFree == Spec => []FailureIsFree
  <1>1. HoldingsOK => FailureIsFree
    BY DEF HoldingsOK, CaughtOK, FailureIsFree
  <1> QED BY <1>1, HoldingsHold, PTL

\* When the loop of a run is over, everyone it began with has been reset.
THEOREM EveryoneIsReset == Spec => []RunResetsEveryone
  <1>1. ResetsOK => RunResetsEveryone
    BY DEF ResetsOK
  <1> QED BY <1>1, HoldingsHold, PTL

-----------------------------------------------------------------------------
(* How balances and transaction rows come apart.                           *)

\* A row of some type, with the same change of the balance, leaves the part
\* of every balance that no row accounts for as it was.
LEMMA PostKeepsDrift ==
    ASSUME StoreTypeOK, NEW u \in Users, NEW type \in TransactionTypes,
           NEW amounts \in Amounts, Record(u, type, amounts),
           \A v \in Users : balance'[v] = IF v = u THEN Plus(balance[v], amounts)
                                          ELSE balance[v]
    PROVE  \A v \in Users : Drift(v)' = Drift(v)
  <1> SUFFICES ASSUME NEW v \in Users PROVE Drift(v)' = Drift(v)
    OBVIOUS
  <1>1. \A t \in TransactionTypes :
          ledger'[v][t] = IF v = u /\ t = type THEN Plus(ledger[v][t], amounts)
                          ELSE ledger[v][t]
    BY RecordAdds
  <1>2. /\ balance[v] \in Amounts
        /\ \A t \in TransactionTypes : ledger[v][t] \in Amounts
    BY DEF StoreTypeOK
  <1>3. CASE v # u
    <2>1. balance'[v] = balance[v]
      BY <1>3
    <2>2. \A t \in TransactionTypes : ledger'[v][t] = ledger[v][t]
      BY <1>1, <1>3
    <2> QED BY <2>1, <2>2 DEF Drift, LedgerBalance, TransactionTypes
  <1>4. CASE v = u
    <2>1. balance'[v] = Plus(balance[v], amounts)
      BY <1>4
    <2> DEFINE g == ledger[v]["grant"]
               f == ledger[v]["refund"]
               d == ledger[v]["deduct"]
               e == ledger[v]["expire"]
               g1 == ledger'[v]["grant"]
               f1 == ledger'[v]["refund"]
               d1 == ledger'[v]["deduct"]
               e1 == ledger'[v]["expire"]
    <2>2. g \in Amounts /\ f \in Amounts /\ d \in Amounts /\ e \in Amounts
      BY <1>2 DEF TransactionTypes
    <2>3. /\ g1 = IF type = "grant" THEN Plus(g, amounts) ELSE g
          /\ f1 = IF type = "refund" THEN Plus(f, amounts) ELSE f
          /\ d1 = IF type = "deduct" THEN Plus(d, amounts) ELSE d
          /\ e1 = IF type = "expire" THEN Plus(e, amounts) ELSE e
      BY <1>1, <1>4 DEF TransactionTypes
    <2>4. /\ Drift(v)' = Minus(balance'[v], Plus(Plus(g1, f1), Plus(d1, e1)))
          /\ Drift(v) = Minus(balance[v], Plus(Plus(g, f), Plus(d, e)))
      BY DEF Drift, LedgerBalance
    <2> HIDE DEF g, f, d, e, g1, f1, d1, e1
    <2>5. balance[v] \in Amounts
      BY <1>2
    <2>6. CASE type = "grant"
      <3>1. g1 = Plus(g, amounts) /\ f1 = f /\ d1 = d /\ e1 = e
        BY <2>3, <2>6
      <3>2. Drift(v)' = Minus(Plus(balance[v], amounts),
                              Plus(Plus(Plus(g, amounts), f), Plus(d, e)))
        BY <2>1, <2>4, <3>1
      <3>3. @ = Minus(balance[v], Plus(Plus(g, f), Plus(d, e)))
        BY <2>2, <2>5 DEF Minus, Plus, Amounts
      <3> QED BY <2>4, <3>2, <3>3
    <2>7. CASE type = "refund"
      <3>1. g1 = g /\ f1 = Plus(f, amounts) /\ d1 = d /\ e1 = e
        BY <2>3, <2>7
      <3>2. Drift(v)' = Minus(Plus(balance[v], amounts),
                              Plus(Plus(g, Plus(f, amounts)), Plus(d, e)))
        BY <2>1, <2>4, <3>1
      <3>3. @ = Minus(balance[v], Plus(Plus(g, f), Plus(d, e)))
        BY <2>2, <2>5 DEF Minus, Plus, Amounts
      <3> QED BY <2>4, <3>2, <3>3
    <2>8. CASE type = "deduct"
      <3>1. g1 = g /\ f1 = f /\ d1 = Plus(d, amounts) /\ e1 = e
        BY <2>3, <2>8
      <3>2. Drift(v)' = Minus(Plus(balance[v], amounts),
                              Plus(Plus(g, f), Plus(Plus(d, amounts), e)))
        BY <2>1, <2>4, <3>1
      <3>3. @ = Minus(balance[v], Plus(Plus(g, f), Plus(d, e)))
        BY <2>2, <2>5 DEF Minus, Plus, Amounts
      <3> QED BY <2>4, <3>2, <3>3
    <2>9. CASE type = "expire"
      <3>1. g1 = g /\ f1 = f /\ d1 = d /\ e1 = Plus(e, amounts)
        BY <2>3, <2>9
      <3>2. Drift(v)' = Minus(Plus(balance[v], amounts),
                              Plus(Plus(g, f), Plus(d, Plus(e, amounts))))
        BY <2>1, <2>4, <3>1
      <3>3. @ = Minus(balance[v], Plus(Plus(g, f), Plus(d, e)))
        BY <2>2, <2>5 DEF Minus, Plus, Amounts
      <3> QED BY <2>4, <3>2, <3>3
    <2> QED BY <2>6, <2>7, <2>8, <2>9 DEF TransactionTypes
  <1> QED BY <1>3, <1>4

\* Grants, deductions and refunds change balance and rows alike.
LEMMA PostingsKeepDrift ==
    ASSUME StoreTypeOK, NEW u \in Users, NEW amounts \in Amounts,
           Grant(u, amounts) \/ Refund(u, amounts) \/ \E n : Deduct(u, amounts, n)
    PROVE  \A v \in Users : Drift(v)' = Drift(v)
  <1>1. balance \in [Users -> Amounts]
    BY DEF StoreTypeOK
  <1>2. ASSUME balance' = [balance EXCEPT ![u] = Plus(@, amounts)],
               Record(u, "grant", amounts) \/ Record(u, "refund", amounts)
        PROVE  \A v \in Users : Drift(v)' = Drift(v)
    <2>1. \A v \in Users : balance'[v] = IF v = u THEN Plus(balance[v], amounts)
                                         ELSE balance[v]
      BY <1>1, <1>2
    <2>2. "grant" \in TransactionTypes /\ "refund" \in TransactionTypes
      BY DEF TransactionTypes
    <2> QED BY <1>2, <2>1, <2>2, PostKeepsDrift
  <1>3. ASSUME NEW n, Deduct(u, amounts, n)
        PROVE  \A v \in Users : Drift(v)' = Drift(v)
    <2> DEFINE row == Minus(Nothing, amounts)
    <2>1. row \in Amounts
      BY AmountsAlgebra
    <2>2. \A a \in Amounts : Minus(a, amounts) = Plus(a, row)
      BY DEF Minus, Plus, Nothing, Amounts
    <2>3. Record(u, "deduct", row) /\ "deduct" \in TransactionTypes
      BY <1>3 DEF Deduct, TransactionTypes
    <2>4. balance' = [balance EXCEPT ![u] = Minus(@, amounts)]
      BY <1>3 DEF Deduct
    <2> HIDE DEF row
    <2>5. \A v \in Users : balance'[v] = IF v = u THEN Plus(balance[v], row)
                                         ELSE balance[v]
      BY <1>1, <2>2, <2>4
    <2> QED BY <2>1, <2>3, <2>5, PostKeepsDrift
  <1> QED BY <1>2, <1>3 DEF Grant, Refund

\* A reset that was computed from the balance as it is changes both alike,
\* and no other account at all.
LEMMA ResetKeepsDrift ==
    ASSUME StoreTypeOK, NEW u \in Users, NEW row \in Amounts,
           SetPromo(u, DailyPromo - row.promo)
    PROVE  \A v \in Users : v # u \/ row = balance[u] => Drift(v)' = Drift(v)
  <1> DEFINE delta == DailyPromo - row.promo
             type  == IF delta > 0 THEN "grant" ELSE "expire"
  <1>1. DailyPromo \in Int /\ delta \in Int
    BY SchedulerAssumption DEF Amounts
  <1>2. Only("promo", delta) \in Amounts
    BY <1>1, OnlyIsAmounts
  <1>3. Record(u, type, Only("promo", delta)) /\ type \in TransactionTypes
    BY DEF SetPromo, TransactionTypes
  <1>4. balance' = IF delta = 0 THEN balance ELSE [balance EXCEPT ![u].promo = DailyPromo]
    BY DEF SetPromo
  <1>5. balance \in [Users -> Amounts]
    BY DEF StoreTypeOK
  <1>6. CASE row = balance[u]
    <2>1. balance'[u] = Plus(balance[u], Only("promo", delta))
      <3>1. balance[u].promo + delta = DailyPromo
        BY <1>1, <1>5, <1>6 DEF Amounts
      <3>2. CASE delta = 0
        BY <1>4, <1>5, <3>2 DEF Plus, Only, Amounts
      <3>3. CASE delta # 0
        <4>1. balance'[u] = [balance[u] EXCEPT !.promo = DailyPromo]
          BY <1>4, <1>5, <3>3
        <4>2. balance[u] \in Amounts
          BY <1>5
        <4> HIDE DEF delta
        <4> QED BY <3>1, <4>1, <4>2 DEF Plus, Only, Amounts
      <3> QED BY <3>2, <3>3
    <2>2. \A v \in Users : v # u => balance'[v] = balance[v]
      BY <1>4, <1>5
    <2> HIDE DEF delta, type
    <2> QED BY <1>2, <1>3, <2>1, <2>2, PostKeepsDrift
  <1>7. CASE row # balance[u]
    <2> SUFFICES ASSUME NEW v \in Users, v # u PROVE Drift(v)' = Drift(v)
      BY <1>7
    <2>1. balance'[v] = balance[v]
      BY <1>4, <1>5
    <2>2. \A t \in TransactionTypes : ledger'[v][t] = ledger[v][t]
      <3> HIDE DEF type, delta
      <3> QED BY <1>2, <1>3, RecordAdds
    <2> QED BY <2>1, <2>2 DEF Drift, LedgerBalance, TransactionTypes
  <1> QED BY <1>6, <1>7

\* The same of the monthly expiry.
LEMMA EmptyKeepsDrift ==
    ASSUME StoreTypeOK, NEW u \in Users, NEW row \in Amounts,
           Empty(u, row.subscription)
    PROVE  \A v \in Users : v # u \/ row = balance[u] => Drift(v)' = Drift(v)
  <1> DEFINE expired == row.subscription
             amounts == Only("subscription", -expired)
  <1>1. expired \in Int /\ balance \in [Users -> Amounts]
    BY DEF Amounts, StoreTypeOK
  <1>2. amounts \in Amounts
    BY <1>1, OnlyIsAmounts
  <1>3. CASE ~(expired > 0)
    BY <1>3 DEF Empty, Drift, LedgerBalance
  <1>4. CASE expired > 0
    <2>1. /\ balance' = [balance EXCEPT ![u].subscription = 0]
          /\ Record(u, "expire", amounts) /\ "expire" \in TransactionTypes
      BY <1>4 DEF Empty, TransactionTypes
    <2>2. CASE row = balance[u]
      <3>1. balance'[u] = Plus(balance[u], amounts)
        <4>1. balance'[u] = [balance[u] EXCEPT !.subscription = 0]
          BY <1>1, <2>1
        <4>2. balance[u] \in Amounts /\ balance[u].subscription + (-expired) = 0
          BY <1>1, <2>2
        <4> QED BY <4>1, <4>2 DEF Plus, Only, Amounts
      <3>2. \A v \in Users : v # u => balance'[v] = balance[v]
        BY <1>1, <2>1
      <3> HIDE DEF amounts
      <3> QED BY <1>2, <2>1, <3>1, <3>2, PostKeepsDrift
    <2>3. CASE row # balance[u]
      <3> SUFFICES ASSUME NEW v \in Users, v # u PROVE Drift(v)' = Drift(v)
        BY <2>3
      <3>1. balance'[v] = balance[v]
        BY <1>1, <2>1
      <3> HIDE DEF amounts
      <3>2. \A t \in TransactionTypes : ledger'[v][t] = ledger[v][t]
        BY <1>2, <2>1, RecordAdds
      <3> QED BY <3>1, <3>2 DEF Drift, LedgerBalance, TransactionTypes
    <2> QED BY <2>2, <2>3
  <1> QED BY <1>3, <1>4

\* A step of the job moves the difference of one account only, and only when
\* it writes over a balance that is not the one it read.
LEMMA JobDriftIsStale ==
    ASSUME IInv, JobStep, NEW u \in Users, Drift(u)' # Drift(u)
    PROVE  job.pc \in {"reset", "roll"} /\ job.user = u /\ job.row # balance[u]
  <1>1. /\ StoreTypeOK
        /\ job.user \in Users /\ job.row \in Amounts
    BY DEF IInv, StoreOK, SchedulerOK, SchedulerTypeOK, JobRecords
  <1>2. balance' = balance /\ ledger' = ledger => Drift(u)' = Drift(u)
    BY DEF Drift, LedgerBalance
  <1>3. CASE ResetWrite
    <2>1. SetPromo(job.user, DailyPromo - job.row.promo)
      BY <1>2, <1>3 DEF ResetWrite
    <2>2. job.user = u /\ job.row # balance[u]
      BY <1>1, <2>1, ResetKeepsDrift
    <2> QED BY <1>3, <2>2 DEF ResetWrite
  <1>4. CASE ResetCreate
    <2>1. Only("promo", DailyPromo) \in Amounts
      BY SchedulerAssumption, OnlyIsAmounts
    <2>2. Grant(job.user, Only("promo", DailyPromo))
      BY <1>4 DEF ResetCreate
    <2> QED BY <1>1, <2>1, <2>2, PostingsKeepDrift
  <1>5. CASE RollWrite
    <2>1. Empty(job.user, job.row.subscription)
      BY <1>5 DEF RollWrite
    <2>2. job.user = u /\ job.row # balance[u]
      BY <1>1, <2>1, EmptyKeepsDrift
    <2> QED BY <1>5, <2>2 DEF RollWrite
  <1>6. ~ResetWrite /\ ~ResetCreate /\ ~RollWrite => UNCHANGED storeVars
    BY DEF JobStep, ResetRead, RollFind, RollRead, ResetConflict, ResetsDone,
           Batch, BatchDone, RollConflict
  <1> QED BY <1>2, <1>3, <1>4, <1>5, <1>6 DEF storeVars

\* The calls never do.
LEMMA GatewayKeepsDrift ==
    ASSUME IInv, NEW callers, GatewayNext(callers)
    PROVE  \A u \in Users : Drift(u)' = Drift(u)
  <1>1. StoreTypeOK /\ GatewayOK
    BY DEF IInv, StoreOK
  <1>2. CASE balance' = balance /\ ledger' = ledger
    BY <1>2 DEF Drift, LedgerBalance
  <1>3. CASE ~(balance' = balance /\ ledger' = ledger)
    <2>1. PICK r \in Requests : Debit(r) \/ RefundStage(r) \/ RefundBase(r)
      BY <1>3 DEF GatewayNext, RequestStep, Arrive, ArriveAdmin, ReadAccount,
                  ReadNoAccount, CreateAccount, UpstreamOk, UpstreamFail,
                  DatabaseError, RefundError, storeVars
    <2>2. /\ req[r].user \in Users
          /\ req[r].row \in Amounts
          /\ req[r].stage \in Stages
          /\ \A k \in Stages : req[r].held[k] \in Amounts
      BY <1>1, ChargesAreAmounts DEF GatewayOK, GatewayTypeOK, RequestRecords
    <2> DEFINE cut == Split(req[r].row, Price(r))
    <2>3. CASE Debit(r)
      <3>1. req[r].pc = "debit" /\ Deduct(req[r].user, cut, Price(r))
        BY <2>3 DEF Debit
      <3>2. Price(r) \in Nat /\ CallOK(req[r])
        BY <1>1, <3>1, CallPrices DEF GatewayOK, CallsOK
      <3>3. cut \in Amounts
        BY <2>2, <3>1, <3>2, SplitCovers, ChargesAreAmounts DEF CallOK, Price
      <3> HIDE DEF cut
      <3> QED BY <1>1, <2>2, <3>1, <3>3, PostingsKeepDrift
    <2>4. ASSUME NEW k \in Stages, Refund(req[r].user, req[r].held[k])
          PROVE  \A u \in Users : Drift(u)' = Drift(u)
      BY <1>1, <2>2, <2>4, PostingsKeepDrift
    <2>5. 1 \in Stages
      BY DEF Stages
    <2> QED BY <2>1, <2>2, <2>3, <2>4, <2>5 DEF RefundStage, RefundBase
  <1> QED BY <1>2, <1>3

\* Balances and transaction rows only come apart where the job writes over a
\* balance that changed after it was read.
THEOREM DriftOnlyFromStaleJob == Spec => DriftNeedsStaleJob
  <1> DEFINE Explained ==
               \A u \in Users : Drift(u)' # Drift(u) =>
                   /\ job.pc \in {"reset", "roll"}
                   /\ job.user = u
                   /\ job.row # balance[u]
  <1>1. ASSUME IInv, Next PROVE Explained
    <2>1. StoreTypeOK
      BY <1>1 DEF IInv, StoreOK
    <2>2. balance' = balance /\ ledger' = ledger => Explained
      BY DEF Drift, LedgerBalance
    <2>3. (\A u \in Users : Drift(u)' = Drift(u)) => Explained
      OBVIOUS
    <2>4. ASSUME NEW v \in Users, NEW p \in Pools, NEW n \in GrantAmounts,
                 Grant(v, Only(p, n))
          PROVE  Explained
      <3>1. Only(p, n) \in Amounts
        BY SystemAssumption, OnlyIsAmounts
      <3> QED BY <2>1, <2>3, <2>4, <3>1, PostingsKeepDrift
    <2>5. JobStep => Explained
      BY <1>1, JobDriftIsStale
    <2>6. GatewayNext({v \in Users : active[v]}) => Explained
      BY <1>1, <2>3, GatewayKeepsDrift
    <2>7. "subscription" \in Pools
      BY DEF Pools
    <2> HIDE DEF Explained
    <2>8. \/ GatewayNext({v \in Users : active[v]})
          \/ JobStep
          \/ \E v \in Users, p \in Pools, n \in GrantAmounts : Grant(v, Only(p, n))
          \/ balance' = balance /\ ledger' = ledger
      BY <1>1, <2>7
         DEF Next, AdminGrant, Pay, PaySubscription, Cancel, CancelSubscription,
             ChangeStatus, SetActive, Cron, Midnight, Job, JobFails, JobError, Crash, storeVars
    <2> QED BY <2>2, <2>4, <2>5, <2>6, <2>8
  <1>2. IInv /\ [Next]_vars => [Explained]_vars
    BY <1>1
  <1>3. Spec => [][Explained]_vars
    BY <1>2, InvariantHolds, PTL DEF Spec
  <1> QED BY <1>3 DEF DriftNeedsStaleJob
=============================================================================
