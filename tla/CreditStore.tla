---------------------------- MODULE CreditStore ----------------------------
(***************************************************************************)
(* The tables credit_accounts and credit_transactions, and the database    *)
(* transactions that the services of the platform commit on them.          *)
(*                                                                         *)
(* A CreditAccount row is (hasRow, balance, totalEarned, totalSpent).  The *)
(* CreditTransaction rows of an account are append only; what the other    *)
(* parts and the properties tell apart is their sum per type and pool, so  *)
(* ledger[u][t] holds that sum, with the sign the rows carry: grants and   *)
(* refunds are positive, deductions and expiries negative.                 *)
(*                                                                         *)
(* Each operator below is one COMMITTED transaction.  A column the code    *)
(* writes with { increment } or { decrement } changes relative to its      *)
(* value at commit; a column written with a computed value is set to it.   *)
(***************************************************************************)
EXTENDS CreditPools

CONSTANT Users          \* pairs (userId, appId) of the accounts

ASSUME UsersAssumption == Users # {}

VARIABLES
    hasRow,             \* hasRow[u]: the CreditAccount row of u exists
    balance,            \* balance[u]: its three pools
    totalEarned,        \* totalEarned[u], totalSpent[u]: its running totals
    totalSpent,
    ledger              \* ledger[u][t]: sum of u's CreditTransaction rows

storeVars == <<hasRow, balance, totalEarned, totalSpent, ledger>>

\* enum TransactionType
TransactionTypes == {"grant", "deduct", "expire", "refund"}

StoreTypeOK ==
    /\ hasRow \in [Users -> BOOLEAN]
    /\ balance \in [Users -> Amounts]
    /\ totalEarned \in [Users -> Int]
    /\ totalSpent \in [Users -> Int]
    /\ ledger \in [Users -> [TransactionTypes -> Amounts]]

\* End users created by an administrator have no account row until it is
\* first needed; registration creates one together with the user.
StoreInit ==
    /\ hasRow \in [Users -> BOOLEAN]
    /\ balance = [u \in Users |-> Nothing]
    /\ totalEarned = [u \in Users |-> 0]
    /\ totalSpent = [u \in Users |-> 0]
    /\ ledger = [u \in Users |-> [t \in TransactionTypes |-> Nothing]]

\* A CreditTransaction row (rows, when a charge is cut over several pools).
Record(u, type, amounts) ==
    ledger' = [ledger EXCEPT ![u][type] = Plus(@, amounts)]

\* The row is created on first use, with every column at its default 0.
EnsureRow(u) == hasRow' = [hasRow EXCEPT ![u] = TRUE]

\* Credits bought, granted by an administrator or given at registration.
Grant(u, amounts) ==
    /\ EnsureRow(u)
    /\ balance' = [balance EXCEPT ![u] = Plus(@, amounts)]
    /\ totalEarned' = [totalEarned EXCEPT ![u] = @ + Total(amounts)]
    /\ Record(u, "grant", amounts)
    /\ UNCHANGED totalSpent

\* A deduction: pools decremented by a cut computed earlier, totalSpent
\* incremented by the amount asked for.
Deduct(u, cut, amount) ==
    /\ balance' = [balance EXCEPT ![u] = Minus(@, cut)]
    /\ totalSpent' = [totalSpent EXCEPT ![u] = @ + amount]
    /\ Record(u, "deduct", Minus(Nothing, cut))
    /\ UNCHANGED <<hasRow, totalEarned>>

\* A refund that always goes to the permanent pool.
RefundToPayg(u, cut) ==
    /\ balance' = [balance EXCEPT ![u] = Plus(@, Only("payg", Total(cut)))]
    /\ totalSpent' = [totalSpent EXCEPT ![u] = @ - Total(cut)]
    /\ Record(u, "refund", Only("payg", Total(cut)))
    /\ UNCHANGED <<hasRow, totalEarned>>

\* The refund of a failed call, into the pools it was taken from.
Refund(u, cut) ==
    /\ balance' = [balance EXCEPT ![u] = Plus(@, cut)]
    /\ totalSpent' = [totalSpent EXCEPT ![u] = @ - Total(cut)]
    /\ Record(u, "refund", cut)
    /\ UNCHANGED <<hasRow, totalEarned>>

\* What the account's transaction rows add up to, pool by pool.
LedgerBalance(u) ==
    Plus(Plus(ledger[u]["grant"], ledger[u]["refund"]),
         Plus(ledger[u]["deduct"], ledger[u]["expire"]))

\* The part of a balance no transaction row accounts for.
Drift(u) == Minus(balance[u], LedgerBalance(u))
=============================================================================
