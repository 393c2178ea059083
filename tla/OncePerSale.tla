---------------------------- MODULE OncePerSale ----------------------------
(***************************************************************************)
(* What a payment webhook promises: the credits of a sale are granted once *)
(* and never again, and only when there was a sale.                        *)
(***************************************************************************)
EXTENDS Naturals

CONSTANT Sales

VARIABLES
    sold,               \* the sales the gateway made
    granted             \* granted[s]: how often the credits of s were granted

onceVars == <<sold, granted>>

Init == sold = {} /\ granted = [s \in Sales |-> 0]

Sell(s) ==
    /\ sold' = sold \cup {s}
    /\ UNCHANGED granted

GrantOnce(s) ==
    /\ s \in sold
    /\ granted[s] = 0
    /\ granted' = [granted EXCEPT ![s] = 1]
    /\ UNCHANGED sold

Next == \E s \in Sales : Sell(s) \/ GrantOnce(s)

Spec == Init /\ [][Next]_onceVars
=============================================================================
