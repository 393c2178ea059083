------------------------------- MODULE MCAccounts -------------------------------
(***************************************************************************)
(* The accounts of the platform: the sign-in of its users and that of its  *)
(* administrators with what they may change, each on its own.  A behaviour *)
(* picks one part and takes only its steps.                                *)
(***************************************************************************)
EXTENDS Registration, Console, TLC

VARIABLE part

allVars == <<part, vars, consoleVars>>

AllInit ==
    /\ part \in {"users", "console"}
    /\ Init /\ ConsoleInit
    /\ part # "console" => spent = {}

NextOf(p) ==
    /\ part = p /\ UNCHANGED part
    /\ IF p = "users" THEN Next ELSE UNCHANGED vars
    /\ IF p = "console" THEN ConsoleNext ELSE UNCHANGED consoleVars

AllNext == NextOf("users") \/ NextOf("console")

AllSpec == AllInit /\ [][AllNext]_allVars

Swaps == Permutations(Requests) \cup Permutations(Ids) \cup Permutations(ConsoleCalls)
=============================================================================
