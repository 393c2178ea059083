------------------------------- MODULE MCScreens -------------------------------
(***************************************************************************)
(* The screens of the console: the settings and the tables, each on its    *)
(* own.  A behaviour picks one part and takes only its steps.              *)
(***************************************************************************)
EXTENDS Settings, Pages, TLC

VARIABLE part

allVars == <<part, settingsVars, pagesVars>>

\* What a behaviour is not about has one beginning.
Init ==
    /\ part \in {"settings", "pages"}
    /\ SettingsInit /\ PagesInit
    /\ part # "settings" => what = "kling" /\ setting = Mounted
    /\ part # "pages" => table = PlansPage /\ query.size = 1

NextOf(p) ==
    /\ part = p /\ UNCHANGED part
    /\ IF p = "settings" THEN SettingsNext ELSE UNCHANGED settingsVars
    /\ IF p = "pages" THEN PagesNext ELSE UNCHANGED pagesVars

Next == NextOf("settings") \/ NextOf("pages")

Spec == Init /\ [][Next]_allVars

Swaps == Permutations(Windows) \cup Permutations(Calls)
=============================================================================
