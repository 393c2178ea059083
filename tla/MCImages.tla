------------------------------- MODULE MCImages -------------------------------
(***************************************************************************)
(* The public image API: the free calls of a day, and the two services     *)
(* that make the images, each on its own.  A behaviour picks one part and  *)
(* takes only its steps.                                                   *)
(***************************************************************************)
EXTENDS AnonymousQuota, KlingImages, ReplicateImages

CONSTANTS t1, t2        \* two themes

VARIABLE part

allVars == <<part, vars, klingVars, repVars>>

\* A decoration with a theme given twice and an empty one, and a call that does
\* not wait for its image.
SomeWishes ==
    {[themes |-> <<t1, t1, Blank, t2>>, images |-> 1, sync |-> TRUE],
     [themes |-> <<>>, images |-> 2, sync |-> FALSE]}

AllInit ==
    /\ part \in {"quota", "kling", "replicate"}
    /\ Init /\ KlingInit /\ RepInit
    /\ part # "replicate" => integration.token

NextOf(p) ==
    /\ part = p /\ UNCHANGED part
    /\ IF p = "quota" THEN Next ELSE UNCHANGED vars
    /\ IF p = "kling" THEN KlingNext ELSE UNCHANGED klingVars
    /\ IF p = "replicate" THEN RepNext ELSE UNCHANGED repVars

AllNext == NextOf("quota") \/ NextOf("kling") \/ NextOf("replicate")

AllSpec == AllInit /\ [][AllNext]_allVars
=============================================================================
