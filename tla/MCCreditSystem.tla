--------------------------- MODULE MCCreditSystem ---------------------------
(***************************************************************************)
(* Values of the constants of CreditSystem that a .cfg cannot write.       *)
(***************************************************************************)
EXTENDS CreditSystem

\* An endpoint of two credits, and the colorize pipeline with both add-ons:
\* enough for a charge that spans two pools, for two calls that race for the
\* last credit, and for every way a pipeline fails.
RacingPlans == {<<2>>, <<1, 1, 2>>}

OnePlan == {<<1>>}
=============================================================================
