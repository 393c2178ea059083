------------------------------- MODULE MCReaders -------------------------------
(***************************************************************************)
(* The readers of AI News: their purchases, the guests they were, and the  *)
(* mails they get, each on its own.  A behaviour picks one part and takes  *)
(* only its steps.  At the start of the digest one reader pays; who pays   *)
(* changes from then on.                                                   *)
(***************************************************************************)
EXTENDS AinewsRelay, AinewsGuests, AinewsDigest

VARIABLE part

vars == <<part, relayVars, guestVars, digestVars>>

Init ==
    /\ part \in {"relay", "guests", "digest"}
    /\ RelayInit /\ GuestsInit /\ DigestInit
    /\ IF part = "digest" THEN Cardinality(paying) = 1
       ELSE paying = {} /\ \A u \in Readers : ~prefs[u].row

NextOf(p) ==
    /\ part = p /\ UNCHANGED part
    /\ IF p = "relay" THEN RelayNext ELSE UNCHANGED relayVars
    /\ IF p = "guests" THEN GuestsNext ELSE UNCHANGED guestVars
    /\ IF p = "digest" THEN DigestNext ELSE UNCHANGED digestVars

Next == NextOf("relay") \/ NextOf("guests") \/ NextOf("digest")

\* The fairness of each part, for the behaviours that picked it.
Spec ==
    /\ Init /\ [][Next]_vars
    /\ \A h \in Pings : WF_relayVars(part = "relay" /\ HandlePing(h))
    /\ \A s \in Sales :
          SF_relayVars(/\ part = "relay" /\ <<s, "bought">> \notin acked
                       /\ \E h \in Pings : ReceivePing(h, s, "bought"))
    /\ \A v \in Visits : WF_relayVars(part = "relay" /\ ServeVisit(v))
    /\ SF_relayVars(part = "relay" /\ \E v \in Visits : StartVisit(v))
    /\ WF_digestVars(part = "digest" /\ RunStep)
=============================================================================
