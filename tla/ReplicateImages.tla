--------------------------- MODULE ReplicateImages ---------------------------
(***************************************************************************)
(* The image services that wait for somebody else's result: the models run *)
(* at Replicate (ReplicateService: upscaling, inpainting, headshots,       *)
(* colouring, scratch repair) and the background removal that is proxied   *)
(* to another server (RemoveBackgroundService.proxyRemoveBackground).      *)
(*                                                                         *)
(* A call reads the settings, then the token in a second read, picks the   *)
(* model and starts one prediction, or several at once for headshots.      *)
(* Every prediction ends with an image, with an output that holds none, or *)
(* with an error; the call answers when all of them have ended.            *)
(***************************************************************************)
EXTENDS Naturals, Sequences, FiniteSets, FiniteSetsExt

CONSTANTS
    RepCalls,           \* calls
    MaxSwitches         \* bound of the changes of the settings

ASSUME RepAssumption == MaxSwitches \in Nat /\ RepCalls # {}

VARIABLES
    integration,        \* the row replicate: [enabled, token]
    run,                \* run[c]: the state of call c
    switches            \* changes of the settings so far

repVars == <<integration, run, switches>>

Models == {"face", "general", "anime"}
Outcomes == {"image", "blank", "error"}

\* What may be asked for: the service, how many images, the kind of picture an
\* upscaling is for ("auto" lets a caption decide), and whether there is a
\* picture (and a mask, if one is needed) at all.
RepAsks ==
    [service : {"inpaint", "colorize", "scratch", "cutout"}, outputs : {1}, type : {"none"},
     image : BOOLEAN]
      \cup [service : {"upscale"}, outputs : {1}, type : Models \cup {"auto"}, image : BOOLEAN]
      \cup [service : {"headshot"}, outputs : {1, 2, 4}, type : {"none"}, image : BOOLEAN]

\* At least one and at most four headshots.
Outputs(ask) == Min({Max({ask.outputs, 1}), 4})

Unasked == [pc |-> "idle",
         ask |-> [service |-> "colorize", outputs |-> 1, type |-> "none", image |-> TRUE],
         token |-> FALSE, model |-> "none", preds |-> <<>>, urls |-> {}]

RepInit ==
    /\ integration \in [enabled : {TRUE}, token : BOOLEAN]
    /\ run = [c \in RepCalls |-> Unasked]
    /\ switches = 0

Request(c, ask) ==
    /\ run[c].pc = "idle"
    /\ run' = [run EXCEPT ![c].pc = "settings", ![c].ask = ask]
    /\ UNCHANGED <<integration, switches>>

RepMove(c, from, r) ==
    /\ run[c].pc = from
    /\ run' = [run EXCEPT ![c] = r]
    /\ UNCHANGED <<integration, switches>>

RepFailed(c) == [run[c] EXCEPT !.pc = "failed"]

\* getSettingsForAdmin, before any of the Replicate services.
AssertReady(c) ==
    /\ run[c].ask.service # "cutout"
    /\ RepMove(c, "settings",
            IF integration.enabled /\ integration.token
              THEN [run[c] EXCEPT !.pc = "token"] ELSE RepFailed(c))

\* After the settings: without a picture the call is refused.
AfterToken(ask) ==
    IF ~ask.image THEN "failed" ELSE IF ask.type = "auto" THEN "detect" ELSE "start"

\* The token itself is read a second time.
ReadToken(c) ==
    RepMove(c, "token",
         [run[c] EXCEPT !.pc = AfterToken(run[c].ask),
                        !.token = integration.token,
                        !.model = IF run[c].ask.type = "auto" THEN "none" ELSE run[c].ask.type])

\* proxyRemoveBackground: the image is fetched or decoded, the settings are
\* read, and the image is posted with the stored credentials.
ReadCutout(c) ==
    /\ run[c].ask.service = "cutout"
    /\ \/ RepMove(c, "settings", RepFailed(c))
       \/ RepMove(c, "settings", [run[c] EXCEPT !.pc = "start", !.token = TRUE])

\* detectImageType: a caption names the kind; without one it is general.
Detect(c) ==
    \E m \in Models : RepMove(c, "detect", [run[c] EXCEPT !.pc = "start", !.model = m])

\* The predictions are started together; without a token each is refused.
StartPredictions(c) ==
    RepMove(c, "start",
         [run[c] EXCEPT !.pc = "wait",
                        !.preds = [k \in 1..Outputs(run[c].ask) |->
                                     IF run[c].token THEN "running" ELSE "error"]])

\* The other side ends a prediction.
EndPrediction(c, k, o) ==
    /\ run[c].pc = "wait"
    /\ run[c].preds[k] = "running"
    /\ run' = [run EXCEPT ![c].preds[k] = o]
    /\ UNCHANGED <<integration, switches>>

MadeImages(preds) == {k \in DOMAIN preds : preds[k] = "image"}

\* A wrong RepAnswer: one prediction that fails takes the others with it.
RepAnswerOfAll(c, urls) ==
    IF Cardinality(urls) = Len(run[c].preds) THEN "ok" ELSE "failed"

\* The outputs that hold an image are the answer; when there is none the
\* call fails.  A cutout is answered with whatever body came back.
RepAnswer(c, urls) ==
    IF urls # {} \/ (run[c].ask.service = "cutout" /\ run[c].preds[1] = "blank")
      THEN "ok" ELSE "failed"

FinishCall(c) ==
    LET urls == MadeImages(run[c].preds)
    IN  /\ \A k \in DOMAIN run[c].preds : run[c].preds[k] # "running"
        /\ RepMove(c, "wait", [run[c] EXCEPT !.pc = RepAnswer(c, urls), !.urls = urls])

\* patchAdminSettings
PatchReplicate(new) ==
    /\ switches < MaxSwitches
    /\ new # integration
    /\ integration' = new
    /\ switches' = switches + 1
    /\ UNCHANGED run

RepStep(c) ==
    \/ AssertReady(c) \/ ReadToken(c) \/ ReadCutout(c) \/ Detect(c) \/ StartPredictions(c) \/ FinishCall(c)

RepNext ==
    \/ \E c \in RepCalls :
         \/ \E ask \in RepAsks : Request(c, ask)
         \/ RepStep(c)
         \/ \E k \in DOMAIN run[c].preds, o \in Outcomes : EndPrediction(c, k, o)
    \/ \E new \in [enabled : BOOLEAN, token : BOOLEAN] : PatchReplicate(new)

RepSpec == RepInit /\ [][RepNext]_repVars

-----------------------------------------------------------------------------
(* A call of Replicate that succeeds, and so keeps its credit, answers at  *)
(* least one image, and only images of its own predictions that ended well *)
(* (missingOutput, the collection of the headshots).                       *)
SuccessHasImage ==
    \A c \in RepCalls :
      run[c].pc = "ok" /\ run[c].ask.service # "cutout" =>
        /\ run[c].urls # {}
        /\ \A k \in run[c].urls : run[c].preds[k] = "image"

(* Once the predictions are started the call fails, and the credit is given *)
(* back, only if none of them made an image: one failed headshot of four   *)
(* does not take the other three away (Promise.allSettled).                *)
NothingMadeIsLost ==
    \A c \in RepCalls :
      run[c].pc = "failed" /\ run[c].preds # <<>> => MadeImages(run[c].preds) = {}

(* A failure before the predictions is one of the settings, or of a call   *)
(* without a picture: not being able to tell what a picture shows never    *)
(* fails an upscaling (detectImageType answers "general").                 *)
DetectionNeverFails ==
    \A c \in RepCalls :
      run[c].pc = "failed" /\ run[c].preds = <<>> =>
        ~run[c].token \/ ~run[c].ask.image \/ run[c].ask.service = "cutout"

(* A call keeps its credit exactly when it made an image, but for failures *)
(* of the settings before anything was made.                               *)
OutcomeFitsImages == SuccessHasImage /\ NothingMadeIsLost /\ DetectionNeverFails

=============================================================================
