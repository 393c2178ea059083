------------------------------- MODULE Settings -------------------------------
(***************************************************************************)
(* The settings of an integration: one row that every application shares,  *)
(* and the browser windows in which administrators change it.  A window    *)
(* has a list with the switch of the integration and a dialog that loads   *)
(* the row into its inputs.  A form of the dialog sends all of its plain   *)
(* inputs, and a secret only when one was typed; the server merges what it *)
(* was sent into the row: it reads, changes its copy, and writes it.       *)
(*                                                                         *)
(* What a window has asked for is a call, which goes on when the dialog is *)
(* closed; calls of one window overlap.  The Kling dialog has one form;    *)
(* the Replicate dialog has one for switch and token and one for models,   *)
(* which does not close it.  The dialogs of mail, the payments and the     *)
(* background removal are the Kling dialog without a model.  Of a field 0  *)
(* is the value never set; of a model 1 is the default of the code, and    *)
(* Foreign is one the screen does not offer (Kling), or an old reference   *)
(* that the server takes for the default (Replicate).                      *)
(***************************************************************************)
EXTENDS Integers

CONSTANTS
    Windows,        \* browser windows of administrators
    Calls,          \* bound of the calls on their way at once
    MaxTyped,       \* bound of edits and clicks, all windows together
    MaxLost         \* bound of requests and answers that fail

ASSUME SettingsAssumption == {MaxTyped, MaxLost} \subseteq Nat

VARIABLES
    what,           \* the integration
    setting,        \* its row
    switch,         \* of a window: the switch as its list shows it
    form,           \* of a window: its dialog
    call,           \* the calls on their way
    typed, lost     \* counts of MaxTyped and of MaxLost

settingsVars == <<what, setting, switch, form, call, typed, lost>>

-------------------------------------------------------------------------------
Fields == {"enabled", "model", "token"}
Foreign == 3
Values == 0 .. 3

\* The forms of a dialog, as the sets of their fields.
Forms == IF what = "kling" THEN {Fields} ELSE {{"enabled", "token"}, {"model"}}

\* onSaved is not called by the form of the models.
Closes(fields) == "enabled" \in fields

\* A model as the form shows it: getSettingsForAdmin puts the default in the
\* place of one that is not set or out of date, pickModel in the place of one
\* that is not among its options.
Shown(v) == IF v \in {0, Foreign} THEN 1 ELSE v

\* What an administrator can enter.
Entered(f) ==
    CASE f = "enabled" -> {0, 1}
      [] f = "model" -> IF what = "kling" THEN {1, 2} ELSE {0, 1, 2}
      [] f = "token" -> {0, 1, 2}

\* A dialog: its number, its inputs, those edited since they were loaded, and
\* whether they were.  Of a dialog and of a call, had is a history: the values
\* each field had since the inputs were read, or since the click.
Mounted == [f \in Fields |-> IF f = "model" THEN 1 ELSE 0]
Nothing == [f \in Fields |-> {}]
Now == [f \in Fields |-> {setting[f]}]

Closed(n) == [no |-> n, at |-> "closed", input |-> Mounted, edited |-> {},
              loaded |-> FALSE, had |-> Nothing]

\* A call: its window, the dialog it belongs to, what it sends and what of it
\* was edited, the row it has read, and whether the dialog closes afterwards.
NoCall == [kind |-> "none"]
CallFor(k, w, n, body, edited, loaded, had, closes) ==
    [kind |-> k, at |-> "sent", window |-> w, no |-> n, body |-> body, edited |-> edited,
     loaded |-> loaded, had |-> had, copy |-> Mounted, closes |-> closes]
NoBody == [f \in {} |-> 0]
Asks(k, w, n, closes) == CallFor(k, w, n, NoBody, {}, FALSE, Nothing, closes)

Patches == {"toggle", "save", "orphan"}
Bodies == UNION {[d -> Values] : d \in SUBSET Fields}
Histories == [Fields -> SUBSET Values]

FormRecords ==
    [no : Nat, at : {"closed", "loading", "ready", "saving"}, input : [Fields -> Values],
     edited : SUBSET Fields, loaded : BOOLEAN, had : Histories]

CallRecords ==
    [kind : Patches \cup {"list", "load"}, at : {"sent", "merging", "answering"},
     window : Windows, no : Nat, body : Bodies, edited : SUBSET Fields, loaded : BOOLEAN,
     had : Histories, copy : [Fields -> Values], closes : BOOLEAN]

SettingsTypeOK ==
    /\ what \in {"kling", "replicate"} /\ setting \in [Fields -> Values]
    /\ switch \in [Windows -> {0, 1}] /\ form \in [Windows -> FormRecords]
    /\ call \in [Calls -> CallRecords \cup {NoCall}]
    /\ typed \in 0 .. MaxTyped /\ lost \in 0 .. MaxLost

\* The lists have been fetched, and every dialog is closed.
SettingsInit ==
    /\ what \in {"kling", "replicate"}
    /\ setting \in [Fields -> Values]
    /\ setting["enabled"] \in {0, 1} /\ setting["token"] \in {0, 1}
    /\ switch = [w \in Windows |-> setting["enabled"]]
    /\ form = [w \in Windows |-> Closed(0)]
    /\ call = [c \in Calls |-> NoCall]
    /\ typed = 0 /\ lost = 0

Touch == typed < MaxTyped /\ typed' = typed + 1
Lose == lost < MaxLost /\ lost' = lost + 1
Begin(c, r) == call[c] = NoCall /\ call' = [call EXCEPT ![c] = r]
At(c, kinds, at) == call[c].kind \in kinds /\ call[c].at = at

-------------------------------------------------------------------------------
\* What an administrator does.

\* toggleEnabled: the opposite of the switch as shown is sent.  The button is
\* disabled while its call runs, until another integration is switched.
Toggle(w, c) ==
    /\ form[w].at = "closed" /\ Touch
    /\ Begin(c, CallFor("toggle", w, 0, [f \in {"enabled"} |-> 1 - switch[w]],
                        {"enabled"}, TRUE, Now, FALSE))
    /\ UNCHANGED <<what, setting, switch, form, lost>>

\* The dialog is mounted with the defaults in its inputs, and loads the row.
Open(w, c) ==
    /\ form[w].at = "closed" /\ Touch
    /\ form' = [form EXCEPT ![w] = [Closed(form[w].no + 1) EXCEPT !.at = "loading"]]
    /\ Begin(c, Asks("load", w, form[w].no + 1, FALSE))
    /\ UNCHANGED <<what, setting, switch, lost>>

\* Its calls go on when it is closed.
Close(w) ==
    /\ form[w].at # "closed"
    /\ form' = [form EXCEPT ![w] = Closed(form[w].no)]
    /\ UNCHANGED <<what, setting, switch, call, typed, lost>>

\* An input is edited, also while a save is on its way.
Edit(w) ==
    /\ form[w].at \in {"ready", "saving"} /\ Touch
    /\ \E f \in Fields : \E v \in Entered(f) \ {form[w].input[f]} :
           form' = [form EXCEPT ![w].input[f] = v, ![w].edited = @ \cup {f}]
    /\ UNCHANGED <<what, setting, switch, call, lost>>

\* What handleSave sends: the plain inputs, and a secret that was typed.
SentOf(w, fields) == {f \in fields : f = "token" => form[w].input[f] # 0}

Save(w, c) ==
    /\ form[w].at = "ready" /\ Touch
    /\ \E fields \in Forms : LET sent == SentOf(w, fields) IN
           Begin(c, CallFor("save", w, form[w].no, [f \in sent |-> form[w].input[f]],
                            form[w].edited \cap sent, form[w].loaded, form[w].had,
                            Closes(fields)))
    /\ form' = [form EXCEPT ![w].at = "saving"]
    /\ UNCHANGED <<what, setting, switch, lost>>

\* handleClear...: the stored secret is sent empty.
Clear(w, c) ==
    /\ form[w].at = "ready" /\ Touch
    /\ Begin(c, CallFor("save", w, form[w].no, [f \in {"token"} |-> 0], {"token"},
                        form[w].loaded, form[w].had, TRUE))
    /\ form' = [form EXCEPT ![w].at = "saving"]
    /\ UNCHANGED <<what, setting, switch, lost>>

-------------------------------------------------------------------------------
\* The server: mergeConfig, and the readings of the row.

GetConfig(c) ==
    /\ At(c, Patches, "sent")
    /\ call' = [call EXCEPT ![c].at = "merging", ![c].copy = setting]
    /\ UNCHANGED <<what, setting, switch, form, typed, lost>>

\* Mutant: what was sent replaces the row.
MergedAlone(copy, body) == [f \in Fields |-> IF f \in DOMAIN body THEN body[f] ELSE 0]

Merged(copy, body) == [f \in Fields |-> IF f \in DOMAIN body THEN body[f] ELSE copy[f]]

\* A history that began goes on with what is written.
Longer(had, row) == [f \in Fields |-> IF had[f] = {} THEN {} ELSE had[f] \cup {row[f]}]

Remember(d) ==
    IF d = NoCall THEN NoCall ELSE [d EXCEPT !.had = Longer(@, setting')]

MergeConfig(c) ==
    /\ At(c, Patches, "merging")
    /\ setting' = Merged(call[c].copy, call[c].body)
    /\ call' = [d \in Calls |-> IF d = c THEN [call[c] EXCEPT !.at = "answering"]
                                ELSE Remember(call[d])]
    /\ form' = [w \in Windows |-> [form[w] EXCEPT !.had = Longer(@, setting')]]
    /\ UNCHANGED <<what, switch, typed, lost>>

ReadRow(c) ==
    /\ At(c, {"list", "load"}, "sent")
    /\ call' = [call EXCEPT ![c].at = "answering", ![c].copy = setting, ![c].had = Now]
    /\ UNCHANGED <<what, setting, switch, form, typed, lost>>

-------------------------------------------------------------------------------
\* The answers.  A call knows whether the dialog it belongs to is still there.

There(c) == /\ form[call[c].window].no = call[c].no
            /\ form[call[c].window].at # "closed"

\* fetchOverview sets the switch of the list.
ListShown(c) ==
    /\ At(c, {"list"}, "answering")
    /\ switch' = [switch EXCEPT ![call[c].window] = call[c].copy["enabled"]]
    /\ call' = [call EXCEPT ![c] = NoCall]
    /\ UNCHANGED <<what, setting, form, typed, lost>>

\* load sets all inputs and empties the secret.
Filled(c) ==
    LET w == call[c].window IN
    [form[w] EXCEPT !.at = "ready", !.edited = {}, !.loaded = TRUE, !.had = call[c].had,
                    !.input = [enabled |-> call[c].copy["enabled"],
                               model |-> Shown(call[c].copy["model"]), token |-> 0]]

\* After a save, afterPanelSave fetches the list and closes the dialog: the one
\* that is open by now.
Afterwards(c, r) ==
    LET w == call[c].window IN
    IF call[c].closes
    THEN /\ form' = [form EXCEPT ![w] = Closed(form[w].no)]
         /\ call' = [call EXCEPT ![c] = Asks("list", w, 0, FALSE)]
    ELSE /\ form' = [form EXCEPT ![w] = IF There(c) THEN r ELSE form[w]]
         /\ call' = [call EXCEPT ![c] = NoCall]

Loaded(c) ==
    /\ At(c, {"load"}, "answering")
    /\ Afterwards(c, Filled(c))
    /\ UNCHANGED <<what, setting, switch, typed, lost>>

\* A dialog whose save was answered loads the row again, a switch the list.
Answered(c) ==
    LET w == call[c].window IN
    /\ At(c, Patches, "answering")
    /\ call' = [call EXCEPT ![c] =
           CASE call[c].kind = "toggle" -> Asks("list", w, 0, FALSE)
             [] call[c].kind = "save" -> Asks("load", w, call[c].no, call[c].closes)
             [] call[c].kind = "orphan" -> NoCall]
    /\ form' = IF call[c].kind = "save" /\ There(c)
               THEN [form EXCEPT ![w] = [form[w] EXCEPT
                         !.at = "loading", !.input["token"] = 0,
                         !.edited = form[w].edited \ {"token"}]]
               ELSE form
    /\ UNCHANGED <<what, setting, switch, typed, lost>>

\* A list that cannot be fetched stays as it is.
ListFails(c) ==
    /\ call[c].kind = "list" /\ Lose
    /\ call' = [call EXCEPT ![c] = NoCall]
    /\ UNCHANGED <<what, setting, switch, form, typed>>

\* load catches its error: the inputs stay as they are and are shown, and what
\* comes afterwards does come.
LoadFails(c) ==
    /\ call[c].kind = "load" /\ Lose
    /\ Afterwards(c, [form[call[c].window] EXCEPT !.at = "ready"])
    /\ UNCHANGED <<what, setting, switch, typed>>

\* The request or its answer is lost, or the server fails: the inputs stay and
\* nothing is loaded.  The server may be at it all the same.
PatchFails(c) ==
    /\ call[c].kind \in {"toggle", "save"} /\ Lose
    /\ \E r \in {NoCall, [call[c] EXCEPT !.kind = "orphan"]} :
           call' = [call EXCEPT ![c] = r]
    /\ form' = IF call[c].kind = "save" /\ There(c)
               THEN [form EXCEPT ![call[c].window].at = "ready"] ELSE form
    /\ UNCHANGED <<what, setting, switch, typed>>

Uses(w, c) == Toggle(w, c) \/ Open(w, c) \/ Save(w, c) \/ Clear(w, c)
Serves(c) == GetConfig(c) \/ MergeConfig(c) \/ ReadRow(c)
Returns(c) == ListShown(c) \/ Loaded(c) \/ Answered(c)
Fails(c) == ListFails(c) \/ LoadFails(c) \/ PatchFails(c)

SettingsNext ==
    \/ \E w \in Windows : Close(w) \/ Edit(w) \/ \E c \in Calls : Uses(w, c)
    \/ \E c \in Calls : Serves(c) \/ Returns(c) \/ Fails(c)

-------------------------------------------------------------------------------
(* Safety *)

\* What a call may write into a field: a value the field had since the call's
\* form read it, and a model as the form shows it.
Kept(c) ==
    [f \in Fields |-> call[c].had[f] \cup
        (IF f = "model" THEN {Shown(v) : v \in call[c].had[f]} ELSE {})]

\* A write leaves a field that its author has not edited as it was, or puts
\* back a value that it had since the author's form was loaded (and that
\* someone else has changed since): no form sends a secret it was not given or
\* an input of another dialog, and what the merge does not send it keeps.  Only
\* a form whose row could not be loaded, and shows defaults, writes those.
UneditedStays ==
    [][\A c \in Calls :
           /\ At(c, Patches, "merging") /\ call[c].loaded
           /\ call'[c] = [call[c] EXCEPT !.at = "answering"]
           => \A f \in Fields \ call[c].edited : setting'[f] \in Kept(c)[f]]_settingsVars

SettingsSpec == SettingsInit /\ [][SettingsNext]_settingsVars
===============================================================================
