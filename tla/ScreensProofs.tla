----------------------------- MODULE ScreensProofs -----------------------------
(***************************************************************************)
(* Proofs about the console: the screens of the settings, the tables and   *)
(* the administration behind them, for any number of windows, rows, pages, *)
(* administrators and requests on their way.                               *)
(***************************************************************************)
EXTENDS Console, Settings, Pages, FiniteSetTheorems, TLAPS

-------------------------------------------------------------------------------
(* Settings: what makes the properties inductive. *)

\* What an unedited input, or an unedited field of a request, may hold of a
\* history.
MayHold(had, f) ==
    had[f] \cup (IF f = "model" THEN {Shown(v) : v \in had[f]} ELSE {})

Covers(row, had) == \A f \in Fields : row[f] \in had[f]
Covered(copy, had) == \A f \in Fields : copy[f] \in had[f]

\* A switch is on or off.
Bit == {0, 1}

\* An input that was loaded, and not edited since, is a value of its history.
FormFits(row, r) ==
    /\ r.input["enabled"] \in Bit
    /\ r.loaded =>
        /\ Covers(row, r.had)
        /\ \A f \in Fields \ r.edited :
               IF f = "token" THEN r.input[f] = 0 ELSE r.input[f] \in MayHold(r.had, f)

\* So is what a request sends unedited, and the row that a call has read.
SentFits(row, d) ==
    /\ d.kind # "none" => d.copy["enabled"] \in Bit
    /\ d.kind # "none" /\ "enabled" \in DOMAIN d.body => d.body["enabled"] \in Bit
    /\ d.kind \in Patches /\ d.loaded =>
           /\ d.at \in {"sent", "merging"} => Covers(row, d.had)
           /\ d.at = "merging" => Covered(d.copy, d.had)
           /\ \A f \in DOMAIN d.body \ d.edited : d.body[f] \in MayHold(d.had, f)
    /\ d.kind \in {"list", "load"} /\ d.at = "answering" =>
           Covers(row, d.had) /\ Covered(d.copy, d.had)

SettingsIInv ==
    /\ SettingsTypeOK /\ setting["enabled"] \in Bit
    /\ \A w \in Windows : FormFits(setting, form[w])
    /\ \A c \in Calls : SentFits(setting, call[c])

LEMMA CallRecordFields ==
    ASSUME NEW d \in CallRecords
    PROVE  /\ d.kind \in Patches \cup {"list", "load"} /\ d.kind # "none" /\ d # NoCall
           /\ d.at \in {"sent", "merging", "answering"} /\ d.window \in Windows /\ d.no \in Nat
           /\ d.body \in Bodies /\ d.edited \subseteq Fields /\ d.loaded \in BOOLEAN
           /\ d.had \in Histories /\ d.copy \in [Fields -> Values] /\ d.closes \in BOOLEAN
  <1>1. d.kind \in Patches \cup {"list", "load"} /\ d.kind # "none"
    BY DEF CallRecords, Patches
  <1>2. d # NoCall
    BY <1>1 DEF NoCall
  <1> QED BY <1>1, <1>2 DEF CallRecords

LEMMA FormRecordFields ==
    ASSUME NEW r \in FormRecords
    PROVE  /\ r.no \in Nat /\ r.input \in [Fields -> Values] /\ r.edited \subseteq Fields
           /\ r.loaded \in BOOLEAN /\ r.had \in Histories
           /\ r.at \in {"closed", "loading", "ready", "saving"}
  BY DEF FormRecords

LEMMA MountedFits ==
    /\ Mounted \in [Fields -> Values] /\ Mounted["token"] = 0 /\ Mounted["enabled"] \in Bit
    /\ Nothing \in Histories /\ NoBody \in Bodies
    /\ \A n \in Nat : /\ Closed(n) \in FormRecords /\ ~ Closed(n).loaded
                      /\ FormFits(setting, Closed(n)) /\ Closed(n).input = Mounted
    /\ SentFits(setting, NoCall)
  <1>1. Mounted \in [Fields -> Values] /\ Mounted["token"] = 0 /\ Mounted["enabled"] \in Bit
    BY DEF Mounted, Values, Fields, Bit
  <1>2. Nothing \in Histories
    BY DEF Nothing, Histories
  <1>3. NoBody \in Bodies
    <2>1. NoBody \in [{} -> Values] /\ {} \in SUBSET Fields
      BY DEF NoBody
    <2> QED BY <2>1 DEF Bodies
  <1>4. \A n \in Nat : Closed(n) \in FormRecords /\ ~ Closed(n).loaded
                       /\ Closed(n).input = Mounted
    BY <1>1, <1>2 DEF Closed, FormRecords
  <1>5. SentFits(setting, NoCall)
    BY DEF SentFits, NoCall, Patches
  <1> QED BY <1>1, <1>2, <1>3, <1>4, <1>5 DEF FormFits

\* What a call is when it is made.
LEMMA NewCall ==
    ASSUME NEW k \in Patches \cup {"list", "load"}, NEW w \in Windows, NEW n \in Nat,
           NEW body \in Bodies, NEW edited \in SUBSET Fields, NEW loaded \in BOOLEAN,
           NEW had \in Histories, NEW closes \in BOOLEAN
    PROVE  LET r == CallFor(k, w, n, body, edited, loaded, had, closes)
           IN  /\ r \in CallRecords /\ r.kind = k /\ r.at = "sent" /\ r.body = body
               /\ r.edited = edited /\ r.loaded = loaded /\ r.had = had
               /\ r.copy = Mounted
  BY MountedFits DEF CallFor, CallRecords

LEMMA AsksFit ==
    ASSUME NEW k \in {"list", "load"}, NEW w \in Windows, NEW n \in Nat, NEW closes \in BOOLEAN
    PROVE  Asks(k, w, n, closes) \in CallRecords /\ SentFits(setting, Asks(k, w, n, closes))
  <1>1. k \notin Patches
    BY DEF Patches
  <1>2. {} \in SUBSET Fields /\ FALSE \in BOOLEAN /\ k \in Patches \cup {"list", "load"}
    OBVIOUS
  <1> DEFINE r == CallFor(k, w, n, NoBody, {}, FALSE, Nothing, closes)
  <1>3. r \in CallRecords /\ r.kind = k /\ r.at = "sent" /\ r.copy = Mounted /\ r.body = NoBody
    BY <1>2, MountedFits DEF CallFor, CallRecords
  <1>4. Asks(k, w, n, closes) = r
    BY DEF Asks
  <1> HIDE DEF r
  <1>5. DOMAIN NoBody = {}
    BY DEF NoBody
  <1> QED BY <1>1, <1>3, <1>4, <1>5, MountedFits DEF SentFits

LEMMA ListAsked ==
    \A w \in Windows : /\ Asks("list", w, 0, FALSE) \in CallRecords
                       /\ SentFits(setting, Asks("list", w, 0, FALSE))
  BY AsksFit

\* A step that leaves the row alone.
LEMMA RowStays ==
    ASSUME SettingsIInv, UNCHANGED <<what, setting>>, switch' \in [Windows -> {0, 1}],
           call' \in [Calls -> CallRecords \cup {NoCall}],
           \A c \in Calls : SentFits(setting, call'[c]),
           form' \in [Windows -> FormRecords], \A w \in Windows : FormFits(setting, form'[w]),
           typed' \in 0 .. MaxTyped, lost' \in 0 .. MaxLost
    PROVE  SettingsIInv'
  <1>1. SettingsTypeOK'
    BY DEF SettingsIInv, SettingsTypeOK
  <1>2. setting' = setting /\ setting["enabled"] \in Bit
    BY DEF SettingsIInv
  <1> QED BY <1>1, <1>2 DEF SettingsIInv

LEMMA CallChanges ==
    ASSUME SettingsIInv, NEW c \in Calls, NEW r \in CallRecords \cup {NoCall}, SentFits(setting, r),
           call' = [call EXCEPT ![c] = r]
    PROVE  /\ call' \in [Calls -> CallRecords \cup {NoCall}]
           /\ \A d \in Calls : SentFits(setting, call'[d])
  BY DEF SettingsIInv, SettingsTypeOK

LEMMA FormChanges ==
    ASSUME SettingsIInv, NEW w \in Windows, NEW r \in FormRecords, FormFits(setting, r),
           form' = form \/ form' = [form EXCEPT ![w] = r]
    PROVE  form' \in [Windows -> FormRecords] /\ \A x \in Windows : FormFits(setting, form'[x])
  BY DEF SettingsIInv, SettingsTypeOK

\* What the lemmas about steps use of the invariant.
LEMMA SettingsFacts ==
    ASSUME SettingsIInv
    PROVE  /\ call \in [Calls -> CallRecords \cup {NoCall}]
           /\ \A c \in Calls : SentFits(setting, call[c])
           /\ form \in [Windows -> FormRecords] /\ \A w \in Windows : FormFits(setting, form[w])
           /\ switch \in [Windows -> {0, 1}] /\ setting \in [Fields -> Values]
           /\ setting["enabled"] \in Bit
           /\ typed \in 0 .. MaxTyped /\ lost \in 0 .. MaxLost
           /\ Touch => typed' \in 0 .. MaxTyped
           /\ Lose => lost' \in 0 .. MaxLost
  BY SettingsAssumption DEF SettingsIInv, SettingsTypeOK, Touch, Lose

LEMMA NowFits ==
    ASSUME SettingsIInv
    PROVE  Now \in Histories /\ Covers(setting, Now) /\ Covered(setting, Now)
  BY SettingsFacts DEF Now, Histories, Covers, Covered

LEMMA SettingsInitOK == SettingsInit => SettingsIInv
  <1> SUFFICES ASSUME SettingsInit PROVE SettingsIInv
    OBVIOUS
  <1>1. \A w \in Windows : form[w] = Closed(0) /\ switch[w] = setting["enabled"]
    BY DEF SettingsInit
  <1>2. \A c \in Calls : call[c] = NoCall
    BY DEF SettingsInit
  <1>3. form \in [Windows -> FormRecords]
    BY MountedFits DEF SettingsInit
  <1>4. SettingsTypeOK
    BY <1>3, SettingsAssumption DEF SettingsInit, SettingsTypeOK
  <1>5. setting["enabled"] \in Bit
    BY DEF SettingsInit, Bit
  <1> QED BY <1>1, <1>2, <1>4, <1>5, MountedFits DEF SettingsIInv

\* What an administrator does.
LEMMA ToggleKeeps ==
    ASSUME SettingsIInv, NEW w \in Windows, NEW c \in Calls, Toggle(w, c)
    PROVE  SettingsIInv'
  <1> DEFINE b == [f \in {"enabled"} |-> 1 - switch[w]]
             r == CallFor("toggle", w, 0, b, {"enabled"}, TRUE, Now, FALSE)
  <1>1. b \in Bodies /\ DOMAIN b = {"enabled"} /\ b["enabled"] \in Bit
    <2>1. b \in [{"enabled"} -> Values] /\ {"enabled"} \in SUBSET Fields
      BY SettingsFacts DEF Values, Fields
    <2>2. b["enabled"] \in Bit
      BY SettingsFacts DEF Bit
    <2> QED BY <2>1, <2>2 DEF Bodies
  <1> HIDE DEF b
  <1>2. /\ r \in CallRecords /\ r.kind = "toggle" /\ r.at = "sent" /\ r.body = b
        /\ r.edited = {"enabled"} /\ r.had = Now /\ r.copy = Mounted
    <2>1. /\ "toggle" \in Patches \cup {"list", "load"} /\ {"enabled"} \in SUBSET Fields
          /\ 0 \in Nat /\ TRUE \in BOOLEAN /\ FALSE \in BOOLEAN
      BY DEF Patches, Fields
    <2> QED BY <1>1, <2>1, NowFits, MountedFits DEF CallFor, CallRecords
  <1>3. call' = [call EXCEPT ![c] = r] /\ UNCHANGED <<what, setting, switch, form, lost>> /\ Touch
    BY DEF Toggle, Begin, b
  <1> HIDE DEF r
  <1>4. SentFits(setting, r)
    BY <1>1, <1>2, NowFits, MountedFits DEF SentFits
  <1> QED BY <1>2, <1>3, <1>4, CallChanges, SettingsFacts, RowStays

LEMMA OpenKeeps ==
    ASSUME SettingsIInv, NEW w \in Windows, NEW c \in Calls, Open(w, c)
    PROVE  SettingsIInv'
  <1> DEFINE n == form[w].no + 1
             q == [Closed(n) EXCEPT !.at = "loading"]
  <1>1. n \in Nat
    BY SettingsFacts, FormRecordFields
  <1>2. /\ form' = [form EXCEPT ![w] = q] /\ call' = [call EXCEPT ![c] = Asks("load", w, n, FALSE)]
        /\ UNCHANGED <<what, setting, switch, lost>> /\ Touch
    BY DEF Open, Begin
  <1> HIDE DEF n
  <1>3. q \in FormRecords /\ ~ q.loaded /\ q.input = Mounted
    BY <1>1, MountedFits DEF FormRecords
  <1> HIDE DEF q
  <1>4. FormFits(setting, q)
    BY <1>3, MountedFits DEF FormFits
  <1> QED BY <1>1, <1>2, <1>3, <1>4, AsksFit, CallChanges, FormChanges, SettingsFacts, RowStays

LEMMA CloseKeeps ==
    ASSUME SettingsIInv, NEW w \in Windows, Close(w)
    PROVE  SettingsIInv'
  <1>1. form[w].no \in Nat
    BY SettingsFacts, FormRecordFields
  <1>2. /\ form' = [form EXCEPT ![w] = Closed(form[w].no)]
        /\ UNCHANGED <<what, setting, switch, call, typed, lost>>
    BY DEF Close
  <1>3. Closed(form[w].no) \in FormRecords /\ FormFits(setting, Closed(form[w].no))
    BY <1>1, MountedFits
  <1> QED BY <1>2, <1>3, FormChanges, SettingsFacts, RowStays

LEMMA EditKeeps ==
    ASSUME SettingsIInv, NEW w \in Windows, Edit(w)
    PROVE  SettingsIInv'
  <1>1. PICK f \in Fields : \E v \in Entered(f) :
            form' = [form EXCEPT ![w].input[f] = v, ![w].edited = @ \cup {f}]
    BY DEF Edit
  <1>2. PICK v \in Entered(f) :
            form' = [form EXCEPT ![w].input[f] = v, ![w].edited = @ \cup {f}]
    BY <1>1
  <1> DEFINE i == [form[w].input EXCEPT ![f] = v]
             e == form[w].edited \cup {f}
             q == [form[w] EXCEPT !.input = i, !.edited = e]
  <1>3. form[w] \in FormRecords /\ form \in [Windows -> FormRecords] /\ FormFits(setting, form[w])
    BY SettingsFacts
  <1>4. v \in Values
    BY DEF Entered, Values, Fields
  <1>5. /\ i \in [Fields -> Values] /\ e \in SUBSET Fields
        /\ \A g \in Fields \ e : g \notin form[w].edited /\ i[g] = form[w].input[g]
    BY <1>3, <1>4, FormRecordFields
  <1>6. form' = [form EXCEPT ![w] = q]
    BY <1>2, <1>3, Zenon
  <1>11. i["enabled"] \in Bit
    <2>1. "enabled" \in Fields /\ form[w].input \in [Fields -> Values]
          /\ form[w].input["enabled"] \in Bit
      BY <1>3, FormRecordFields DEF Fields, FormFits
    <2>2. f = "enabled" => v \in Bit
      BY DEF Entered, Bit
    <2> QED BY <2>1, <2>2
  <1> HIDE DEF i, e
  <1>7. q \in FormRecords
    BY <1>3, <1>5, Zenon DEF FormRecords
  <1>8. q.input = i /\ q.edited = e /\ q.loaded = form[w].loaded /\ q.had = form[w].had
    BY <1>3 DEF FormRecords
  <1> HIDE DEF q
  <1>9. FormFits(setting, q)
    BY <1>3, <1>5, <1>8, <1>11 DEF FormFits
  <1>10. UNCHANGED <<what, setting, switch, call, lost>> /\ Touch
    BY DEF Edit
  <1> QED BY <1>6, <1>7, <1>9, <1>10, FormChanges, SettingsFacts, RowStays

\* A form that goes on saving, or that waits again, holds what it held.
LEMMA FormTurns ==
    ASSUME SettingsIInv, NEW w \in Windows, NEW at \in {"loading", "ready", "saving"}
    PROVE  LET q == [form[w] EXCEPT !.at = at] IN q \in FormRecords /\ FormFits(setting, q)
  <1> DEFINE q == [form[w] EXCEPT !.at = at]
  <1>1. form[w] \in FormRecords /\ FormFits(setting, form[w])
    BY SettingsFacts
  <1>2. q \in FormRecords
    <2>1. at \in {"closed", "loading", "ready", "saving"}
      OBVIOUS
    <2> QED BY <1>1, <2>1, Zenon DEF FormRecords
  <1>3. /\ q.input = form[w].input /\ q.edited = form[w].edited /\ q.loaded = form[w].loaded
        /\ q.had = form[w].had
    BY <1>1 DEF FormRecords
  <1> HIDE DEF q
  <1>4. FormFits(setting, q)
    BY <1>1, <1>3 DEF FormFits
  <1> QED BY <1>2, <1>4 DEF q

LEMMA SaveKeeps ==
    ASSUME SettingsIInv, NEW w \in Windows, NEW c \in Calls, Save(w, c) \/ Clear(w, c)
    PROVE  SettingsIInv'
  <1> DEFINE q == [form[w] EXCEPT !.at = "saving"]
  <1>1. /\ form[w] \in FormRecords /\ form \in [Windows -> FormRecords]
        /\ FormFits(setting, form[w])
        /\ q \in FormRecords /\ FormFits(setting, q)
    BY SettingsFacts, FormTurns
  <1>2. form' = [form EXCEPT ![w] = q]
    <2>1. form' = [form EXCEPT ![w].at = "saving"]
      BY DEF Save, Clear
    <2> QED BY <1>1, <2>1, Zenon
  <1>3. UNCHANGED <<what, setting, switch, lost>> /\ Touch
    BY DEF Save, Clear
  <1> HIDE DEF q
  <1>4. form[w].no \in Nat /\ form[w].loaded \in BOOLEAN /\ form[w].had \in Histories
        /\ "save" \in Patches \cup {"list", "load"} /\ form[w].input \in [Fields -> Values]
        /\ form[w].edited \subseteq Fields
    BY <1>1, FormRecordFields DEF Patches
  <1>5. ASSUME NEW r \in CallRecords, SentFits(setting, r), call' = [call EXCEPT ![c] = r]
        PROVE  SettingsIInv'
    BY <1>1, <1>2, <1>3, <1>5, CallChanges, FormChanges, SettingsFacts, RowStays
  <1>6. CASE Save(w, c)
    <2>1. PICK fields \in Forms : LET sent == SentOf(w, fields) IN
           Begin(c, CallFor("save", w, form[w].no, [f \in sent |-> form[w].input[f]],
                            form[w].edited \cap sent, form[w].loaded, form[w].had,
                            Closes(fields)))
      BY <1>6 DEF Save
    <2> DEFINE sent == SentOf(w, fields)
               b == [f \in sent |-> form[w].input[f]]
               r == CallFor("save", w, form[w].no, b, form[w].edited \cap sent,
                            form[w].loaded, form[w].had, Closes(fields))
    <2>2. call' = [call EXCEPT ![c] = r]
      BY <2>1 DEF Begin
    <2>3. sent \subseteq Fields /\ \A f \in sent : f = "token" => form[w].input[f] # 0
      BY DEF SentOf, Forms, Fields
    <2> HIDE DEF sent
    <2>4. b \in Bodies /\ DOMAIN b = sent /\ \A f \in sent : b[f] = form[w].input[f]
      <3>1. b \in [sent -> Values]
        BY <1>4, <2>3
      <3> QED BY <2>3, <3>1 DEF Bodies
    <2>5. Closes(fields) \in BOOLEAN
      BY DEF Closes
    <2> HIDE DEF b
    <2>6. /\ r \in CallRecords /\ r.kind = "save" /\ r.at = "sent" /\ r.body = b
          /\ r.edited = form[w].edited \cap sent /\ r.loaded = form[w].loaded
          /\ r.had = form[w].had /\ r.copy = Mounted
      <3>1. form[w].edited \cap sent \in SUBSET Fields
        BY <1>4
      <3> QED BY <1>4, <2>4, <2>5, <3>1, NewCall
    <2> HIDE DEF r
    <2>7. SentFits(setting, r)
      BY <1>1, <2>3, <2>4, <2>6, MountedFits DEF SentFits, FormFits
    <2> QED BY <1>5, <2>2, <2>6, <2>7
  <1>7. CASE Clear(w, c)
    <2> DEFINE b == [f \in {"token"} |-> 0]
               r == CallFor("save", w, form[w].no, b, {"token"}, form[w].loaded, form[w].had, TRUE)
    <2>1. call' = [call EXCEPT ![c] = r]
      BY <1>7 DEF Clear, Begin
    <2>2. b \in Bodies /\ DOMAIN b = {"token"} /\ {"token"} \in SUBSET Fields
      <3>1. b \in [{"token"} -> Values] /\ {"token"} \in SUBSET Fields
        BY DEF Values, Fields
      <3> QED BY <3>1 DEF Bodies
    <2> HIDE DEF b
    <2>3. /\ r \in CallRecords /\ r.kind = "save" /\ r.at = "sent" /\ r.body = b
          /\ r.edited = {"token"} /\ r.loaded = form[w].loaded /\ r.had = form[w].had
          /\ r.copy = Mounted
      BY <1>4, <2>2, MountedFits DEF CallFor, CallRecords
    <2> HIDE DEF r
    <2>4. SentFits(setting, r)
      BY <1>1, <2>2, <2>3, MountedFits DEF SentFits, FormFits
    <2> QED BY <1>5, <2>1, <2>3, <2>4
  <1> QED BY <1>6, <1>7

\* The server reads the row, for a call that changes it or for one that shows it.
LEMMA ReadsKeep ==
    ASSUME SettingsIInv, NEW c \in Calls, GetConfig(c) \/ ReadRow(c)
    PROVE  SettingsIInv'
  <1>1. call[c] \in CallRecords /\ SentFits(setting, call[c]) /\ setting \in [Fields -> Values]
        /\ setting["enabled"] \in Bit /\ call[c].kind # "none"
        /\ call \in [Calls -> CallRecords \cup {NoCall}]
    <2>1. call[c] # NoCall
      BY DEF GetConfig, ReadRow, At, NoCall, Patches
    <2> QED BY <2>1, SettingsFacts, CallRecordFields
  <1>2. UNCHANGED <<what, setting, switch, form, typed, lost>>
    BY DEF GetConfig, ReadRow
  <1>3. ASSUME NEW r \in CallRecords, SentFits(setting, r), call' = [call EXCEPT ![c] = r]
        PROVE  SettingsIInv'
    BY <1>2, <1>3, CallChanges, SettingsFacts, RowStays
  <1>4. CASE GetConfig(c)
    <2> DEFINE r == [call[c] EXCEPT !.at = "merging", !.copy = setting]
    <2>1. call[c].at = "sent" /\ call[c].kind \in Patches
          /\ call' = [call EXCEPT ![c].at = "merging", ![c].copy = setting]
      BY <1>4 DEF GetConfig, At
    <2>2. call' = [call EXCEPT ![c] = r]
      BY <1>1, <2>1, Zenon
    <2>3. r \in CallRecords
      <3>1. "merging" \in {"sent", "merging", "answering"}
        OBVIOUS
      <3> QED BY <1>1, <3>1, Zenon DEF CallRecords
    <2>4. /\ r.kind = call[c].kind /\ r.at = "merging" /\ r.copy = setting
          /\ r.body = call[c].body /\ r.edited = call[c].edited /\ r.loaded = call[c].loaded
          /\ r.had = call[c].had
      BY <1>1 DEF CallRecords
    <2> HIDE DEF r
    <2>5. call[c].kind \notin {"list", "load"}
      BY <2>1 DEF Patches
    <2>6. SentFits(setting, r)
      BY <1>1, <2>1, <2>4, <2>5 DEF SentFits, Covers, Covered
    <2> QED BY <1>3, <2>2, <2>3, <2>6
  <1>5. CASE ReadRow(c)
    <2> DEFINE r == [call[c] EXCEPT !.at = "answering", !.copy = setting, !.had = Now]
    <2>1. call[c].kind \in {"list", "load"}
          /\ call' = [call EXCEPT ![c].at = "answering", ![c].copy = setting, ![c].had = Now]
      BY <1>5 DEF ReadRow, At
    <2>2. call' = [call EXCEPT ![c] = r]
      BY <1>1, <2>1, Zenon
    <2>3. r \in CallRecords
      <3>1. "answering" \in {"sent", "merging", "answering"}
        OBVIOUS
      <3> QED BY <1>1, <3>1, NowFits, Zenon DEF CallRecords
    <2>4. /\ r.kind = call[c].kind /\ r.at = "answering" /\ r.copy = setting /\ r.had = Now
          /\ r.body = call[c].body
      BY <1>1 DEF CallRecords
    <2> HIDE DEF r
    <2>5. SentFits(setting, r)
      BY <1>1, <2>1, <2>4, NowFits DEF SentFits, Patches
    <2> QED BY <1>3, <2>2, <2>3, <2>5
  <1> QED BY <1>4, <1>5

\* What the answers of calls do to their dialogs.
LEMMA AfterwardsKeeps ==
    ASSUME SettingsIInv, NEW c \in Calls, call[c] \in CallRecords,
           NEW r \in FormRecords, FormFits(setting, r), Afterwards(c, r),
           UNCHANGED <<what, setting, switch>>, typed' \in 0 .. MaxTyped,
           lost' \in 0 .. MaxLost
    PROVE  SettingsIInv'
  <1> DEFINE w == call[c].window
  <1>1. w \in Windows /\ form[w] \in FormRecords /\ FormFits(setting, form[w])
        /\ switch \in [Windows -> {0, 1}] /\ form[w].no \in Nat
    BY SettingsFacts, CallRecordFields, FormRecordFields
  <1>2. CASE call[c].closes
    <2>1. /\ form' = [form EXCEPT ![w] = Closed(form[w].no)]
          /\ call' = [call EXCEPT ![c] = Asks("list", w, 0, FALSE)]
      BY <1>2 DEF Afterwards
    <2> HIDE DEF w
    <2>2. Closed(form[w].no) \in FormRecords /\ FormFits(setting, Closed(form[w].no))
      BY <1>1, MountedFits
    <2>3. Asks("list", w, 0, FALSE) \in CallRecords /\ SentFits(setting, Asks("list", w, 0, FALSE))
      BY <1>1, ListAsked
    <2> QED BY <1>1, <2>1, <2>2, <2>3, CallChanges, FormChanges, RowStays
  <1>3. CASE ~ call[c].closes
    <2> DEFINE q == IF There(c) THEN r ELSE form[w]
    <2>1. form' = [form EXCEPT ![w] = q] /\ call' = [call EXCEPT ![c] = NoCall]
      BY <1>3 DEF Afterwards
    <2>2. q \in FormRecords /\ FormFits(setting, q)
      BY <1>1
    <2> HIDE DEF q, w
    <2> QED BY <1>1, <2>1, <2>2, MountedFits, CallChanges, FormChanges, RowStays
  <1> QED BY <1>2, <1>3

LEMMA LoadedKeeps ==
    ASSUME SettingsIInv, NEW c \in Calls, Loaded(c)
    PROVE  SettingsIInv'
  <1> DEFINE w == call[c].window
             i == [enabled |-> call[c].copy["enabled"],
                   model |-> Shown(call[c].copy["model"]), token |-> 0]
             r == [form[w] EXCEPT !.at = "ready", !.edited = {}, !.loaded = TRUE,
                                  !.had = call[c].had, !.input = i]
  <1>1. /\ call[c].kind = "load" /\ call[c].at = "answering"
        /\ Afterwards(c, Filled(c)) /\ UNCHANGED <<what, setting, switch, typed, lost>>
    BY DEF Loaded, At
  <1>2. /\ call[c] \in CallRecords /\ SentFits(setting, call[c]) /\ call[c].kind # "none"
        /\ typed \in 0 .. MaxTyped /\ lost \in 0 .. MaxLost
    <2>1. call[c] # NoCall
      BY <1>1 DEF NoCall
    <2> QED BY <1>1, <2>1, SettingsFacts
  <1>3. /\ w \in Windows /\ form[w] \in FormRecords /\ call[c].had \in Histories
        /\ call[c].copy \in [Fields -> Values]
    BY <1>2, SettingsFacts, CallRecordFields
  <1>4. Covers(setting, call[c].had) /\ Covered(call[c].copy, call[c].had)
        /\ call[c].copy["enabled"] \in Bit
    BY <1>1, <1>2 DEF SentFits
  <1>5. Filled(c) = r
    BY DEF Filled
  <1>6. /\ i \in [Fields -> Values] /\ i["enabled"] \in Bit /\ i["token"] = 0
        /\ \A f \in Fields \ {"token"} : i[f] \in MayHold(call[c].had, f)
    <2>1. i["enabled"] = call[c].copy["enabled"] /\ i["model"] = Shown(call[c].copy["model"])
          /\ i["token"] = 0
      OBVIOUS
    <2>2. Shown(call[c].copy["model"]) \in Values /\ 0 \in Values
      BY <1>3 DEF Shown, Values, Fields
    <2>3. i \in [Fields -> Values]
      BY <1>3, <2>2 DEF Fields
    <2>4. i["enabled"] \in MayHold(call[c].had, "enabled")
      BY <1>4, <2>1 DEF MayHold, Covered, Fields
    <2>5. i["model"] \in MayHold(call[c].had, "model")
      BY <1>4, <2>1 DEF MayHold, Covered, Fields
    <2> HIDE DEF i
    <2> QED BY <1>4, <2>1, <2>3, <2>4, <2>5 DEF Fields
  <1> HIDE DEF i, w
  <1>7. r \in FormRecords
    <2>1. "ready" \in {"closed", "loading", "ready", "saving"} /\ TRUE \in BOOLEAN
          /\ {} \in SUBSET Fields
      OBVIOUS
    <2> QED BY <1>3, <1>6, <2>1, Zenon DEF FormRecords
  <1>8. r.input = i /\ r.edited = {} /\ r.had = call[c].had
    BY <1>3 DEF FormRecords
  <1>9. Afterwards(c, r)
    BY <1>1, <1>5
  <1> HIDE DEF r
  <1>10. FormFits(setting, r)
    BY <1>4, <1>6, <1>8 DEF FormFits
  <1> QED BY <1>1, <1>2, <1>7, <1>9, <1>10, AfterwardsKeeps

LEMMA LoadFailsKeeps ==
    ASSUME SettingsIInv, NEW c \in Calls, LoadFails(c)
    PROVE  SettingsIInv'
  <1> DEFINE r == [form[call[c].window] EXCEPT !.at = "ready"]
  <1>1. /\ call[c].kind = "load" /\ Afterwards(c, r) /\ Lose
        /\ UNCHANGED <<what, setting, switch, typed>>
    BY DEF LoadFails
  <1>2. call[c] \in CallRecords /\ call[c].window \in Windows
    <2>1. call[c] # NoCall
      BY <1>1 DEF NoCall
    <2> QED BY <2>1, SettingsFacts, CallRecordFields
  <1>3. r \in FormRecords /\ FormFits(setting, r)
    BY <1>2, FormTurns
  <1> HIDE DEF r
  <1> QED BY <1>1, <1>2, <1>3, SettingsFacts, AfterwardsKeeps

\* The list is shown, or stays as it is.
LEMMA ListEndsKeep ==
    ASSUME SettingsIInv, NEW c \in Calls, ListShown(c) \/ ListFails(c)
    PROVE  SettingsIInv'
  <1>1. call' = [call EXCEPT ![c] = NoCall] /\ UNCHANGED <<what, setting, form, typed>>
    BY DEF ListShown, ListFails
  <1>2. lost' \in 0 .. MaxLost
    BY SettingsFacts DEF ListShown, ListFails
  <1>3. switch' \in [Windows -> {0, 1}]
    <2>1. CASE ListShown(c)
      <3>1. call[c].copy["enabled"] \in Bit
        <4>1. call[c].kind = "list"
          BY <2>1 DEF ListShown, At
        <4> QED BY <4>1, SettingsFacts DEF SentFits
      <3> QED BY <2>1, <3>1, SettingsFacts DEF ListShown, Bit
    <2>2. CASE ListFails(c)
      BY <2>2, SettingsFacts DEF ListFails
    <2> QED BY <2>1, <2>2
  <1> QED BY <1>1, <1>2, <1>3, MountedFits, CallChanges, SettingsFacts, RowStays

LEMMA AnsweredKeeps ==
    ASSUME SettingsIInv, NEW c \in Calls, Answered(c)
    PROVE  SettingsIInv'
  <1> DEFINE w == call[c].window
             i == [form[w].input EXCEPT !["token"] = 0]
             e == form[w].edited \ {"token"}
             q == [form[w] EXCEPT !.at = "loading", !.input = i, !.edited = e]
  <1>1. /\ call[c].kind \in Patches /\ call[c] \in CallRecords
        /\ UNCHANGED <<what, setting, switch, typed, lost>>
    <2>1. call[c].kind \in Patches /\ UNCHANGED <<what, setting, switch, typed, lost>>
      BY DEF Answered, At
    <2>2. call[c] # NoCall
      BY <2>1 DEF NoCall, Patches
    <2> QED BY <2>1, <2>2, SettingsFacts
  <1>2. /\ w \in Windows /\ form[w] \in FormRecords /\ FormFits(setting, form[w])
        /\ call[c].no \in Nat
        /\ form \in [Windows -> FormRecords] /\ call[c].closes \in BOOLEAN
    BY <1>1, SettingsFacts, CallRecordFields
  <1>3. form' = form \/ form' = [form EXCEPT ![w] = q]
    <2>1. \/ form' = form
          \/ form' = [form EXCEPT ![w] = [form[w] EXCEPT
                          !.at = "loading", !.input["token"] = 0,
                          !.edited = form[w].edited \ {"token"}]]
      BY DEF Answered
    <2>2. [form[w] EXCEPT !.at = "loading", !.input["token"] = 0,
                         !.edited = form[w].edited \ {"token"}] = q
      BY <1>2, Zenon DEF FormRecords
    <2> QED BY <1>2, <2>1, <2>2, Zenon
  <1>4. PICK r \in {Asks("list", w, 0, FALSE), NoCall,
                   Asks("load", w, call[c].no, call[c].closes)} :
            call' = [call EXCEPT ![c] = r]
    BY <1>1 DEF Answered, Patches
  <1>5. r \in CallRecords \cup {NoCall} /\ SentFits(setting, r)
    <2>1. Asks("load", w, call[c].no, call[c].closes) \in CallRecords
          /\ SentFits(setting, Asks("load", w, call[c].no, call[c].closes))
      BY <1>2, AsksFit
    <2> QED BY <1>2, <2>1, ListAsked, MountedFits
  <1>6. /\ i \in [Fields -> Values] /\ e \in SUBSET Fields /\ i["token"] = 0
        /\ \A f \in Fields \ {"token"} : i[f] = form[w].input[f]
    BY <1>2, FormRecordFields DEF Values, Fields
  <1>7. \A f \in Fields \ e : f = "token" \/ f \notin form[w].edited
    OBVIOUS
  <1> HIDE DEF i, e, w
  <1>8. q \in FormRecords
    <2>1. "loading" \in {"closed", "loading", "ready", "saving"}
      OBVIOUS
    <2> QED BY <1>2, <1>6, <2>1, Zenon DEF FormRecords
  <1>9. q.input = i /\ q.edited = e /\ q.loaded = form[w].loaded /\ q.had = form[w].had
    BY <1>2 DEF FormRecords
  <1> HIDE DEF q
  <1>10. FormFits(setting, q)
    BY <1>2, <1>6, <1>7, <1>9 DEF FormFits, Fields
  <1> QED BY <1>1, <1>2, <1>3, <1>4, <1>5, <1>8, <1>10, CallChanges, FormChanges,
             SettingsFacts, RowStays

LEMMA PatchFailsKeeps ==
    ASSUME SettingsIInv, NEW c \in Calls, PatchFails(c)
    PROVE  SettingsIInv'
  <1> DEFINE w == call[c].window
             q == [form[w] EXCEPT !.at = "ready"]
             o == [call[c] EXCEPT !.kind = "orphan"]
  <1>1. /\ call[c].kind \in Patches /\ call[c] \in CallRecords /\ Lose
        /\ UNCHANGED <<what, setting, switch, typed>>
    <2>1. call[c].kind \in Patches /\ Lose /\ UNCHANGED <<what, setting, switch, typed>>
      BY DEF PatchFails, Patches
    <2>2. call[c] # NoCall
      BY <2>1 DEF NoCall, Patches
    <2> QED BY <2>1, <2>2, SettingsFacts
  <1>2. w \in Windows /\ form \in [Windows -> FormRecords] /\ form[w] \in FormRecords
    BY <1>1, SettingsFacts, CallRecordFields
  <1>3. form' = form \/ form' = [form EXCEPT ![w] = q]
    <2>1. form' = form \/ form' = [form EXCEPT ![w].at = "ready"]
      BY DEF PatchFails
    <2> QED BY <1>2, <2>1, Zenon
  <1>4. q \in FormRecords /\ FormFits(setting, q)
    BY <1>2, FormTurns
  <1>5. o \in CallRecords
    <2>1. "orphan" \in Patches \cup {"list", "load"}
      BY DEF Patches
    <2> QED BY <1>1, <2>1, Zenon DEF CallRecords
  <1>6. SentFits(setting, o)
    <2>1. /\ o.kind = "orphan" /\ o.at = call[c].at /\ o.body = call[c].body
          /\ o.edited = call[c].edited /\ o.loaded = call[c].loaded /\ o.had = call[c].had
          /\ o.copy = call[c].copy
      BY <1>1 DEF CallRecords
    <2>2. call[c].kind # "none" /\ SentFits(setting, call[c])
      BY <1>1, SettingsFacts, CallRecordFields
    <2> HIDE DEF o
    <2> QED BY <1>1, <2>1, <2>2 DEF SentFits, Patches
  <1>7. PICK r \in {NoCall, o} : call' = [call EXCEPT ![c] = r]
    BY DEF PatchFails
  <1> HIDE DEF o, q, w
  <1>8. r \in CallRecords \cup {NoCall} /\ SentFits(setting, r)
    BY <1>5, <1>6, MountedFits
  <1> QED BY <1>1, <1>2, <1>3, <1>4, <1>7, <1>8, CallChanges, FormChanges, SettingsFacts, RowStays

\* A history that covers the row covers the next one, and all it held.
LEMMA LongerHolds ==
    ASSUME NEW had \in Histories, NEW old, NEW row \in [Fields -> Values]
    PROVE  /\ Longer(had, row) \in Histories
           /\ \A f \in Fields : had[f] \subseteq Longer(had, row)[f]
           /\ \A f \in Fields : MayHold(had, f) \subseteq MayHold(Longer(had, row), f)
           /\ Covers(old, had) => Covers(row, Longer(had, row))
           /\ \A copy : Covered(copy, had) => Covered(copy, Longer(had, row))
  <1> DEFINE new == Longer(had, row)
  <1>1. /\ new = [f \in Fields |-> IF had[f] = {} THEN {} ELSE had[f] \cup {row[f]}]
        /\ \A f \in Fields : new[f] = IF had[f] = {} THEN {} ELSE had[f] \cup {row[f]}
    BY DEF Longer
  <1>2. new \in Histories
    BY <1>1 DEF Histories
  <1>3. \A f \in Fields : had[f] \subseteq new[f]
    BY <1>1
  <1>4. Covers(old, had) => Covers(row, new)
    BY <1>1 DEF Covers
  <1> HIDE DEF new
  <1>5. \A f \in Fields : MayHold(had, f) \subseteq MayHold(new, f)
    BY <1>3 DEF MayHold
  <1>6. \A copy : Covered(copy, had) => Covered(copy, new)
    BY <1>3 DEF Covered
  <1> QED BY <1>2, <1>3, <1>4, <1>5, <1>6 DEF new

\* What the merge writes.
LEMMA MergeWrites ==
    ASSUME SettingsIInv, NEW c \in Calls, MergeConfig(c)
    PROVE  /\ call[c] \in CallRecords /\ call[c].kind \in Patches /\ call[c].at = "merging"
           /\ setting' \in [Fields -> Values] /\ setting'["enabled"] \in Bit
           /\ \A f \in Fields : setting'[f] = IF f \in DOMAIN call[c].body THEN call[c].body[f]
                                              ELSE call[c].copy[f]
  <1>1. call[c].kind \in Patches /\ call[c].at = "merging"
        /\ setting' = Merged(call[c].copy, call[c].body)
    BY DEF MergeConfig, At
  <1>2. call[c] \in CallRecords /\ SentFits(setting, call[c]) /\ call[c].kind # "none"
    <2>1. call[c] # NoCall
      BY <1>1 DEF NoCall, Patches
    <2> QED BY <1>1, <2>1, SettingsFacts, CallRecordFields
  <1>3. call[c].copy \in [Fields -> Values] /\ call[c].body \in Bodies
    BY <1>2, CallRecordFields
  <1>4. PICK D \in SUBSET Fields : call[c].body \in [D -> Values]
    BY <1>3 DEF Bodies
  <1>5. setting' \in [Fields -> Values]
        /\ \A f \in Fields : setting'[f] = IF f \in DOMAIN call[c].body THEN call[c].body[f]
                                           ELSE call[c].copy[f]
    BY <1>1, <1>3, <1>4 DEF Merged
  <1>6. setting'["enabled"] \in Bit
    BY <1>2, <1>5 DEF SentFits, Fields
  <1> QED BY <1>1, <1>2, <1>5, <1>6

LEMMA MergeKeeps ==
    ASSUME SettingsIInv, NEW c \in Calls, MergeConfig(c)
    PROVE  SettingsIInv'
  <1> DEFINE a == [call[c] EXCEPT !.at = "answering"]
  <1>1. /\ call[c] \in CallRecords /\ call[c].kind \in Patches
        /\ setting' \in [Fields -> Values] /\ setting'["enabled"] \in Bit
    BY MergeWrites
  <1>2. /\ call' = [d \in Calls |-> IF d = c THEN a ELSE Remember(call[d])]
        /\ form' = [w \in Windows |-> [form[w] EXCEPT !.had = Longer(@, setting')]]
        /\ UNCHANGED <<what, switch, typed, lost>>
    BY DEF MergeConfig
  <1>3. ASSUME NEW w \in Windows
        PROVE  form'[w] \in FormRecords /\ FormFits(setting', form'[w])
    <2> DEFINE h == form[w].had
               n == Longer(h, setting')
               r == [form[w] EXCEPT !.had = n]
    <2>1. form[w] \in FormRecords /\ FormFits(setting, form[w])
      BY SettingsFacts
    <2>2. h \in Histories
      BY <2>1, FormRecordFields
    <2>3. /\ n \in Histories /\ \A f \in Fields : MayHold(h, f) \subseteq MayHold(n, f)
          /\ Covers(setting, h) => Covers(setting', n)
      BY <1>1, <2>2, LongerHolds
    <2>4. form'[w] = r
      BY <1>2
    <2> HIDE DEF n
    <2>5. r \in FormRecords
      BY <2>1, <2>3, Zenon DEF FormRecords
    <2>6. r.input = form[w].input /\ r.edited = form[w].edited /\ r.loaded = form[w].loaded
          /\ r.had = n
      BY <2>1 DEF FormRecords
    <2> HIDE DEF r
    <2>7. FormFits(setting', r)
      BY <2>1, <2>3, <2>6 DEF FormFits
    <2> QED BY <2>4, <2>5, <2>7
  <1>4. ASSUME NEW d \in Calls
        PROVE  call'[d] \in CallRecords \cup {NoCall} /\ SentFits(setting', call'[d])
    <2>1. SentFits(setting, call[d]) /\ call[d] \in CallRecords \cup {NoCall}
      BY SettingsFacts
    <2>2. CASE d = c
      <3>1. call'[d] = a
        BY <1>2, <2>2
      <3>2. a \in CallRecords
        <4>1. "answering" \in {"sent", "merging", "answering"}
          OBVIOUS
        <4> QED BY <1>1, <4>1, Zenon DEF CallRecords
      <3>3. /\ a.kind = call[c].kind /\ a.at = "answering" /\ a.body = call[c].body
            /\ a.edited = call[c].edited /\ a.loaded = call[c].loaded
            /\ a.had = call[c].had /\ a.copy = call[c].copy
        BY <1>1 DEF CallRecords
      <3> HIDE DEF a
      <3>4. call[c].kind \notin {"list", "load"}
        BY <1>1 DEF Patches
      <3>5. SentFits(setting', a)
        BY <1>1, <2>1, <2>2, <3>3, <3>4, CallRecordFields DEF SentFits
      <3> QED BY <3>1, <3>2, <3>5
    <2>3. CASE d # c /\ call[d] = NoCall
      <3>1. call'[d] = NoCall
        BY <1>2, <2>3 DEF Remember
      <3> QED BY <3>1 DEF SentFits, NoCall, Patches
    <2>4. CASE d # c /\ call[d] # NoCall
      <3> DEFINE h == call[d].had
                 n == Longer(h, setting')
                 r == [call[d] EXCEPT !.had = n]
      <3>1. call[d] \in CallRecords /\ call'[d] = r
        BY <1>2, <2>1, <2>4 DEF Remember
      <3>2. h \in Histories /\ call[d].body \in Bodies
        BY <3>1, CallRecordFields
      <3>3. /\ n \in Histories /\ \A f \in Fields : MayHold(h, f) \subseteq MayHold(n, f)
            /\ Covers(setting, h) => Covers(setting', n)
            /\ Covered(call[d].copy, h) => Covered(call[d].copy, n)
        BY <1>1, <3>2, LongerHolds
      <3> HIDE DEF n
      <3>4. r \in CallRecords
        BY <3>1, <3>3, Zenon DEF CallRecords
      <3>5. /\ r.kind = call[d].kind /\ r.at = call[d].at /\ r.body = call[d].body
            /\ r.edited = call[d].edited /\ r.loaded = call[d].loaded /\ r.had = n
            /\ r.copy = call[d].copy
        BY <3>1 DEF CallRecords
      <3> HIDE DEF r
      <3>6. DOMAIN r.body \subseteq Fields
        BY <3>2, <3>5 DEF Bodies
      <3>7. Covers(setting, h) => Covers(setting', r.had)
        BY <3>3, <3>5
      <3>8. \A f \in DOMAIN r.body \ r.edited :
                call[d].body[f] \in MayHold(h, f) => r.body[f] \in MayHold(r.had, f)
        BY <3>3, <3>5, <3>6
      <3>9. SentFits(setting', r)
        BY <2>1, <3>3, <3>5, <3>7, <3>8 DEF SentFits
      <3> QED BY <3>1, <3>4, <3>9
    <2> QED BY <2>2, <2>3, <2>4
  <1>5. form' \in [Windows -> FormRecords] /\ call' \in [Calls -> CallRecords \cup {NoCall}]
    BY <1>2, <1>3, <1>4, Zenon
  <1>6. SettingsTypeOK'
    BY <1>1, <1>2, <1>5 DEF SettingsIInv, SettingsTypeOK
  <1>7. /\ (\A w \in Windows : FormFits(setting, form[w]))'
        /\ (\A d \in Calls : SentFits(setting, call[d]))'
    BY <1>3, <1>4
  <1> QED BY <1>1, <1>6, <1>7 DEF SettingsIInv

LEMMA SettingsNextOK == SettingsIInv /\ [SettingsNext]_settingsVars => SettingsIInv'
  <1> SUFFICES ASSUME SettingsIInv, [SettingsNext]_settingsVars PROVE SettingsIInv'
    OBVIOUS
  <1>1. CASE UNCHANGED settingsVars
    BY <1>1, SettingsFacts, RowStays DEF settingsVars
  <1>2. ASSUME NEW w \in Windows, Close(w) \/ Edit(w) PROVE SettingsIInv'
    BY <1>2, CloseKeeps, EditKeeps
  <1>3. ASSUME NEW w \in Windows, NEW c \in Calls, Uses(w, c) PROVE SettingsIInv'
    BY <1>3, ToggleKeeps, OpenKeeps, SaveKeeps DEF Uses
  <1>4. ASSUME NEW c \in Calls, Serves(c) PROVE SettingsIInv'
    BY <1>4, ReadsKeep, MergeKeeps DEF Serves
  <1>5. ASSUME NEW c \in Calls, Returns(c) PROVE SettingsIInv'
    BY <1>5, ListEndsKeep, LoadedKeeps, AnsweredKeeps DEF Returns
  <1>6. ASSUME NEW c \in Calls, Fails(c) PROVE SettingsIInv'
    BY <1>6, ListEndsKeep, LoadFailsKeeps, PatchFailsKeeps DEF Fails
  <1> QED BY <1>1, <1>2, <1>3, <1>4, <1>5, <1>6 DEF SettingsNext

LEMMA SettingsInvariant == SettingsSpec => []SettingsIInv
  BY SettingsInitOK, SettingsNextOK, PTL DEF SettingsSpec

\* The variables of the settings keep their types: a window's inputs and what
\* the calls carry are values of the fields, whatever overlaps.
THEOREM SettingsTypeCorrect == SettingsSpec => []SettingsTypeOK
  <1>1. SettingsIInv => SettingsTypeOK
    BY DEF SettingsIInv
  <1> QED BY <1>1, SettingsInvariant, PTL

\* A merge is the only step after which a call that was merging is answering.
LEMMA OnlyMergesWrite ==
    ASSUME SettingsIInv, [SettingsNext]_settingsVars, NEW c \in Calls,
           At(c, Patches, "merging"), call'[c] = [call[c] EXCEPT !.at = "answering"]
    PROVE  MergeConfig(c)
  <1> DEFINE a == [call[c] EXCEPT !.at = "answering"]
  <1>1. call[c] \in CallRecords /\ call[c].kind \in Patches /\ call[c].at = "merging"
    <2>1. call[c].kind \in Patches /\ call[c].at = "merging"
      BY DEF At
    <2>2. call[c] # NoCall
      BY <2>1 DEF NoCall, Patches
    <2> QED BY <2>1, <2>2, SettingsFacts
  <1>2. a.at = "answering" /\ a.kind = call[c].kind /\ a # call[c] /\ call'[c] = a
        /\ a.had = call[c].had
    BY <1>1 DEF CallRecords
  <1> HIDE DEF a
  <1>3. call \in [Calls -> CallRecords \cup {NoCall}]
    BY SettingsFacts
  <1>4. ~ UNCHANGED call
    BY <1>2
  <1>5. \A d \in Calls : \A r : call' = [call EXCEPT ![d] = r] => d = c /\ r = a
    BY <1>2, <1>3
  <1>6. ASSUME NEW w \in Windows, NEW d \in Calls, Uses(w, d) PROVE FALSE
    <2>1. call[d] = NoCall /\ \E r : call' = [call EXCEPT ![d] = r]
      BY <1>6 DEF Uses, Toggle, Open, Save, Clear, Begin
    <2>2. PICK r : call' = [call EXCEPT ![d] = r]
      BY <2>1
    <2>3. d = c
      BY <1>5, <2>2
    <2> QED BY <1>1, <2>1, <2>3 DEF NoCall, Patches
  <1>7. ASSUME NEW d \in Calls, GetConfig(d) \/ ReadRow(d) PROVE FALSE
    <2>1. call[d].at = "sent"
      BY <1>7 DEF GetConfig, ReadRow, At
    <2>2. \E r : call' = [call EXCEPT ![d] = r]
      BY <1>3, <1>7, Zenon DEF GetConfig, ReadRow
    <2> QED BY <1>1, <1>5, <2>1, <2>2
  <1>8. ASSUME NEW d \in Calls, Returns(d) PROVE FALSE
    <2>1. call[d].at = "answering"
      BY <1>8 DEF Returns, ListShown, Loaded, Answered, At
    <2>2. \E r : call' = [call EXCEPT ![d] = r]
      BY <1>8 DEF Returns, ListShown, Loaded, Answered, Afterwards
    <2> QED BY <1>1, <1>5, <2>1, <2>2
  <1>9. ASSUME NEW d \in Calls, ListFails(d) \/ LoadFails(d) PROVE FALSE
    <2>1. call[d].kind \in {"list", "load"}
      BY <1>9 DEF ListFails, LoadFails
    <2>2. \E r : call' = [call EXCEPT ![d] = r]
      BY <1>9 DEF ListFails, LoadFails, Afterwards
    <2> QED BY <1>1, <1>5, <2>1, <2>2 DEF Patches
  <1>10. ASSUME NEW d \in Calls, PatchFails(d) PROVE FALSE
    <2>1. PICK r \in {NoCall, [call[d] EXCEPT !.kind = "orphan"]} : call' = [call EXCEPT ![d] = r]
      BY <1>10 DEF PatchFails
    <2>2. d = c /\ r = a
      BY <1>5, <2>1
    <2>3. a # NoCall
      BY <1>1, <1>2 DEF NoCall, Patches
    <2>4. [call[c] EXCEPT !.kind = "orphan"].at = "merging"
      BY <1>1 DEF CallRecords
    <2> QED BY <1>2, <2>1, <2>2, <2>3, <2>4
  <1>11. ASSUME NEW w \in Windows, Close(w) \/ Edit(w) PROVE FALSE
    BY <1>4, <1>11 DEF Close, Edit
  <1>12. ASSUME NEW d \in Calls, MergeConfig(d), d # c PROVE FALSE
    <2>1. call'[c] = [call[c] EXCEPT !.had = Longer(@, setting')]
      BY <1>1, <1>12, CallRecordFields DEF MergeConfig, Remember
    <2>2. [call[c] EXCEPT !.had = Longer(@, setting')].at = "merging"
      BY <1>1 DEF CallRecords
    <2> QED BY <1>2, <2>1, <2>2
  <1>13. SettingsNext
    BY <1>4 DEF settingsVars
  <1> QED BY <1>6, <1>7, <1>8, <1>9, <1>10, <1>11, <1>12, <1>13
          DEF SettingsNext, Serves, Fails

\* A write leaves a field its author has not edited as it was, or as it was
\* since the author's form was loaded: forms of several windows, toggles and
\* late answers may overlap in any number.
THEOREM UneditedFieldsStay == SettingsSpec => UneditedStays
  <1>1. SettingsIInv /\ [SettingsNext]_settingsVars =>
            [\A c \in Calls :
                /\ At(c, Patches, "merging") /\ call[c].loaded
                /\ call'[c] = [call[c] EXCEPT !.at = "answering"]
                => \A f \in Fields \ call[c].edited : setting'[f] \in Kept(c)[f]]_settingsVars
    <2> SUFFICES ASSUME SettingsIInv, [SettingsNext]_settingsVars, NEW c \in Calls,
                        At(c, Patches, "merging"), call[c].loaded,
                        call'[c] = [call[c] EXCEPT !.at = "answering"],
                        NEW f \in Fields \ call[c].edited
                 PROVE  setting'[f] \in Kept(c)[f]
      OBVIOUS
    <2>1. MergeConfig(c)
      BY OnlyMergesWrite
    <2>2. /\ call[c].kind \in Patches /\ call[c].at = "merging"
          /\ setting'[f] = IF f \in DOMAIN call[c].body THEN call[c].body[f]
                           ELSE call[c].copy[f]
      BY <2>1, MergeWrites
    <2>3. SentFits(setting, call[c])
      BY SettingsFacts
    <2>4. Covered(call[c].copy, call[c].had)
          /\ \A g \in DOMAIN call[c].body \ call[c].edited :
                 call[c].body[g] \in MayHold(call[c].had, g)
      BY <2>2, <2>3 DEF SentFits
    <2>5. setting'[f] \in MayHold(call[c].had, f)
      BY <2>2, <2>4 DEF Covered, MayHold
    <2>6. Kept(c)[f] = MayHold(call[c].had, f)
      BY DEF Kept, MayHold
    <2> QED BY <2>5, <2>6
  <1> QED BY <1>1, SettingsInvariant, PTL DEF SettingsSpec, UneditedStays

-------------------------------------------------------------------------------
(* Tables: what makes the properties inductive. *)

\* An answer that nothing overtook at the server is a listing of the rows.
AnswersFit ==
    \A i \in DOMAIN asked : asked[i].read /\ ~ asked[i].torn =>
        asked[i].slice = Slice(asked[i].q) /\ asked[i].there = Fitting(asked[i].q)

\* A table without pages asks for the first one only.
OnePage ==
    ~ table.paged =>
        /\ query.page = 1 /\ \A k \in DOMAIN clicks : clicks[k].page = 1
        /\ \A i \in DOMAIN asked : asked[i].q.page = 1

\* The last request of all is for the query in force, or it was overtaken.
LastIsRight ==
    ~ excused =>
        IF asked = <<>> THEN shown.q = Sent(query)
        ELSE asked[Len(asked)].late \/ asked[Len(asked)].q = Sent(query)

\* The rows a walk has not shown still fit, and are beyond its pages.
WalkFits ==
    walk.on /\ ~ walk.spoiled =>
        /\ walk.there \subseteq Fitting(walk.q)
        /\ \A id \in walk.there \ walk.seen :
               /\ table.paged /\ walk.last * walk.q.size < shown.total
               /\ walk.last * walk.q.size <= Newer(Fitting(walk.q), id)

PagesIInv == PagesTypeOK /\ AnswersFit /\ OnePage /\ LastIsRight /\ WalkFits

LEMMA RequestFields ==
    ASSUME NEW r \in Requests
    PROVE  /\ r.q \in Queries /\ r.read \in BOOLEAN /\ r.slice \in Slices /\ r.alone \in BOOLEAN
           /\ r.late \in BOOLEAN /\ r.torn \in BOOLEAN /\ r.spoiled \in BOOLEAN
           /\ r.there \subseteq Keys
  BY DEF Requests

LEMMA QueryFacts ==
    ASSUME NEW q \in Queries
    PROVE  /\ q.page \in 1 .. MaxRows /\ q.page \in Nat
           /\ q.size \in Sizes /\ q.size \in Nat /\ q.size # 0
           /\ Sent(q) \in Queries /\ Sent(q).page = q.page
           /\ \A n \in 1 .. MaxRows : [q EXCEPT !.page = n] \in Queries
  BY PagesAssumption DEF Queries, Sent, AnyStatus

LEMMA RowFacts ==
    ASSUME rows \in Slices
    PROVE  /\ Present \subseteq Keys /\ rows \in [Present -> Records]
           /\ \A id \in Present : rows[id] \in Records
           /\ \A ids \in SUBSET Present : Restrict(rows, ids) \in Slices
           /\ \A q : Fitting(q) \subseteq Present
           /\ \A q : Slice(q) \in Slices /\ DOMAIN Slice(q) \subseteq Fitting(q)
  <1>1. Present \subseteq Keys /\ rows \in [Present -> Records]
    BY DEF Slices, Present
  <1>2. ASSUME NEW ids \in SUBSET Present PROVE Restrict(rows, ids) \in Slices
    <2>1. Restrict(rows, ids) \in [ids -> Records] /\ ids \in SUBSET Keys
      BY <1>1 DEF Restrict
    <2> QED BY <2>1 DEF Slices
  <1>3. ASSUME NEW q PROVE Fitting(q) \subseteq Present
    BY DEF Fitting
  <1>4. ASSUME NEW q PROVE Slice(q) \in Slices /\ DOMAIN Slice(q) \subseteq Fitting(q)
    <2>1. {id \in Fitting(q) : InSlice(q, id)} \in SUBSET Present
      BY <1>3
    <2> QED BY <1>2, <2>1 DEF Slice, Restrict
  <1> QED BY <1>1, <1>2, <1>3, <1>4

LEMMA NewRequest ==
    ASSUME rows \in Slices, NEW q \in Queries
    PROVE  /\ Request(q) \in Requests
           /\ Request(q).q = q /\ ~ Request(q).read /\ ~ Request(q).late
  <1>1. Restrict(rows, {}) \in Slices
    BY RowFacts
  <1> QED BY <1>1 DEF Request, Requests

\* Listings where rows do not change.
LEMMA SameRows ==
    ASSUME rows' = rows, table' = table
    PROVE  /\ \A q : Fitting(q)' = Fitting(q) /\ Slice(q)' = Slice(q) /\ Sent(q)' = Sent(q)
           /\ Present' = Present
  <1>1. \A q : Fitting(q)' = Fitting(q)
    BY DEF Fitting, Present
  <1>2. \A q, id : InSlice(q, id)' <=> InSlice(q, id)
    BY <1>1 DEF InSlice
  <1> QED BY <1>1, <1>2 DEF Slice, Present, Sent

\* How many of a set come before a row.
LEMMA NewerFacts ==
    ASSUME NEW S \in SUBSET Keys, NEW T \in SUBSET Keys, S \subseteq T, NEW id \in Keys
    PROVE  /\ Newer(S, id) \in Nat /\ Newer(S, id) <= Newer(T, id)
           /\ Cardinality(S) \in Nat
           /\ id \in S => Newer(S, id) < Cardinality(S)
  <1> DEFINE A == {k \in S : k > id}
             B == {k \in T : k > id}
  <1>1. IsFiniteSet(Keys)
    BY FS_Interval, PagesAssumption DEF Keys
  <1>2. IsFiniteSet(S) /\ IsFiniteSet(T) /\ IsFiniteSet(A) /\ IsFiniteSet(B)
    BY <1>1, FS_Subset
  <1>3. Cardinality(A) \in Nat /\ Cardinality(S) \in Nat /\ Cardinality(A) <= Cardinality(B)
    <2>1. A \subseteq B
      OBVIOUS
    <2> QED BY <1>2, <2>1, FS_Subset, FS_CardinalityType
  <1>4. ASSUME id \in S PROVE Cardinality(A) < Cardinality(S)
    <2>1. A \subseteq S /\ A # S
      BY <1>4 DEF Keys
    <2>2. Cardinality(A) # Cardinality(S)
      BY <1>2, <2>1, FS_Subset
    <2>3. Cardinality(A) <= Cardinality(S)
      BY <1>2, FS_Subset
    <2> QED BY <1>3, <2>2, <2>3
  <1> QED BY <1>3, <1>4 DEF Newer

\* A request is added to those on their way, or none is.
LEMMA AppendFacts ==
    ASSUME NEW s \in Seq(Requests), NEW r \in Requests
    PROVE  /\ Append(s, r) \in Seq(Requests) /\ Append(s, r) # <<>>
           /\ Len(Append(s, r)) = Len(s) + 1 /\ Append(s, r)[Len(s) + 1] = r
           /\ DOMAIN Append(s, r) = 1 .. (Len(s) + 1)
           /\ \A i \in DOMAIN s : Append(s, r)[i] = s[i]
  OBVIOUS

LEMMA PagesInitOK == PagesInit => PagesIInv
  <1> SUFFICES ASSUME PagesInit PROVE PagesIInv
    OBVIOUS
  <1>1. rows \in Slices /\ Present = {1, 2}
    <2>1. \A id \in {1, 2} : RowOf(1, id - 1) \in Records
      BY DEF RowOf, Records
    <2>2. {1, 2} \in SUBSET Keys
      BY PagesAssumption DEF Keys
    <2>3. rows \in [{1, 2} -> Records]
      BY <2>1 DEF PagesInit
    <2> QED BY <2>2, <2>3 DEF Slices, Present
  <1>2. query \in Queries /\ query.page = 1
    BY PagesAssumption DEF PagesInit, Queries
  <1>3. Fitting(query) = Present
    BY DEF PagesInit, Fitting, Fits
  <1>4. Cardinality(Present) = 2
    <2>1. IsFiniteSet({1}) /\ Cardinality({1}) = 1
      BY FS_Singleton
    <2>2. Cardinality({1} \cup {2}) = 2
      BY <2>1, FS_AddElement
    <2>3. Present = {1} \cup {2}
      BY <1>1
    <2> QED BY <2>2, <2>3
  <1>5. /\ shown \in [q : Queries, slice : Slices, total : Nat]
        /\ shown.slice = Slice(query) /\ shown.total = 2 /\ shown.q = query
    BY <1>1, <1>2, <1>4, RowFacts DEF PagesInit
  <1>6. walk \in Walks
    <2>1. DOMAIN Slice(query) \subseteq Keys
      BY <1>1, RowFacts
    <2> QED BY <1>1, <1>2, <1>5, <2>1, RowFacts DEF PagesInit, Walks
  <1>7. PagesTypeOK
    <2>1. asked \in Seq(Requests) /\ deeds \in 0 .. MaxDone /\ table \in Tables
      BY PagesAssumption DEF PagesInit
    <2>2. clicks \in Seq(Queries)
      BY DEF PagesInit
    <2>3. searching \in BOOLEAN /\ excused \in BOOLEAN
      BY DEF PagesInit
    <2> QED BY <1>1, <1>2, <1>5, <1>6, <2>1, <2>2, <2>3 DEF PagesTypeOK
  <1>8. AnswersFit /\ OnePage
    BY <1>2 DEF PagesInit, AnswersFit, OnePage
  <1>9. LastIsRight
    BY <1>5 DEF PagesInit, LastIsRight, Sent
  <1>10. WalkFits
    <2> SUFFICES ASSUME NEW id \in walk.there \ walk.seen
                 PROVE  /\ table.paged /\ walk.last * walk.q.size < shown.total
                        /\ walk.last * walk.q.size <= Newer(Fitting(walk.q), id)
      BY <1>3 DEF WalkFits, PagesInit
    <2>1. id \in Present /\ ~ InSlice(query, id)
      BY <1>3, <1>5 DEF PagesInit, Slice, Restrict
    <2>2. /\ Newer(Present, id) \in Nat /\ Newer(Present, id) < 2
      BY <1>1, <1>4, <2>1, RowFacts, NewerFacts
    <2>3. Skipped(query) = 0
      BY <1>2, QueryFacts DEF Skipped
    <2>4. query.size \in Nat /\ 1 * query.size = query.size /\ 0 + query.size = query.size
      BY <1>2, QueryFacts
    <2>5. table.paged /\ ~ (0 <= Newer(Present, id) /\ Newer(Present, id) < query.size)
      BY <1>3, <2>1, <2>3, <2>4 DEF InSlice
    <2> QED BY <1>3, <1>5, <2>2, <2>4, <2>5 DEF PagesInit
  <1> QED BY <1>7, <1>8, <1>9, <1>10 DEF PagesIInv

\* What changes neither the rows nor the requests nor the walk.
LEMMA QuietPage ==
    ASSUME PagesIInv, UNCHANGED <<table, rows, query, asked, shown, excused, walk>>
    PROVE  AnswersFit' /\ LastIsRight' /\ WalkFits'
  <1>1. AnswersFit'
    <2>1. AnswersFit
      BY DEF PagesIInv
    <2> QED BY <2>1, SameRows DEF AnswersFit
  <1>2. LastIsRight'
    BY DEF PagesIInv, LastIsRight, Sent
  <1>3. WalkFits'
    <2>1. WalkFits
      BY DEF PagesIInv
    <2> QED BY <2>1, SameRows DEF WalkFits, Newer
  <1> QED BY <1>1, <1>2, <1>3

LEMMA TurnKeepsPages ==
    ASSUME PagesIInv, NEW new \in Queries, NEW again, TurnTo(new, again),
           ~ table.paged => new.page = 1, searching' \in BOOLEAN
    PROVE  PagesIInv'
  <1> DEFINE r == Request(Sent(new))
  <1>1. PagesTypeOK
    BY DEF PagesIInv
  <1>2. Sent(new) \in Queries /\ Sent(new).page = new.page
    BY QueryFacts
  <1>3. rows \in Slices /\ asked \in Seq(Requests)
    BY <1>1 DEF PagesTypeOK
  <1>4. r \in Requests /\ r.q = Sent(new) /\ ~ r.read /\ ~ r.late
    BY <1>2, <1>3, NewRequest
  <1>5. /\ query' = new /\ UNCHANGED <<table, rows, shown, clicks, excused, walk>>
        /\ deeds < MaxDone /\ deeds' = deeds + 1
    BY DEF TurnTo, Deed
  <1>6. asked' = Append(asked, r) \/ (asked' = asked /\ Sent(new) = Sent(query))
    BY DEF TurnTo, AskIf
  <1> HIDE DEF r
  <1>7. asked' \in Seq(Requests)
    BY <1>3, <1>4, <1>6
  <1>8. PagesTypeOK'
    <2>1. deeds' \in 0 .. MaxDone
      BY <1>1, <1>5, PagesAssumption DEF PagesTypeOK
    <2> QED BY <1>1, <1>5, <1>7, <2>1 DEF PagesTypeOK
  <1>9. \A i \in DOMAIN asked' :
            (i \in DOMAIN asked /\ asked'[i] = asked[i]) \/ asked'[i] = r
    BY <1>3, <1>4, <1>6
  <1>10. AnswersFit'
    <2>1. ASSUME NEW i \in DOMAIN asked', asked'[i].read, ~ asked'[i].torn
          PROVE  asked'[i].slice = Slice(asked'[i].q) /\ asked'[i].there = Fitting(asked'[i].q)
      BY <1>4, <1>9, <2>1 DEF PagesIInv, AnswersFit
    <2> QED BY <1>5, <2>1, SameRows DEF AnswersFit
  <1>11. OnePage'
    BY <1>2, <1>4, <1>5, <1>9 DEF PagesIInv, OnePage
  <1>12. LastIsRight'
    <2>1. Sent(query)' = Sent(new)
      BY <1>5 DEF Sent
    <2>2. CASE asked' = Append(asked, r)
      <3>1. asked' # <<>> /\ asked'[Len(asked')] = r
        BY <1>3, <1>4, <2>2, AppendFacts
      <3> QED BY <1>4, <2>1, <3>1 DEF LastIsRight
    <2>3. CASE asked' = asked /\ Sent(new) = Sent(query)
      BY <1>5, <2>1, <2>3 DEF PagesIInv, LastIsRight
    <2> QED BY <1>6, <2>2, <2>3
  <1>13. WalkFits'
    <2>1. WalkFits
      BY DEF PagesIInv
    <2> QED BY <1>5, <2>1, SameRows DEF WalkFits, Newer
  <1> QED BY <1>8, <1>10, <1>11, <1>12, <1>13 DEF PagesIInv

LEMMA QueryStepsKeep ==
    ASSUME PagesIInv,
           \/ \E p \in 1 .. MaxRows : SetPage(p)
           \/ \E n \in Sizes : SetSize(n)
           \/ \E v \in {0, 1, AnyStatus} : SetFilter(v)
           \/ \E v \in {0, 1} : Search(v)
    PROVE  PagesIInv'
  <1>1. query \in Queries /\ table \in Tables /\ searching \in BOOLEAN
        /\ (~ table.paged => query.page = 1)
    BY DEF PagesIInv, PagesTypeOK, OnePage
  <1>2. \A t \in Tables : t.again \in BOOLEAN
    <2>1. \A p, f, w, b, c, d, e : Table(p, f, w, b, c, d, e).again = b
      BY DEF Table
    <2>2. \A t \in Tables : t.again = TRUE \/ t.again = FALSE
      BY <2>1 DEF Tables, UsersPage, OrdersPage, CreditsPage, FeedbackPage, SystemLogsPage,
                  OpsPage, TemplatesPage, AdminsPanel, AppsPanel, PlansPage
    <2> QED BY <2>2
  <1>3. 1 \in 1 .. MaxRows
    BY PagesAssumption
  <1>4. ASSUME NEW p \in 1 .. MaxRows, SetPage(p) PROVE PagesIInv'
    <2>1. [query EXCEPT !.page = p] \in Queries
      BY <1>1, QueryFacts
    <2> QED BY <1>1, <1>4, <2>1, TurnKeepsPages DEF SetPage, Marks
  <1>5. ASSUME NEW v \in {0, 1, AnyStatus}, SetFilter(v) PROVE PagesIInv'
    <2>1. [query EXCEPT !.filter = v, !.page = 1] \in Queries
          /\ [query EXCEPT !.filter = v, !.page = 1].page = 1
      BY <1>1, <1>3 DEF Queries
    <2> QED BY <1>1, <1>5, <2>1, TurnKeepsPages DEF SetFilter, Marks
  <1>6. ASSUME NEW v \in {0, 1}, Search(v) PROVE PagesIInv'
    <2>1. [query EXCEPT !.search = v, !.page = 1] \in Queries
          /\ [query EXCEPT !.search = v, !.page = 1].page = 1
      BY <1>1, <1>3 DEF Queries
    <2> QED BY <1>1, <1>2, <1>6, <2>1, TurnKeepsPages DEF Search
  <1>7. ASSUME NEW n \in Sizes, SetSize(n) PROVE PagesIInv'
    <2>1. [query EXCEPT !.size = n, !.page = 1] \in Queries
          /\ [query EXCEPT !.size = n, !.page = 1].page = 1
      BY <1>1, <1>3 DEF Queries
    <2> QED BY <1>1, <1>7, <2>1, TurnKeepsPages DEF SetSize, Marks
  <1> QED BY <1>4, <1>5, <1>6, <1>7

LEMMA ReadSliceKeeps ==
    ASSUME PagesIInv, NEW i \in DOMAIN asked, ReadSlice(i)
    PROVE  PagesIInv'
  <1> DEFINE r == [asked[i] EXCEPT !.read = TRUE, !.slice = Slice(asked[i].q),
                                   !.there = Fitting(asked[i].q)]
  <1>1. PagesTypeOK /\ rows \in Slices /\ asked \in Seq(Requests)
    BY DEF PagesIInv, PagesTypeOK
  <1>2. asked[i] \in Requests
    BY <1>1
  <1>3. Slice(asked[i].q) \in Slices /\ Fitting(asked[i].q) \subseteq Keys
    BY <1>1, RowFacts
  <1>4. r \in Requests
    BY <1>2, <1>3, Zenon DEF Requests
  <1>5. /\ r.q = asked[i].q /\ r.late = asked[i].late
        /\ r.slice = Slice(r.q) /\ r.there = Fitting(r.q)
    BY <1>2 DEF Requests
  <1>6. /\ asked' = [asked EXCEPT ![i] = r]
        /\ UNCHANGED <<table, rows, query, shown, clicks, searching, deeds, excused, walk>>
    BY DEF ReadSlice
  <1> HIDE DEF r
  <1>7. /\ asked' \in Seq(Requests) /\ DOMAIN asked' = DOMAIN asked
        /\ Len(asked') = Len(asked) /\ asked'[i] = r
        /\ \A j \in DOMAIN asked : j # i => asked'[j] = asked[j]
    BY <1>1, <1>4, <1>6
  <1>8. PagesTypeOK'
    BY <1>1, <1>6, <1>7 DEF PagesTypeOK
  <1>9. AnswersFit'
    <2>1. ASSUME NEW j \in DOMAIN asked', asked'[j].read, ~ asked'[j].torn
          PROVE  asked'[j].slice = Slice(asked'[j].q) /\ asked'[j].there = Fitting(asked'[j].q)
      BY <1>5, <1>7, <2>1 DEF PagesIInv, AnswersFit
    <2> QED BY <1>6, <2>1, SameRows DEF AnswersFit
  <1>10. OnePage'
    BY <1>5, <1>6, <1>7 DEF PagesIInv, OnePage
  <1>11. LastIsRight'
    <2>1. asked' # <<>> /\ asked # <<>> /\ Len(asked) \in DOMAIN asked
      BY <1>1, <1>7
    <2>2. /\ asked'[Len(asked)].late = asked[Len(asked)].late
          /\ asked'[Len(asked)].q = asked[Len(asked)].q
      BY <1>5, <1>7, <2>1
    <2>3. Sent(query)' = Sent(query)
      BY <1>6 DEF Sent
    <2> QED BY <1>6, <1>7, <2>1, <2>2, <2>3 DEF PagesIInv, LastIsRight
  <1>12. WalkFits'
    <2>1. WalkFits
      BY DEF PagesIInv
    <2> QED BY <1>6, <2>1, SameRows DEF WalkFits, Newer
  <1> QED BY <1>8, <1>9, <1>10, <1>11, <1>12 DEF PagesIInv

\* The request that is shown leaves, and so does one that fails.
LEMMA OthersStay ==
    ASSUME asked \in Seq(Requests), NEW i \in DOMAIN asked
    PROVE  /\ Without(i) \in Seq(Requests) /\ Len(Without(i)) = Len(asked) - 1
           /\ \A j \in DOMAIN Without(i) : \E k \in DOMAIN asked :
                  /\ Without(i)[j].q = asked[k].q /\ Without(i)[j].read = asked[k].read
                  /\ Without(i)[j].torn = asked[k].torn
                  /\ Without(i)[j].slice = asked[k].slice
                  /\ Without(i)[j].there = asked[k].there
                  /\ asked[k].late => Without(i)[j].late
                  /\ k = (IF j < i THEN j ELSE j + 1) /\ (j < i => Without(i)[j].late)
  <1> DEFINE s == asked
             t == Without(i)
  <1>0. t = [j \in 1 .. Len(s) - 1 |->
                IF j < i THEN [s[j] EXCEPT !.late = TRUE] ELSE s[j + 1]]
    BY DEF Without
  <1>1. ASSUME NEW j \in 1 .. Len(s) - 1
        PROVE  /\ t[j] \in Requests
               /\ \E k \in DOMAIN s :
                  /\ t[j].q = s[k].q /\ t[j].read = s[k].read /\ t[j].torn = s[k].torn
                  /\ t[j].slice = s[k].slice /\ t[j].there = s[k].there
                  /\ s[k].late => t[j].late
                  /\ k = (IF j < i THEN j ELSE j + 1) /\ (j < i => t[j].late)
    <2>1. CASE j < i
      <3> DEFINE m == [s[j] EXCEPT !.late = TRUE]
      <3>1. s[j] \in Requests /\ j \in DOMAIN s /\ t[j] = m
        BY <2>1, <1>0
      <3>2. m \in Requests
        BY <3>1, Zenon DEF Requests
      <3>3. /\ m.q = s[j].q /\ m.read = s[j].read /\ m.torn = s[j].torn
            /\ m.slice = s[j].slice /\ m.there = s[j].there /\ m.late
        BY <3>1 DEF Requests
      <3> HIDE DEF m
      <3> QED BY <2>1, <3>1, <3>2, <3>3
    <2>2. CASE ~ j < i
      <3>1. j + 1 \in DOMAIN s /\ s[j + 1] \in Requests /\ t[j] = s[j + 1]
        BY <2>2, <1>0
      <3> QED BY <2>2, <3>1
    <2> QED BY <2>1, <2>2
  <1>2. DOMAIN t = 1 .. Len(s) - 1 /\ Len(s) - 1 \in Nat
    BY <1>0
  <1>3. t \in [1 .. Len(s) - 1 -> Requests]
    BY <1>0, <1>1
  <1> HIDE DEF t
  <1>4. t \in Seq(Requests) /\ Len(t) = Len(s) - 1
    BY <1>2, <1>3
  <1> QED BY <1>1, <1>2, <1>4 DEF t

LEMMA AskFailsKeeps ==
    ASSUME PagesIInv, NEW i \in DOMAIN asked, AskFails(i)
    PROVE  PagesIInv'
  <1>1. PagesTypeOK /\ rows \in Slices /\ asked \in Seq(Requests)
    BY DEF PagesIInv, PagesTypeOK
  <1>2. /\ asked' = [j \in 1 .. Len(asked) - 1 |-> IF j < i THEN asked[j] ELSE asked[j + 1]]
        /\ excused' = TRUE /\ searching' = FALSE
        /\ UNCHANGED <<table, rows, query, shown, clicks, walk>>
    BY DEF AskFails, Rest
  <1>3. \A j \in 1 .. Len(asked) - 1 : \E k \in DOMAIN asked : asked'[j] = asked[k]
    <2>1. \A j \in 1 .. Len(asked) - 1 : j \in DOMAIN asked /\ j + 1 \in DOMAIN asked
      BY <1>1
    <2> QED BY <1>2, <2>1
  <1>4. asked' \in Seq(Requests) /\ DOMAIN asked' = 1 .. Len(asked) - 1
    <2>1. asked' \in [1 .. Len(asked) - 1 -> Requests]
      BY <1>1, <1>2, <1>3
    <2>2. Len(asked) - 1 \in Nat
      BY <1>1
    <2> QED BY <2>1, <2>2
  <1>5. PagesTypeOK'
    <2>1. deeds' \in 0 .. MaxDone
      BY <1>1, PagesAssumption DEF AskFails, Deed, PagesTypeOK
    <2>2. searching' \in BOOLEAN /\ excused' \in BOOLEAN
      BY <1>2
    <2> QED BY <1>1, <1>2, <1>4, <2>1, <2>2 DEF PagesTypeOK
  <1>6. AnswersFit'
    <2>1. ASSUME NEW j \in DOMAIN asked', asked'[j].read, ~ asked'[j].torn
          PROVE  asked'[j].slice = Slice(asked'[j].q) /\ asked'[j].there = Fitting(asked'[j].q)
      BY <1>3, <1>4, <2>1 DEF PagesIInv, AnswersFit
    <2> QED BY <1>2, <2>1, SameRows DEF AnswersFit
  <1>7. OnePage'
    BY <1>2, <1>3, <1>4 DEF PagesIInv, OnePage
  <1>8. LastIsRight'
    BY <1>2 DEF LastIsRight
  <1>9. WalkFits'
    <2>1. WalkFits
      BY DEF PagesIInv
    <2> QED BY <1>2, <2>1, SameRows DEF WalkFits, Newer
  <1> QED BY <1>5, <1>6, <1>7, <1>8, <1>9 DEF PagesIInv

\* A row that a page does not have, and that comes after the pages before it,
\* comes after that page.
LEMMA BeyondThePage ==
    ASSUME rows \in Slices, NEW q \in Queries, NEW last \in Nat,
           q.page = last \/ q.page = last + 1,
           NEW id \in Fitting(q) \ DOMAIN Slice(q), last * q.size <= Newer(Fitting(q), id)
    PROVE  /\ table.paged /\ q.page * q.size <= Newer(Fitting(q), id)
           /\ q.page * q.size < Cardinality(Fitting(q))
  <1> DEFINE n == Newer(Fitting(q), id)
  <1>1. n \in Nat /\ n < Cardinality(Fitting(q)) /\ Cardinality(Fitting(q)) \in Nat
    <2>1. Fitting(q) \in SUBSET Keys /\ id \in Keys /\ id \in Fitting(q)
      BY RowFacts
    <2> QED BY <2>1, NewerFacts
  <1>2. ~ InSlice(q, id)
    BY DEF Slice, Restrict
  <1>3. table.paged /\ ~ (Skipped(q) <= n /\ n < Skipped(q) + q.size)
    BY <1>2 DEF InSlice
  <1>4. q.page \in Nat /\ q.size \in Nat
    BY QueryFacts
  <1>5. q.page * q.size \in Nat /\ last * q.size \in Nat
    BY <1>4
  <1> HIDE DEF n
  <1>6. q.page * q.size <= n
    <2>1. CASE q.page = last
      BY <2>1 DEF n
    <2>2. CASE q.page = last + 1
      <3>1. q.page * q.size = last * q.size + q.size /\ (q.page - 1) * q.size = last * q.size
        <4>1. \A z \in Nat : (last + 1) * z = last * z + z
          OBVIOUS
        <4>2. q.page - 1 = last
          BY <2>2
        <4> QED BY <1>4, <2>2, <4>1, <4>2
      <3>2. last * q.size <= n
        BY DEF n
      <3> QED BY <1>1, <1>3, <1>4, <1>5, <3>1, <3>2 DEF Skipped
    <2> QED BY <2>1, <2>2
  <1> QED BY <1>1, <1>3, <1>5, <1>6 DEF n

\* What an answer makes of the walk.
LEMMA WalkGoesOn ==
    ASSUME PagesIInv, NEW i \in DOMAIN asked, asked[i].read
    PROVE  /\ Walked(asked[i]) \in {NoWalk} \cup Walks
           /\ Walked(asked[i]).on /\ ~ Walked(asked[i]).spoiled =>
                  /\ Walked(asked[i]).there \subseteq Fitting(Walked(asked[i]).q)
                  /\ \A id \in Walked(asked[i]).there \ Walked(asked[i]).seen :
                         /\ table.paged
                         /\ Walked(asked[i]).last * Walked(asked[i]).q.size
                                < Cardinality(Fitting(asked[i].q))
                         /\ Walked(asked[i]).last * Walked(asked[i]).q.size
                                <= Newer(Fitting(Walked(asked[i]).q), id)
  <1> DEFINE r == asked[i]
             w == Walked(r)
  <1>1. /\ rows \in Slices /\ walk \in {NoWalk} \cup Walks /\ r \in Requests
        /\ asked \in Seq(Requests)
    BY DEF PagesIInv, PagesTypeOK
  <1>2. r.q \in Queries /\ r.slice \in Slices /\ r.there \subseteq Keys /\ r.q.page \in Nat
        /\ r.spoiled \in BOOLEAN /\ r.torn \in BOOLEAN
    BY <1>1, RequestFields, QueryFacts
  <1>3. DOMAIN r.slice \subseteq Keys
    BY <1>2 DEF Slices
  <1>4. ~ r.torn => r.slice = Slice(r.q) /\ r.there = Fitting(r.q)
    BY DEF PagesIInv, AnswersFit
  <1>5. CASE r.late
    BY <1>5 DEF Walked, NoWalk
  <1>6. CASE ~ r.late /\ r.q.page = 1
    <2> DEFINE b == r.spoiled \/ r.torn
    <2>1. w = [on |-> TRUE, q |-> r.q, there |-> r.there, seen |-> DOMAIN r.slice,
               last |-> 1, spoiled |-> b]
      BY <1>6 DEF Walked
    <2>2. b \in BOOLEAN
      BY <1>2
    <2>3. w \in Walks
      <3> HIDE DEF b
      <3> QED BY <1>2, <1>3, <2>1, <2>2 DEF Walks
    <2>4. w.there = r.there /\ w.q = r.q /\ w.seen = DOMAIN r.slice /\ w.last = 1
          /\ w.spoiled = b
      BY <2>1
    <2>5. ASSUME ~ b, NEW id \in r.there \ DOMAIN r.slice
          PROVE  /\ table.paged /\ 1 * r.q.size <= Newer(Fitting(r.q), id)
                 /\ 1 * r.q.size < Cardinality(Fitting(r.q))
      <3>1. id \in Fitting(r.q) \ DOMAIN Slice(r.q)
        BY <1>4, <2>5
      <3>2. Newer(Fitting(r.q), id) \in Nat
        <4>1. Fitting(r.q) \in SUBSET Keys /\ id \in Keys
          BY <1>1, <3>1, RowFacts
        <4> QED BY <4>1, NewerFacts
      <3>3. 0 * r.q.size <= Newer(Fitting(r.q), id) /\ r.q.page = 0 + 1
        BY <1>2, <1>6, <3>2, QueryFacts
      <3> QED BY <1>1, <1>2, <1>6, <3>1, <3>3, BeyondThePage
    <2> HIDE DEF w, b
    <2>6. ~ b => r.there = Fitting(r.q)
      BY <1>4 DEF b
    <2> QED BY <2>3, <2>4, <2>5, <2>6 DEF w
  <1>7. CASE /\ ~ r.late /\ walk.on /\ [r.q EXCEPT !.page = 1] = walk.q
             /\ r.q.page \in {walk.last, walk.last + 1}
             /\ w = [walk EXCEPT !.seen = @ \cup DOMAIN r.slice, !.last = r.q.page,
                                 !.spoiled = @ \/ r.torn]
    <2> DEFINE b == walk.spoiled \/ r.torn
    <2>1. walk \in Walks
      BY <1>1, <1>7 DEF NoWalk
    <2>2. /\ walk.q \in Queries /\ walk.last \in Nat /\ walk.there \subseteq Keys
          /\ walk.seen \subseteq Keys /\ walk.spoiled \in BOOLEAN
      BY <2>1 DEF Walks
    <2>3. b \in BOOLEAN /\ walk.seen \cup DOMAIN r.slice \subseteq Keys
      BY <1>2, <1>3, <2>2
    <2>4. w \in Walks
      <3>1. w = [walk EXCEPT !.seen = walk.seen \cup DOMAIN r.slice, !.last = r.q.page,
                             !.spoiled = b]
        BY <1>7
      <3> HIDE DEF b, w
      <3> QED BY <1>2, <2>1, <2>3, <3>1, Zenon DEF Walks
    <2>5. /\ w.there = walk.there /\ w.q = walk.q /\ w.seen = walk.seen \cup DOMAIN r.slice
          /\ w.last = r.q.page /\ w.spoiled = b
      <3> HIDE DEF w
      <3> QED BY <1>7, <2>1 DEF Walks
    <2>6. Fitting(walk.q) = Fitting(r.q) /\ walk.q.size = r.q.size
      <3>1. /\ walk.q.filter = r.q.filter /\ walk.q.search = r.q.search
            /\ walk.q.size = r.q.size
        BY <1>2, <1>7 DEF Queries
      <3> QED BY <3>1 DEF Fitting, Fits
    <2> HIDE DEF w
    <2>7. ASSUME ~ b
          PROVE  /\ walk.there \subseteq Fitting(r.q)
                 /\ \A id \in walk.there \ walk.seen :
                        walk.last * r.q.size <= Newer(Fitting(r.q), id)
      BY <1>7, <2>6, <2>7 DEF PagesIInv, WalkFits
    <2>8. ASSUME ~ b, NEW id \in walk.there \ (walk.seen \cup DOMAIN r.slice)
          PROVE  /\ table.paged /\ r.q.page * r.q.size <= Newer(Fitting(r.q), id)
                 /\ r.q.page * r.q.size < Cardinality(Fitting(r.q))
      <3>1. id \in Fitting(r.q) \ DOMAIN Slice(r.q)
        BY <1>4, <2>7, <2>8
      <3>2. walk.last * r.q.size <= Newer(Fitting(r.q), id)
        BY <2>7, <2>8
      <3> QED BY <1>1, <1>2, <1>7, <2>2, <3>1, <3>2, BeyondThePage
    <2> HIDE DEF b
    <2> QED BY <2>4, <2>5, <2>6, <2>7, <2>8 DEF w
  <1>8. CASE w = NoWalk
    BY <1>8 DEF NoWalk
  <1> QED BY <1>5, <1>6, <1>7, <1>8 DEF Walked

LEMMA ShowKeeps ==
    ASSUME PagesIInv, NEW i \in DOMAIN asked, Show(i)
    PROVE  PagesIInv'
  <1>1. PagesTypeOK /\ rows \in Slices /\ asked \in Seq(Requests) /\ asked[i] \in Requests
    BY DEF PagesIInv, PagesTypeOK
  <1>2. /\ asked[i].read /\ asked' = Without(i) /\ searching' = FALSE
        /\ shown' = [q |-> asked[i].q, slice |-> asked[i].slice,
                     total |-> Cardinality(Fitting(asked[i].q))]
        /\ walk' = Walked(asked[i])
        /\ excused' = IF asked[i].late THEN TRUE
                      ELSE IF i = Len(asked) /\ asked[i].q = Sent(query) THEN FALSE
                      ELSE excused
        /\ UNCHANGED <<table, rows, query, clicks, deeds>>
    BY DEF Show
  <1>3. /\ asked' \in Seq(Requests) /\ Len(asked') = Len(asked) - 1
        /\ \A j \in DOMAIN asked' : \E k \in DOMAIN asked :
               /\ asked'[j].q = asked[k].q /\ asked'[j].read = asked[k].read
               /\ asked'[j].torn = asked[k].torn /\ asked'[j].slice = asked[k].slice
               /\ asked'[j].there = asked[k].there
               /\ asked[k].late => asked'[j].late
               /\ k = (IF j < i THEN j ELSE j + 1) /\ (j < i => asked'[j].late)
    BY <1>1, <1>2, OthersStay
  <1>4. PagesTypeOK'
    <2>1. Cardinality(Fitting(asked[i].q)) \in Nat
      <3>1. Fitting(asked[i].q) \in SUBSET Keys
        BY <1>1, RowFacts
      <3>2. 1 \in Keys
        BY PagesAssumption DEF Keys
      <3> QED BY <3>1, <3>2, NewerFacts
    <2>2. shown' \in [q : Queries, slice : Slices, total : Nat]
      BY <1>1, <1>2, <2>1, RequestFields
    <2>3. walk' \in {NoWalk} \cup Walks
      BY <1>2, WalkGoesOn
    <2>4. searching' \in BOOLEAN /\ excused' \in BOOLEAN
      BY <1>1, <1>2 DEF PagesTypeOK
    <2>5. (clicks \in Seq(Queries))'
      BY <1>1, <1>2 DEF PagesTypeOK
    <2> QED BY <1>1, <1>2, <1>3, <2>2, <2>3, <2>4, <2>5 DEF PagesTypeOK
  <1>5. AnswersFit'
    <2>1. ASSUME NEW j \in DOMAIN asked', asked'[j].read, ~ asked'[j].torn
          PROVE  asked'[j].slice = Slice(asked'[j].q) /\ asked'[j].there = Fitting(asked'[j].q)
      <3>1. PICK k \in DOMAIN asked :
               /\ asked'[j].q = asked[k].q /\ asked'[j].read = asked[k].read
               /\ asked'[j].torn = asked[k].torn /\ asked'[j].slice = asked[k].slice
               /\ asked'[j].there = asked[k].there
        BY <1>3
      <3> QED BY <2>1, <3>1 DEF PagesIInv, AnswersFit
    <2> QED BY <1>2, <2>1, SameRows DEF AnswersFit
  <1>6. OnePage'
    <2>1. \A j \in DOMAIN asked' : \E k \in DOMAIN asked : asked'[j].q = asked[k].q
      BY <1>3
    <2> QED BY <1>2, <2>1 DEF PagesIInv, OnePage
  <1>7. LastIsRight'
    <2> SUFFICES ASSUME ~ excused'
                 PROVE  IF asked' = <<>> THEN shown'.q = Sent(query)
                        ELSE asked'[Len(asked')].late \/ asked'[Len(asked')].q = Sent(query)
      <3>1. Sent(query)' = Sent(query)
        BY <1>2 DEF Sent
      <3> QED BY <3>1 DEF LastIsRight
    <2>1. ~ asked[i].late /\ i \in 1 .. Len(asked) /\ Len(asked) \in Nat
          /\ shown'.q = asked[i].q
      BY <1>1, <1>2
    <2>2. asked' # <<>> => Len(asked') \in DOMAIN asked'
      BY <1>3
    <2>3. CASE i = Len(asked) /\ asked[i].q = Sent(query)
      <3>1. asked' # <<>> => Len(asked') < i
        BY <1>3, <2>1, <2>3
      <3> QED BY <1>3, <2>1, <2>2, <2>3, <3>1
    <2>4. CASE ~ (i = Len(asked) /\ asked[i].q = Sent(query))
      <3>1. ~ excused /\ asked # <<>>
        BY <1>2, <2>1, <2>4
      <3>2. asked[Len(asked)].late \/ asked[Len(asked)].q = Sent(query)
        BY <3>1 DEF PagesIInv, LastIsRight
      <3>3. i < Len(asked)
        BY <2>1, <2>4, <3>2
      <3>4. Len(asked') \in DOMAIN asked' /\ ~ Len(asked') < i
            /\ Len(asked') + 1 = Len(asked) /\ asked' # <<>>
        BY <1>3, <2>1, <3>3
      <3>5. /\ asked'[Len(asked')].q = asked[Len(asked)].q
            /\ asked[Len(asked)].late => asked'[Len(asked')].late
        BY <1>3, <3>4
      <3> QED BY <3>2, <3>4, <3>5
    <2> QED BY <2>3, <2>4
  <1>8. WalkFits'
    <2>1. shown'.total = Cardinality(Fitting(asked[i].q))
      BY <1>2
    <2>2. \A q : Fitting(q)' = Fitting(q)
      BY <1>2, SameRows
    <2> DEFINE w == Walked(asked[i])
    <2>3. w.on /\ ~ w.spoiled =>
                  /\ w.there \subseteq Fitting(w.q)
                  /\ \A id \in w.there \ w.seen :
                         /\ table.paged /\ w.last * w.q.size < shown'.total
                         /\ w.last * w.q.size <= Newer(Fitting(w.q), id)
      BY <1>2, <2>1, WalkGoesOn
    <2>4. walk' = w
      BY <1>2
    <2> HIDE DEF w
    <2> QED BY <1>2, <2>2, <2>3, <2>4 DEF WalkFits, Newer
  <1> QED BY <1>4, <1>5, <1>6, <1>7, <1>8 DEF PagesIInv

\* What is left of a sequence is one.
LEMMA RestFacts ==
    ASSUME NEW S, NEW s \in Seq(S), NEW i \in DOMAIN s
    PROVE  /\ Rest(s, i) \in Seq(S)
           /\ \A j \in DOMAIN Rest(s, i) : \E k \in DOMAIN s : Rest(s, i)[j] = s[k]
  <1>1. \A j \in 1 .. Len(s) - 1 : j \in DOMAIN s /\ j + 1 \in DOMAIN s
    OBVIOUS
  <1>2. \A j \in 1 .. Len(s) - 1 : \E k \in DOMAIN s : Rest(s, i)[j] = s[k]
    BY <1>1 DEF Rest
  <1>3. DOMAIN Rest(s, i) = 1 .. Len(s) - 1 /\ Len(s) - 1 \in Nat
    BY DEF Rest
  <1>4. Rest(s, i) \in [1 .. Len(s) - 1 -> S]
    BY <1>2, <1>3 DEF Rest
  <1> QED BY <1>2, <1>3, <1>4

\* A handler: its click, its request, its failure.
LEMMA HandlersKeep ==
    ASSUME PagesIInv, Click \/ \E k \in DOMAIN clicks : Acted(k) \/ ActFails(k)
    PROVE  PagesIInv'
  <1>1. PagesTypeOK /\ OnePage /\ WalkFits /\ AnswersFit
    BY DEF PagesIInv
  <1>2. /\ query \in Queries /\ clicks \in Seq(Queries) /\ asked \in Seq(Requests)
        /\ rows \in Slices /\ deeds \in 0 .. MaxDone
    BY <1>1 DEF PagesTypeOK
  <1>3. CASE Click
    <2>1. /\ clicks' = Append(clicks, Sent(query)) /\ deeds < MaxDone /\ deeds' = deeds + 1
          /\ UNCHANGED <<table, rows, query, asked, shown, searching, excused, walk>>
      BY <1>3 DEF Click, Deed
    <2>2. Sent(query) \in Queries /\ Sent(query).page = query.page
      BY <1>2, QueryFacts
    <2>3. /\ clicks' \in Seq(Queries)
          /\ \A k \in DOMAIN clicks' : clicks'[k] = Sent(query)
                                       \/ (k \in DOMAIN clicks /\ clicks'[k] = clicks[k])
      BY <1>2, <2>1, <2>2
    <2>4. PagesTypeOK'
      <3>1. deeds' \in 0 .. MaxDone
        BY <1>2, <2>1, PagesAssumption
      <3> QED BY <1>1, <2>1, <2>3, <3>1 DEF PagesTypeOK
    <2>5. OnePage'
      BY <1>1, <2>1, <2>2, <2>3 DEF OnePage
    <2> QED BY <2>1, <2>4, <2>5, QuietPage DEF PagesIInv
  <1>4. ASSUME NEW k \in DOMAIN clicks, ActFails(k) PROVE PagesIInv'
    <2>1. /\ clicks' = Rest(clicks, k)
          /\ UNCHANGED <<table, rows, query, asked, shown, searching, deeds, excused, walk>>
      BY <1>4 DEF ActFails
    <2>2. /\ clicks' \in Seq(Queries)
          /\ \A j \in DOMAIN clicks' : \E i \in DOMAIN clicks : clicks'[j] = clicks[i]
      BY <1>2, <2>1, RestFacts
    <2>3. PagesTypeOK' /\ OnePage'
      BY <1>1, <2>1, <2>2 DEF PagesTypeOK, OnePage
    <2> QED BY <2>1, <2>3, QuietPage DEF PagesIInv
  <1>5. ASSUME NEW k \in DOMAIN clicks, Acted(k) PROVE PagesIInv'
    <2> DEFINE r == Request(clicks[k])
    <2>1. /\ clicks' = Rest(clicks, k) /\ asked' = Append(asked, r)
          /\ excused' = (excused \/ clicks[k] # Sent(query))
          /\ searching' = (searching \/ table = OpsPage)
          /\ UNCHANGED <<table, rows, query, shown, deeds, walk>>
      BY <1>5 DEF Acted, Marks
    <2>2. /\ clicks' \in Seq(Queries)
          /\ \A j \in DOMAIN clicks' : \E i \in DOMAIN clicks : clicks'[j] = clicks[i]
      BY <1>2, <2>1, RestFacts
    <2>3. r \in Requests /\ r.q = clicks[k] /\ ~ r.read /\ ~ r.late /\ clicks[k] \in Queries
      BY <1>2, NewRequest
    <2> HIDE DEF r
    <2>4. /\ asked' \in Seq(Requests) /\ asked' # <<>> /\ asked'[Len(asked')] = r
          /\ \A j \in DOMAIN asked' :
                 (j \in DOMAIN asked /\ asked'[j] = asked[j]) \/ asked'[j] = r
      BY <1>2, <2>1, <2>3, AppendFacts
    <2>5. PagesTypeOK'
      <3>1. excused' \in BOOLEAN /\ searching' \in BOOLEAN
        BY <1>1, <2>1 DEF PagesTypeOK
      <3> QED BY <1>1, <2>1, <2>2, <2>4, <3>1 DEF PagesTypeOK
    <2>6. AnswersFit'
      <3>1. ASSUME NEW j \in DOMAIN asked', asked'[j].read, ~ asked'[j].torn
            PROVE  /\ asked'[j].slice = Slice(asked'[j].q)
                   /\ asked'[j].there = Fitting(asked'[j].q)
        BY <1>1, <2>3, <2>4, <3>1 DEF AnswersFit
      <3> QED BY <2>1, <3>1, SameRows DEF AnswersFit
    <2>7. OnePage'
      BY <1>1, <2>1, <2>2, <2>3, <2>4 DEF OnePage
    <2>8. LastIsRight'
      <3>1. Sent(query)' = Sent(query)
        BY <2>1 DEF Sent
      <3> QED BY <2>1, <2>3, <2>4, <3>1 DEF LastIsRight
    <2>9. WalkFits'
      BY <1>1, <2>1, SameRows DEF WalkFits, Newer
    <2> QED BY <2>5, <2>6, <2>7, <2>8, <2>9 DEF PagesIInv
  <1> QED BY <1>3, <1>4, <1>5

\* The requests when the rows become `new`.
MarkedFor(new) == [j \in DOMAIN asked |-> Marked(asked[j], new)]

LEMMA MarkedAll ==
    ASSUME asked \in Seq(Requests), NEW new
    PROVE  /\ MarkedFor(new) \in Seq(Requests) /\ Len(MarkedFor(new)) = Len(asked)
           /\ DOMAIN MarkedFor(new) = DOMAIN asked
           /\ \A j \in DOMAIN asked :
                  /\ MarkedFor(new)[j].q = asked[j].q
                  /\ MarkedFor(new)[j].late = asked[j].late
                  /\ MarkedFor(new)[j].read => MarkedFor(new)[j].torn
  <1> DEFINE m == MarkedFor(new)
  <1>1. ASSUME NEW j \in DOMAIN asked
        PROVE  /\ m[j] \in Requests /\ m[j].q = asked[j].q /\ m[j].late = asked[j].late
               /\ m[j].read => m[j].torn
    <2> DEFINE t == asked[j].torn \/ asked[j].read
               p == asked[j].spoiled \/ (asked[j].read /\ Leaves(asked[j].q, new))
               r == [asked[j] EXCEPT !.torn = t, !.spoiled = p]
    <2>1. asked[j] \in Requests /\ m[j] = r
      <3>1. m[j] = Marked(asked[j], new)
        BY DEF MarkedFor
      <3>2. Marked(asked[j], new) = r
        BY DEF Marked
      <3>3. asked[j] \in Requests
        OBVIOUS
      <3> QED BY <3>1, <3>2, <3>3
    <2>2. t \in BOOLEAN /\ p \in BOOLEAN
      BY <2>1, RequestFields DEF Leaves
    <2> HIDE DEF t, p
    <2>3. r \in Requests
      BY <2>1, <2>2, Zenon DEF Requests
    <2>4. r.torn = t /\ r.q = asked[j].q /\ r.late = asked[j].late /\ r.read = asked[j].read
      BY <2>1 DEF Requests
    <2> HIDE DEF r
    <2> QED BY <2>1, <2>3, <2>4 DEF t
  <1>2. DOMAIN asked = 1 .. Len(asked) /\ Len(asked) \in Nat
    OBVIOUS
  <1>3. m \in [1 .. Len(asked) -> Requests]
    BY <1>1, <1>2 DEF MarkedFor
  <1> HIDE DEF m
  <1>4. m \in Seq(Requests) /\ Len(m) = Len(asked) /\ DOMAIN m = DOMAIN asked
    BY <1>2, <1>3
  <1> QED BY <1>1, <1>4 DEF m

LEMMA WalkNumbers ==
    ASSUME PagesIInv, walk.on
    PROVE  walk.last * walk.q.size \in Nat /\ shown.total \in Nat
  <1>1. walk \in {NoWalk} \cup Walks /\ shown \in [q : Queries, slice : Slices, total : Nat]
    BY DEF PagesIInv, PagesTypeOK
  <1>2. ~ NoWalk.on
    BY DEF NoWalk
  <1>3. walk \in Walks
    BY <1>1, <1>2
  <1>4. walk.last \in Nat /\ walk.q.size \in Nat
    BY <1>3, QueryFacts DEF Walks
  <1>5. walk.last * walk.q.size \in Nat
    BY <1>4
  <1> QED BY <1>1, <1>5

\* Records that come, change or go push the ones a walk has not shown further, or
\* spoil it.
LEMMA WalkOutlives ==
    ASSUME PagesIInv, NEW new \in Slices, rows' = new, walk' = Spoilt(new),
           UNCHANGED <<table, shown>>
    PROVE  walk' \in {NoWalk} \cup Walks /\ WalkFits'
  <1>1. walk \in {NoWalk} \cup Walks /\ rows \in Slices
    BY DEF PagesIInv, PagesTypeOK
  <1>2. CASE walk.on /\ Leaves(walk.q, new)
    <2>1. walk \in Walks /\ walk' = [walk EXCEPT !.spoiled = TRUE]
      BY <1>1, <1>2 DEF Spoilt, NoWalk
    <2>2. walk' \in Walks
      BY <2>1, Zenon DEF Walks
    <2>3. walk'.spoiled
      BY <2>1 DEF Walks
    <2> QED BY <2>2, <2>3 DEF WalkFits
  <1>3. CASE ~ (walk.on /\ Leaves(walk.q, new))
    <2>1. walk' = walk
      BY <1>3 DEF Spoilt
    <2> SUFFICES ASSUME walk.on, ~ walk.spoiled PROVE WalkFits'
      BY <1>1, <2>1 DEF WalkFits
    <2> DEFINE F == Fitting(walk.q)
               G == {id \in DOMAIN new : Fits(new[id], walk.q)}
    <2>2. F \subseteq G
      BY <1>3 DEF Leaves
    <2>3. Fitting(walk.q)' = G
      BY <2>1 DEF Fitting, Present, Fits
    <2>4. F \in SUBSET Keys /\ G \in SUBSET Keys
      BY <1>1, RowFacts DEF Slices
    <2> HIDE DEF F, G
    <2>5. /\ walk.there \subseteq F
          /\ \A id \in walk.there \ walk.seen :
                 /\ table.paged /\ walk.last * walk.q.size < shown.total
                 /\ walk.last * walk.q.size <= Newer(F, id)
      BY DEF PagesIInv, WalkFits, F
    <2>6. walk.last * walk.q.size \in Nat
      BY WalkNumbers
    <2>7. ASSUME NEW id \in walk.there \ walk.seen
          PROVE  table.paged /\ walk.last * walk.q.size < shown.total
                 /\ walk.last * walk.q.size <= Newer(G, id)
      <3>1. id \in Keys
        BY <2>4, <2>5
      <3>2. Newer(F, id) \in Nat /\ Newer(F, id) <= Newer(G, id) /\ Newer(G, id) \in Nat
        BY <2>2, <2>4, <3>1, NewerFacts
      <3> QED BY <2>5, <2>6, <2>7, <3>2
    <2>8. walk'.there \subseteq G
      BY <2>1, <2>2, <2>5
    <2> QED BY <2>1, <2>3, <2>7, <2>8 DEF WalkFits, Newer
  <1> QED BY <1>2, <1>3

LEMMA ChangesKeepPages ==
    ASSUME PagesIInv, NEW new \in Slices, RowsBecome(new)
    PROVE  PagesIInv'
  <1>1. PagesTypeOK /\ asked \in Seq(Requests)
    BY DEF PagesIInv, PagesTypeOK
  <1>2. /\ rows' = new /\ asked' = MarkedFor(new) /\ walk' = Spoilt(new)
        /\ UNCHANGED <<table, query, shown, clicks, searching, excused>>
    BY DEF RowsBecome, MarkedFor
  <1>3. /\ asked' \in Seq(Requests) /\ Len(asked') = Len(asked)
        /\ DOMAIN asked' = DOMAIN asked
        /\ \A j \in DOMAIN asked :
               /\ asked'[j].q = asked[j].q /\ asked'[j].late = asked[j].late
               /\ asked'[j].read => asked'[j].torn
    BY <1>1, <1>2, MarkedAll
  <1>4. walk' \in {NoWalk} \cup Walks /\ WalkFits'
    BY <1>2, WalkOutlives
  <1>5. PagesTypeOK'
    <2>1. deeds' \in 0 .. MaxDone
      BY <1>1, PagesAssumption DEF PagesTypeOK, RowsBecome, Deed
    <2> QED BY <1>1, <1>2, <1>3, <1>4, <2>1 DEF PagesTypeOK
  <1>6. AnswersFit'
    BY <1>3 DEF AnswersFit
  <1>7. OnePage'
    BY <1>2, <1>3 DEF PagesIInv, OnePage
  <1>8. LastIsRight'
    <2>1. Sent(query)' = Sent(query)
      BY <1>2 DEF Sent
    <2>2. (asked' = <<>> <=> asked = <<>>) /\ (asked # <<>> => Len(asked) \in DOMAIN asked)
      BY <1>1, <1>3
    <2> QED BY <1>2, <1>3, <2>1, <2>2 DEF PagesIInv, LastIsRight
  <1> QED BY <1>4, <1>5, <1>6, <1>7, <1>8 DEF PagesIInv

LEMMA RowsKeep ==
    ASSUME PagesIInv, NewRow \/ RowChanged \/ RowRemoved
    PROVE  PagesIInv'
  <1>1. rows \in Slices /\ Present \in SUBSET Keys /\ rows \in [Present -> Records]
    BY RowFacts DEF PagesIInv, PagesTypeOK
  <1>2. ASSUME NEW id \in Keys, NEW v \in {0, 1},
               RowsBecome([k \in Present \cup {id} |-> IF k = id THEN RowOf(v, v) ELSE rows[k]])
        PROVE  PagesIInv'
    <2> DEFINE new == [k \in Present \cup {id} |-> IF k = id THEN RowOf(v, v) ELSE rows[k]]
    <2>1. RowOf(v, v) \in Records
      BY DEF RowOf, Records
    <2>2. new \in [Present \cup {id} -> Records] /\ Present \cup {id} \in SUBSET Keys
      BY <1>1, <2>1
    <2> HIDE DEF new
    <2>3. new \in Slices
      BY <2>2 DEF Slices
    <2> QED BY <1>2, <2>3, ChangesKeepPages DEF new
  <1>3. ASSUME NEW id \in Present, NEW r \in Records, RowsBecome([rows EXCEPT ![id] = r])
        PROVE  PagesIInv'
    <2> DEFINE new == [rows EXCEPT ![id] = r]
    <2>1. new \in [Present -> Records]
      BY <1>1
    <2> HIDE DEF new
    <2>2. new \in Slices
      BY <1>1, <2>1 DEF Slices
    <2> QED BY <1>3, <2>2, ChangesKeepPages DEF new
  <1>4. ASSUME NEW id \in Present, RowsBecome(Restrict(rows, Present \ {id})) PROVE PagesIInv'
    <2>1. Restrict(rows, Present \ {id}) \in Slices
      BY <1>1, RowFacts
    <2> QED BY <1>4, <2>1, ChangesKeepPages
  <1> QED BY <1>2, <1>3, <1>4 DEF NewRow, RowChanged, RowRemoved

LEMMA PagesNextOK == PagesIInv /\ [PagesNext]_pagesVars => PagesIInv'
  <1> SUFFICES ASSUME PagesIInv, [PagesNext]_pagesVars PROVE PagesIInv'
    OBVIOUS
  <1>1. CASE UNCHANGED pagesVars
    <2>1. UNCHANGED <<table, rows, query, asked, shown, clicks, searching, deeds,
                      excused, walk>>
      BY <1>1 DEF pagesVars
    <2>2. PagesTypeOK' /\ OnePage'
      BY <2>1 DEF PagesIInv, PagesTypeOK, OnePage
    <2> QED BY <2>1, <2>2, QuietPage DEF PagesIInv
  <1>2. CASE PagesNext
    BY <1>2, QueryStepsKeep, ReadSliceKeeps, ShowKeeps, AskFailsKeeps, HandlersKeep,
       RowsKeep DEF PagesNext, Answering
  <1> QED BY <1>1, <1>2

LEMMA PagesInvariant == PagesSpec => []PagesIInv
  <1> QED BY PagesInitOK, PagesNextOK, PTL DEF PagesSpec

(***************************************************************************)
(* The types of the rows, the requests, the handlers and the walk.         *)
(***************************************************************************)
THEOREM PagesTypeCorrect == PagesSpec => []PagesTypeOK
  <1>1. PagesIInv => PagesTypeOK
    BY DEF PagesIInv
  <1> QED BY PagesInvariant, <1>1, PTL

(***************************************************************************)
(* Once everything asked is answered the display fits the query in force,  *)
(* however the answers were ordered, but for the three reasons the code    *)
(* has no remedy for: see excused.                                         *)
(***************************************************************************)
THEOREM DisplaysFit == PagesSpec => []ShownFitsQuery
  <1>1. PagesIInv => ShownFitsQuery
    BY DEF PagesIInv, LastIsRight, ShownFitsQuery
  <1> QED BY PagesInvariant, <1>1, PTL

(***************************************************************************)
(* Who pages from the first page to the last has been shown every row that *)
(* fitted when the walk began, whatever rows came, went or changed, but for *)
(* those that make a walk spoiled.                                         *)
(***************************************************************************)
THEOREM WalksMissNothing == PagesSpec => []WalkMissesNothing
  <1>1. PagesIInv => WalkMissesNothing
    <2> SUFFICES ASSUME PagesIInv, walk.on, ~ walk.spoiled,
                        walk.last * walk.q.size >= shown.total \/ ~ table.paged,
                        NEW id \in walk.there, id \notin walk.seen
                 PROVE  FALSE
      BY DEF WalkMissesNothing
    <2>1. table.paged /\ walk.last * walk.q.size < shown.total
      BY DEF PagesIInv, WalkFits
    <2>2. walk.last * walk.q.size \in Nat /\ shown.total \in Nat
      BY WalkNumbers
    <2> QED BY <2>1, <2>2
  <1> QED BY PagesInvariant, <1>1, PTL

-------------------------------------------------------------------------------
(* The administration: what makes the properties inductive. *)

\* Whose change it is is known, the credentials of the environment are for one
\* address, the sign-in has come to a row unless somebody wrote one under it,
\* and a handler that writes has checked its role.
CallFits(r) ==
    /\ r.by \in spent \cup {NoId}
    /\ r.env \/ r.pc \in {"ensure", "again"} => r.email = Env
    /\ r.pc = "again" => Like(Env) # {} \/ r.met # {}
    /\ r.pc = "stamp" /\ r.env => r.by \in Like(Env) \/ r.met # {}
    /\ r.pc \in {"validate", "read", "commit"} => r.ask \in Changes
    /\ r.pc = "commit" /\ r.ask.op = "dropRole" => r.ask.role # Super

ConsoleIInv ==
    /\ ConsoleTypeOK
    /\ ChangesAreLogged
    /\ \A i \in Ids \ spent : done[i] = 0 /\ opLog[i] = 0
    /\ Super \in roles
    /\ \A c \in ConsoleCalls : CallFits(consoleCall[c])
    /\ actor = "null" => nobody

\* The log rows of an administrator that are still to be written.
Owed(i) == {c \in ConsoleCalls : Is(c, "log") /\ consoleCall[c].by = i}

LEMMA OwedFacts ==
    ASSUME NEW i
    PROVE  /\ IsFiniteSet(Owed(i)) /\ Cardinality(Owed(i)) \in Nat
           /\ IsFiniteSet(Owed(i)') /\ Cardinality(Owed(i)') \in Nat
  <1>1. Owed(i) \subseteq ConsoleCalls /\ Owed(i)' \subseteq ConsoleCalls
    BY DEF Owed
  <1>2. IsFiniteSet(Owed(i)) /\ IsFiniteSet(Owed(i)')
    BY <1>1, ConsoleAssumption, FS_Subset
  <1> QED BY <1>2, FS_CardinalityType

\* An operation log that balances.
LEMMA Balances ==
    /\ ChangesAreLogged <=>
           (~ troubled => \A i \in Here : done[i] = opLog[i] + Cardinality(Owed(i)))
    /\ ChangesAreLogged' <=>
           (~ troubled' => \A i \in Here' : done'[i] = opLog'[i] + Cardinality(Owed(i)'))
  BY DEF ChangesAreLogged, Owed

LEMMA CallFields ==
    ASSUME NEW r \in ConsoleRequests
    PROVE  /\ r.pc \in ConsolePCs /\ r.by \in Ids \cup {NoId}
           /\ r.ask \in Changes \cup {Quiet.ask} /\ r.email \in AdminEmails /\ r.env \in BOOLEAN
           /\ r.met \subseteq Ids
           /\ r.seen \in UNION {[is -> SUBSET Apps] : is \in SUBSET Ids}
  BY DEF ConsoleRequests

LEMMA QuietFits ==
    /\ Quiet \in ConsoleRequests /\ CallFits(Quiet) /\ Quiet.pc = "idle"
    /\ Quiet.by = NoId /\ Quiet.met = {} /\ Quiet.env = FALSE
  <1>1. [i \in {} |-> {}] \in [{} -> SUBSET Apps] /\ {} \in SUBSET Ids
    OBVIOUS
  <1>2. [i \in {} |-> {}] \in UNION {[is -> SUBSET Apps] : is \in SUBSET Ids}
    BY <1>1
  <1>3. Quiet \in ConsoleRequests
    BY <1>2, ConsoleAssumption DEF Quiet, ConsoleRequests, ConsolePCs
  <1> QED BY <1>3 DEF Quiet, CallFits

LEMMA SameStaff ==
    ASSUME UNCHANGED admins
    PROVE  Here' = Here /\ \A e : Of(e)' = Of(e) /\ Like(e)' = Like(e)
  BY DEF Here, Of, Like

\* The rows with the address of the environment.
LEMMA LikeEnv ==
    /\ \A i : i \in Like(Env) <=> i \in Here /\ admins[i].email \in Spellings
    /\ \A i : i \in Like(Env)' <=> i \in Here' /\ admins'[i].email \in Spellings
  BY ConsoleAssumption DEF Like

\* A request that goes on without a write keeps the invariant.
LEMMA TurnKeepsConsole ==
    ASSUME ConsoleIInv, NEW c \in ConsoleCalls, NEW r \in ConsoleRequests, CallFits(r),
           consoleCall' = [consoleCall EXCEPT ![c] = r], ~ Is(c, "log"), r.pc # "log",
           UNCHANGED <<staff, rights, apps, opLog, automation, done, troubled>>,
           tokens' \subseteq spent, acts' \in 0 .. MaxActs
    PROVE  ConsoleIInv'
  <1>1. /\ consoleCall' \in [ConsoleCalls -> ConsoleRequests] /\ consoleCall'[c] = r
        /\ \A d \in ConsoleCalls : d # c => consoleCall'[d] = consoleCall[d]
    BY DEF ConsoleIInv, ConsoleTypeOK
  <1>2. UNCHANGED <<admins, spent, roles, may, apps, opLog, actor, dropped, nobody, done, troubled>>
    BY DEF staff, rights, automation
  <1>3. Here' = Here /\ \A e : Of(e)' = Of(e) /\ Like(e)' = Like(e)
    BY <1>2, SameStaff
  <1>4. ConsoleTypeOK'
    BY <1>1, <1>2, <1>3 DEF ConsoleIInv, ConsoleTypeOK
  <1>5. ASSUME NEW i PROVE Owed(i)' = Owed(i)
    BY <1>1 DEF Owed, Is
  <1>6. ChangesAreLogged'
    BY <1>2, <1>3, <1>5, Balances DEF ConsoleIInv
  <1>7. \A d \in ConsoleCalls : CallFits(consoleCall[d])'
    BY <1>1, <1>2, <1>3 DEF ConsoleIInv, CallFits
  <1> QED BY <1>2, <1>4, <1>6, <1>7 DEF ConsoleIInv

LEMMA ConsoleInitOK == ConsoleInit => ConsoleIInv
  <1> SUFFICES ASSUME ConsoleInit PROVE ConsoleIInv
    OBVIOUS
  <1>1. ASSUME NEW e \in AdminEmails, NEW k \in Roles
        PROVE  /\ AdminRow(e, k) \in Rows /\ Nobody \in Rows /\ AdminRow(e, k).here /\ ~ Nobody.here
               /\ AdminRow(e, k).email = e /\ AdminRow(e, k).role = k
    BY ConsoleAssumption DEF AdminRow, Nobody, Rows
  <1>2. /\ admins \in [Ids -> Rows] /\ spent \subseteq Ids /\ Here \subseteq spent
        /\ roles \subseteq Roles /\ Super \in roles
        /\ \A i \in Here : admins[i].role \in roles
        /\ \A i, j \in Here : admins[i].email = admins[j].email => i = j
    <2>1. CASE admins = [i \in Ids |-> Nobody] /\ spent = {} /\ roles = {Super}
      BY <1>1, <2>1, ConsoleAssumption DEF Here
    <2>2. CASE /\ roles = Roles
               /\ \E i, j \in Ids, e \in AdminEmails \ {Env}, r \in Roles \ {Super} :
                     /\ i # j /\ spent = {i, j}
                     /\ admins = [[x \in Ids |-> Nobody] EXCEPT ![i] = AdminRow(Env, Super),
                                                               ![j] = AdminRow(e, r)]
      <3>1. PICK i \in Ids, j \in Ids, e \in AdminEmails \ {Env}, r \in Roles \ {Super} :
                     /\ i # j /\ spent = {i, j}
                     /\ admins = [[x \in Ids |-> Nobody] EXCEPT ![i] = AdminRow(Env, Super),
                                                               ![j] = AdminRow(e, r)]
        BY <2>2
      <3>2. /\ admins \in [Ids -> Rows] /\ admins[i] = AdminRow(Env, Super) /\ admins[j] = AdminRow(e, r)
            /\ \A x \in Ids \ {i, j} : admins[x] = Nobody
        BY <1>1, <3>1, ConsoleAssumption
      <3>3. Here = {i, j}
        BY <1>1, <3>2, ConsoleAssumption DEF Here
      <3> QED BY <1>1, <2>2, <3>1, <3>2, <3>3, ConsoleAssumption
    <2> QED BY <2>1, <2>2 DEF ConsoleInit
  <1>3. ConsoleTypeOK
    <2>1. /\ opLog \in [Ids -> Nat] /\ done \in [Ids -> Nat] /\ acts \in 0 .. MaxActs
          /\ dropped \in Nat /\ actor \in Ids \cup {"unset", "null"}
      BY ConsoleAssumption DEF ConsoleInit
    <2>2. consoleCall \in [ConsoleCalls -> ConsoleRequests]
      BY QuietFits DEF ConsoleInit
    <2>3. /\ may \subseteq roles /\ apps \subseteq Apps /\ tokens \subseteq spent
          /\ nobody \in BOOLEAN /\ troubled \in BOOLEAN
      BY <1>2 DEF ConsoleInit
    <2> QED BY <1>2, <2>1, <2>2, <2>3, Zenon DEF ConsoleTypeOK
  <1>4. ASSUME NEW i PROVE Owed(i) = {} /\ Cardinality(Owed(i)) = 0
    <2>1. Owed(i) = {}
      BY QuietFits DEF ConsoleInit, Owed, Is
    <2> QED BY <2>1, FS_EmptySet
  <1>5. ChangesAreLogged
    BY <1>4, Balances DEF ConsoleInit, Here
  <1> QED BY <1>2, <1>3, <1>5, QuietFits DEF ConsoleInit, ConsoleIInv

\* What a request becomes is a request.
LEMMA CallsBecome ==
    ASSUME NEW r \in ConsoleRequests
    PROVE  /\ \A pc \in ConsolePCs : [r EXCEPT !.pc = pc] \in ConsoleRequests
           /\ \A i \in Ids : [r EXCEPT !.by = i, !.pc = "stamp"] \in ConsoleRequests
           /\ \A m \in SUBSET Ids : [r EXCEPT !.met = m] \in ConsoleRequests
           /\ \A s \in UNION {[is -> SUBSET Apps] : is \in SUBSET Ids} :
                  [r EXCEPT !.pc = "commit", !.seen = s] \in ConsoleRequests
  <1>1. ASSUME NEW pc \in ConsolePCs PROVE [r EXCEPT !.pc = pc] \in ConsoleRequests
    BY Zenon DEF ConsoleRequests
  <1>2. "stamp" \in ConsolePCs /\ "commit" \in ConsolePCs
    BY DEF ConsolePCs
  <1>3. ASSUME NEW i \in Ids PROVE [r EXCEPT !.by = i, !.pc = "stamp"] \in ConsoleRequests
    <2>1. i \in Ids \cup {NoId}
      OBVIOUS
    <2> QED BY <1>2, <2>1, Zenon DEF ConsoleRequests
  <1>4. ASSUME NEW m \in SUBSET Ids PROVE [r EXCEPT !.met = m] \in ConsoleRequests
    BY Zenon DEF ConsoleRequests
  <1>5. ASSUME NEW s \in UNION {[is -> SUBSET Apps] : is \in SUBSET Ids}
        PROVE  [r EXCEPT !.pc = "commit", !.seen = s] \in ConsoleRequests
    BY <1>2, Zenon DEF ConsoleRequests
  <1> QED BY <1>1, <1>3, <1>4, <1>5

LEMMA ByeKeeps ==
    ASSUME ConsoleIInv, NEW c \in ConsoleCalls, Bye(c), ~ Is(c, "log"),
           UNCHANGED <<staff, rights, apps, opLog, automation, done, acts, troubled>>,
           tokens' \subseteq spent
    PROVE  ConsoleIInv'
  <1>1. acts' \in 0 .. MaxActs
    BY DEF ConsoleIInv, ConsoleTypeOK
  <1> QED BY <1>1, QuietFits, TurnKeepsConsole DEF Bye

\* The sign-in, where a row was found: it is refused or goes on.
LEMMA AdmitKeeps ==
    ASSUME ConsoleIInv, NEW c \in ConsoleCalls, NEW i \in Like(consoleCall[c].email), Admit(c, i),
           ~ Is(c, "log"),
           UNCHANGED <<staff, rights, apps, opLog, tokens, automation, done, acts, troubled>>
    PROVE  ConsoleIInv'
  <1>1. /\ consoleCall[c] \in ConsoleRequests /\ CallFits(consoleCall[c])
        /\ tokens' \subseteq spent /\ acts' \in 0 .. MaxActs /\ i \in Ids /\ i \in spent
    BY DEF ConsoleIInv, ConsoleTypeOK, Like, Here
  <1>2. CASE Bye(c)
    BY <1>1, <1>2, ByeKeeps
  <1>3. CASE consoleCall' = [consoleCall EXCEPT ![c].by = i, ![c].pc = "stamp"]
    <2> DEFINE r == [consoleCall[c] EXCEPT !.by = i, !.pc = "stamp"]
    <2>1. r \in ConsoleRequests
      BY <1>1, CallsBecome
    <2>2. /\ r.by = i /\ r.pc = "stamp" /\ r.env = consoleCall[c].env
          /\ r.email = consoleCall[c].email
      BY <1>1 DEF ConsoleRequests
    <2>3. CallFits(r)
      BY <1>1, <2>2 DEF CallFits
    <2>4. consoleCall' = [consoleCall EXCEPT ![c] = r]
      BY <1>3 DEF ConsoleIInv, ConsoleTypeOK
    <2> HIDE DEF r
    <2> QED BY <1>1, <2>1, <2>2, <2>3, <2>4, TurnKeepsConsole
  <1> QED BY <1>2, <1>3 DEF Admit

\* A request that only takes its next step.
LEMMA ToKeeps ==
    ASSUME ConsoleIInv, NEW c \in ConsoleCalls, NEW pc \in ConsolePCs, To(c, pc),
           ~ Is(c, "log"), pc \notin {"log", "stamp", "commit"},
           pc \in {"ensure", "again"} => consoleCall[c].email = Env,
           pc = "again" => Like(Env) # {},
           pc \in {"validate", "read"} => consoleCall[c].ask \in Changes,
           UNCHANGED <<staff, rights, apps, opLog, tokens, automation, done, acts, troubled>>
    PROVE  ConsoleIInv'
  <1> DEFINE r == [consoleCall[c] EXCEPT !.pc = pc]
  <1>1. /\ consoleCall[c] \in ConsoleRequests /\ CallFits(consoleCall[c])
        /\ tokens' \subseteq spent /\ acts' \in 0 .. MaxActs
    BY DEF ConsoleIInv, ConsoleTypeOK
  <1>2. r \in ConsoleRequests
    BY <1>1, CallsBecome
  <1>3. /\ r.pc = pc /\ r.by = consoleCall[c].by /\ r.env = consoleCall[c].env
        /\ r.email = consoleCall[c].email /\ r.ask = consoleCall[c].ask
        /\ r.met = consoleCall[c].met
    BY <1>1 DEF ConsoleRequests
  <1>4. CallFits(r)
    BY <1>1, <1>3 DEF CallFits
  <1>5. consoleCall' = [consoleCall EXCEPT ![c] = r]
    BY DEF ConsoleIInv, ConsoleTypeOK, To
  <1> HIDE DEF r
  <1> QED BY <1>1, <1>2, <1>3, <1>4, <1>5, TurnKeepsConsole

\* The steps that read, and write no row.
LEMMA LooksKeepConsole ==
    ASSUME ConsoleIInv, NEW c \in ConsoleCalls,
           \/ FindAdmin(c) \/ FindAgain(c) \/ FinishLogin(c) \/ Validate(c) \/ Refused(c)
    PROVE  ConsoleIInv'
  <1>1. tokens \subseteq spent /\ Here \subseteq spent /\ CallFits(consoleCall[c])
    BY DEF ConsoleIInv, ConsoleTypeOK
  <1>2. FindAgain(c) => consoleCall[c].email = Env
    BY <1>1 DEF FindAgain, Is, CallFits
  <1>3. CASE FindAdmin(c)
    <2>1. ~ Is(c, "log") /\ tokens' \subseteq spent
      BY <1>1, <1>3 DEF FindAdmin, Is
    <2>2. CASE Like(consoleCall[c].email) # {}
      <3>1. PICK i \in Like(consoleCall[c].email) : Admit(c, i)
        BY <1>3, <2>2 DEF FindAdmin
      <3> QED BY <1>3, <2>1, <3>1, AdmitKeeps DEF FindAdmin
    <2>3. CASE To(c, "ensure") /\ consoleCall[c].env
      <3>1. consoleCall[c].email = Env
        BY <1>1, <2>3 DEF CallFits
      <3> QED BY <1>3, <2>1, <2>3, <3>1, ToKeeps DEF FindAdmin, ConsolePCs
    <2>4. CASE Bye(c)
      BY <1>3, <2>1, <2>4, ByeKeeps DEF FindAdmin
    <2> QED BY <1>3, <2>2, <2>3, <2>4 DEF FindAdmin
  <1>4. CASE FindAgain(c)
    <2>1. ~ Is(c, "log") /\ tokens' \subseteq spent
      BY <1>1, <1>4 DEF FindAgain, Is
    <2>2. CASE Like(Env) # {}
      <3>1. PICK i \in Like(Env) : Admit(c, i)
        BY <1>4, <2>2 DEF FindAgain
      <3> QED BY <1>2, <1>4, <2>1, <3>1, AdmitKeeps DEF FindAgain
    <2>3. CASE Bye(c)
      BY <1>4, <2>1, <2>3, ByeKeeps DEF FindAgain
    <2> QED BY <1>4, <2>2, <2>3 DEF FindAgain
  <1>5. CASE FinishLogin(c)
    <2>1. ~ Is(c, "log") /\ tokens' \subseteq spent
      BY <1>1, <1>5 DEF FinishLogin, Is
    <2> QED BY <1>5, <2>1, ByeKeeps DEF FinishLogin
  <1>6. CASE Validate(c)
    <2>1. ~ Is(c, "log") /\ tokens' \subseteq spent /\ consoleCall[c].ask \in Changes
      BY <1>1, <1>6 DEF Validate, Is, CallFits
    <2>2. CASE To(c, "read")
      BY <1>6, <2>1, <2>2, ToKeeps DEF Validate, ConsolePCs
    <2>3. CASE Bye(c)
      BY <1>6, <2>1, <2>3, ByeKeeps DEF Validate
    <2> QED BY <1>6, <2>2, <2>3 DEF Validate
  <1>7. CASE Refused(c)
    <2>1. ~ Is(c, "log") /\ tokens' \subseteq spent
      BY <1>1, <1>7 DEF Refused, Is
    <2> QED BY <1>7, <2>1, ByeKeeps DEF Refused
  <1> QED BY <1>3, <1>4, <1>5, <1>6, <1>7

\* The steps that begin a request, and the first read of its handler.
LEMMA BeginningsKeep ==
    ASSUME ConsoleIInv, NEW c \in ConsoleCalls,
           \/ \E e \in AdminEmails, k \in BOOLEAN : StartLogin(c, e, k)
           \/ \E i \in Ids, ask \in Changes : Arrive(c, i, ask)
           \/ ReadTarget(c)
    PROVE  ConsoleIInv'
  <1>1. /\ consoleCall[c] \in ConsoleRequests /\ CallFits(consoleCall[c])
        /\ tokens \subseteq spent /\ acts \in 0 .. MaxActs
    BY DEF ConsoleIInv, ConsoleTypeOK
  <1>2. ASSUME NEW e \in AdminEmails, NEW k \in BOOLEAN, StartLogin(c, e, k)
        PROVE  ConsoleIInv'
    <2> DEFINE r == [Quiet EXCEPT !.pc = "find", !.email = e, !.env = k]
    <2>1. r \in ConsoleRequests
      <3>1. "find" \in ConsolePCs
        BY DEF ConsolePCs
      <3> QED BY <3>1, QuietFits, Zenon DEF ConsoleRequests
    <2>2. r.pc = "find" /\ r.by = NoId /\ (r.env => r.email = Env)
      BY <1>2, QuietFits DEF StartLogin, Quiet
    <2>3. CallFits(r)
      BY <2>2 DEF CallFits
    <2>4. consoleCall' = [consoleCall EXCEPT ![c] = r]
      BY <1>2 DEF StartLogin
    <2> HIDE DEF r
    <2>5. ~ Is(c, "log") /\ tokens' \subseteq spent /\ acts' \in 0 .. MaxActs
      BY <1>1, <1>2 DEF StartLogin, Is
    <2> QED BY <1>2, <2>1, <2>2, <2>3, <2>4, <2>5, TurnKeepsConsole DEF StartLogin
  <1>3. ASSUME NEW i \in Ids, NEW ask \in Changes, Arrive(c, i, ask)
        PROVE  ConsoleIInv'
    <2> DEFINE r == [Quiet EXCEPT !.pc = "validate", !.by = i, !.ask = ask]
    <2>1. r \in ConsoleRequests
      <3>1. "validate" \in ConsolePCs /\ i \in Ids \cup {NoId} /\ ask \in Changes \cup {Quiet.ask}
        BY DEF ConsolePCs
      <3> QED BY <3>1, QuietFits, Zenon DEF ConsoleRequests
    <2>2. r.pc = "validate" /\ r.by = i /\ r.env = FALSE /\ r.ask = ask
      BY QuietFits DEF Quiet
    <2>3. CallFits(r)
      BY <1>1, <1>3, <2>2 DEF CallFits, Arrive
    <2>4. consoleCall' = [consoleCall EXCEPT ![c] = r]
      BY <1>3 DEF Arrive
    <2> HIDE DEF r
    <2>5. ~ Is(c, "log") /\ tokens' \subseteq spent /\ acts' \in 0 .. MaxActs
      <3>1. acts < MaxActs /\ acts' = acts + 1 /\ consoleCall[c].pc = "idle" /\ tokens' = tokens
        BY <1>3 DEF Arrive, Is, Act
      <3> QED BY <1>1, <3>1, ConsoleAssumption DEF Is
    <2> QED BY <1>3, <2>1, <2>2, <2>3, <2>4, <2>5, TurnKeepsConsole DEF Arrive
  <1>4. CASE ReadTarget(c)
    <2>1. ~ Is(c, "log") /\ tokens' \subseteq spent /\ acts' \in 0 .. MaxActs
      BY <1>1, <1>4 DEF ReadTarget, Is
    <2>2. CASE Bye(c)
      BY <1>4, <2>1, <2>2, ByeKeeps DEF ReadTarget
    <2>3. CASE ~ Bye(c)
      <3> DEFINE ask == consoleCall[c].ask
                 s == IF ask.op # "dropApp" THEN consoleCall[c].seen
                      ELSE [i \in Listers(ask.app) |-> admins[i].apps]
                 r == [consoleCall[c] EXCEPT !.pc = "commit", !.seen = s]
      <3>1. /\ Found(ask)
            /\ consoleCall' = [consoleCall EXCEPT ![c].pc = "commit",
                                  ![c].seen = IF ask.op # "dropApp" THEN @
                                              ELSE [i \in Listers(ask.app) |-> admins[i].apps]]
        BY <1>4, <2>3 DEF ReadTarget
      <3>2. consoleCall' = [consoleCall EXCEPT ![c] = r]
        BY <1>1, <3>1 DEF ConsoleIInv, ConsoleTypeOK, ConsoleRequests
      <3>3. s \in UNION {[is -> SUBSET Apps] : is \in SUBSET Ids}
        <4>1. CASE ask.op # "dropApp"
          BY <1>1, <4>1 DEF ConsoleRequests
        <4>2. CASE ask.op = "dropApp"
          <5>1. /\ Listers(ask.app) \in SUBSET Ids
                /\ \A i \in Listers(ask.app) : admins[i].apps \in SUBSET Apps
            BY DEF Listers, Here, ConsoleIInv, ConsoleTypeOK, Rows
          <5>2. s \in [Listers(ask.app) -> SUBSET Apps]
            BY <4>2, <5>1
          <5> QED BY <5>1, <5>2
        <4> QED BY <4>1, <4>2
      <3> HIDE DEF s
      <3>4. r \in ConsoleRequests
        BY <1>1, <3>3, CallsBecome
      <3>5. /\ r.pc = "commit" /\ r.by = consoleCall[c].by /\ r.env = consoleCall[c].env
            /\ r.email = consoleCall[c].email /\ r.ask = ask /\ r.met = consoleCall[c].met
        BY <1>1 DEF ConsoleRequests
      <3>6. ask \in Changes /\ (ask.op = "dropRole" => ask.role # Super)
        BY <1>1, <1>4, <3>1 DEF ReadTarget, Is, CallFits, Found, Removable
      <3>7. CallFits(r)
        BY <1>1, <3>5, <3>6 DEF CallFits
      <3> HIDE DEF r
      <3> QED BY <1>4, <2>1, <3>2, <3>4, <3>5, <3>7, TurnKeepsConsole DEF ReadTarget
    <2> QED BY <2>2, <2>3
  <1> QED BY <1>2, <1>3, <1>4

\* The sign-in makes the administrator that the environment names.
LEMMA EnsureKeeps ==
    ASSUME ConsoleIInv, NEW c \in ConsoleCalls, EnsureAdmin(c)
    PROVE  ConsoleIInv'
  <1>1. /\ consoleCall[c] \in ConsoleRequests /\ CallFits(consoleCall[c]) /\ Super \in roles
        /\ tokens \subseteq spent /\ acts \in 0 .. MaxActs /\ consoleCall[c].pc = "ensure"
    BY DEF ConsoleIInv, ConsoleTypeOK, EnsureAdmin, Is
  <1>2. /\ To(c, "again")
        /\ UNCHANGED <<roles, may, apps, opLog, tokens, actor, dropped, nobody, done, acts,
                       troubled>>
    BY <1>1 DEF EnsureAdmin, rights, automation
  <1>3. CASE Of(Env) # {}
    <2>1. UNCHANGED <<staff, rights, apps, opLog, tokens, automation, done, acts, troubled>>
      BY <1>1, <1>3 DEF EnsureAdmin
    <2>2. consoleCall[c].email = Env /\ Like(Env) # {}
      BY <1>1, <1>3 DEF CallFits, Of, Like
    <2> QED BY <1>1, <1>2, <2>1, <2>2, ToKeeps DEF Is, ConsolePCs
  <1>4. CASE Of(Env) = {}
    <2> DEFINE r == [consoleCall[c] EXCEPT !.pc = "again"]
               row == [AdminRow(Env, Super) EXCEPT !.apps = {}]
    <2>1. PICK i \in Ids \ spent : /\ spent' = spent \cup {i}
                                   /\ admins' = [admins EXCEPT ![i] = row]
      BY <1>1, <1>4 DEF EnsureAdmin
    <2>2. row \in Rows /\ row.here /\ row.email = Env /\ row.role = Super
      BY ConsoleAssumption DEF AdminRow, Rows
    <2> HIDE DEF row
    <2>3. /\ r \in ConsoleRequests /\ r.pc = "again" /\ r.by = consoleCall[c].by
          /\ r.env = consoleCall[c].env /\ r.email = consoleCall[c].email
          /\ consoleCall' = [consoleCall EXCEPT ![c] = r]
      <3>1. r \in ConsoleRequests
        BY <1>1, CallsBecome DEF ConsolePCs
      <3> QED BY <1>1, <1>2, <3>1 DEF To, ConsoleIInv, ConsoleTypeOK, ConsoleRequests
    <2> HIDE DEF r
    <2>4. /\ consoleCall' \in [ConsoleCalls -> ConsoleRequests] /\ consoleCall'[c] = r
          /\ \A d \in ConsoleCalls : d # c => consoleCall'[d] = consoleCall[d]
      BY <2>3 DEF ConsoleIInv, ConsoleTypeOK
    <2>5. /\ admins' \in [Ids -> Rows] /\ admins'[i] = row
          /\ \A x \in Ids : x # i => admins'[x] = admins[x]
      BY <2>1, <2>2 DEF ConsoleIInv, ConsoleTypeOK
    <2>6. /\ Here' = Here \cup {i} /\ i \notin Here
          /\ i \in Like(Env)' /\ \A x \in Like(Env) : x \in Like(Env)'
      <3>1. Here' = Here \cup {i} /\ i \notin Here
        BY <2>1, <2>2, <2>5 DEF Here, ConsoleIInv, ConsoleTypeOK
      <3>2. \A x \in Here : admins'[x] = admins[x]
        BY <2>5, <3>1 DEF Here
      <3> QED BY <2>2, <2>5, <3>1, <3>2, LikeEnv, ConsoleAssumption
    <2>7. \A x, y \in Here' : admins'[x].email = admins'[y].email => x = y
      <3>1. \A x \in Here : admins'[x] = admins[x] /\ admins[x].email # Env
        BY <1>4, <2>5, <2>6 DEF Here, Of
      <3> QED BY <2>2, <2>5, <2>6, <3>1 DEF ConsoleIInv, ConsoleTypeOK
    <2>8. ConsoleTypeOK'
      <3>1. \A x \in Here' : admins'[x].role \in roles'
        BY <1>1, <1>2, <2>2, <2>5, <2>6 DEF ConsoleIInv, ConsoleTypeOK, Here
      <3> QED BY <1>2, <2>1, <2>4, <2>5, <2>6, <2>7, <3>1 DEF ConsoleIInv, ConsoleTypeOK
    <2>9. ASSUME NEW x PROVE Owed(x)' = Owed(x)
      BY <1>1, <2>3, <2>4 DEF Owed, Is
    <2>10. Cardinality(Owed(i)) = 0
      <3>1. Owed(i) = {}
        BY ConsoleAssumption DEF Owed, CallFits, ConsoleIInv, ConsoleTypeOK
      <3> QED BY <3>1, FS_EmptySet
    <2>11. ChangesAreLogged'
      <3>1. done[i] = 0 /\ opLog[i] = 0
        BY DEF ConsoleIInv
      <3> QED BY <1>2, <2>6, <2>9, <2>10, <3>1, Balances DEF ConsoleIInv
    <2>12. \A d \in ConsoleCalls : CallFits(consoleCall[d])'
      BY <1>1, <2>1, <2>3, <2>4, <2>6 DEF ConsoleIInv, CallFits
    <2> QED BY <1>1, <1>2, <2>1, <2>8, <2>11, <2>12 DEF ConsoleIInv
  <1> QED BY <1>3, <1>4

\* The log row of a change.
LEMMA PersistKeeps ==
    ASSUME ConsoleIInv, NEW c \in ConsoleCalls, PersistLog(c)
    PROVE  ConsoleIInv'
  <1> DEFINE i == consoleCall[c].by
  <1>1. /\ consoleCall' \in [ConsoleCalls -> ConsoleRequests] /\ consoleCall'[c] = Quiet
        /\ \A d \in ConsoleCalls : d # c => consoleCall'[d] = consoleCall[d]
    BY QuietFits DEF PersistLog, Bye, ConsoleIInv, ConsoleTypeOK
  <1>2. /\ UNCHANGED <<admins, spent, roles, may, apps, tokens, actor, dropped, nobody, done>>
        /\ consoleCall[c].pc = "log"
    BY DEF PersistLog, staff, rights, automation, Is
  <1>3. Here' = Here /\ \A e : Of(e)' = Of(e) /\ Like(e)' = Like(e)
    BY <1>2, SameStaff
  <1>4. /\ opLog' \in [Ids -> Nat] /\ troubled' \in BOOLEAN /\ acts' \in 0 .. MaxActs
        /\ \A x \in Ids \ spent : opLog'[x] = opLog[x]
        /\ \/ troubled \/ troubled'
           \/ opLog' = IF i \in Here THEN [opLog EXCEPT ![i] = @ + 1] ELSE opLog
        /\ troubled => troubled'
    <2>1. CASE LogFault /\ UNCHANGED opLog
      BY <2>1, ConsoleAssumption DEF LogFault, Act, ConsoleIInv, ConsoleTypeOK
    <2>2. CASE /\ opLog' = (IF i \in Here THEN [opLog EXCEPT ![i] = @ + 1] ELSE opLog)
               /\ UNCHANGED <<acts, troubled>>
      BY <2>2 DEF ConsoleIInv, ConsoleTypeOK
    <2> QED BY <2>1, <2>2 DEF PersistLog
  <1>5. ConsoleTypeOK'
    BY <1>1, <1>2, <1>3, <1>4 DEF ConsoleIInv, ConsoleTypeOK
  <1>6. ASSUME NEW x PROVE Owed(x)' = Owed(x) \ {c}
    BY <1>1, QuietFits DEF Owed, Is
  <1>7. ChangesAreLogged'
    <2>1. SUFFICES ASSUME ~ troubled', NEW x \in Here
                   PROVE  done[x] = opLog'[x] + Cardinality(Owed(x) \ {c})
      BY <1>2, <1>3, <1>6, Balances
    <2>2. done[x] = opLog[x] + Cardinality(Owed(x)) /\ Cardinality(Owed(x)) \in Nat /\ x \in Ids
      BY <1>4, <2>1, Balances, OwedFacts DEF ConsoleIInv, Here
    <2>3. opLog' = IF i \in Here THEN [opLog EXCEPT ![i] = @ + 1] ELSE opLog
      BY <1>4, <2>1
    <2>4. opLog \in [Ids -> Nat] /\ opLog[x] \in Nat /\ (i \in Here => i \in Ids)
      BY <2>2 DEF ConsoleIInv, ConsoleTypeOK, Here
    <2>5. Cardinality(Owed(x) \ {c}) = IF c \in Owed(x) THEN Cardinality(Owed(x)) - 1
                                       ELSE Cardinality(Owed(x))
      BY OwedFacts, FS_RemoveElement
    <2>6. c \in Owed(x) <=> i = x
      BY <1>2 DEF Owed, Is
    <2> HIDE DEF i
    <2> QED BY <2>1, <2>2, <2>3, <2>4, <2>5, <2>6
  <1>8. \A d \in ConsoleCalls : CallFits(consoleCall[d])'
    BY <1>1, <1>2, <1>3, QuietFits DEF ConsoleIInv, CallFits
  <1> QED BY <1>2, <1>4, <1>5, <1>7, <1>8 DEF ConsoleIInv

\* Events of webhooks, and restarts.
LEMMA EventsKeep ==
    ASSUME ConsoleIInv, RecordEvent \/ ServerRestarts
    PROVE  ConsoleIInv'
  <1>1. /\ UNCHANGED <<admins, spent, roles, may, apps, opLog, tokens, done>>
        /\ acts < MaxActs /\ acts' = acts + 1
    BY DEF RecordEvent, ServerRestarts, LogFault, Act, staff, rights
  <1>2. Here' = Here /\ \A e : Of(e)' = Of(e) /\ Like(e)' = Like(e)
    BY <1>1, SameStaff
  <1>3. acts' \in 0 .. MaxActs
    BY <1>1, ConsoleAssumption DEF ConsoleIInv, ConsoleTypeOK
  <1>4. CASE RecordEvent
    <2>1. UNCHANGED consoleCall
      BY <1>4 DEF RecordEvent
    <2>2. /\ actor' \in Ids \cup {"unset", "null"} /\ dropped' \in Nat /\ nobody' \in BOOLEAN
          /\ troubled' \in BOOLEAN /\ (troubled => troubled') /\ (actor' = "null" => nobody')
      <3>1. /\ actor \in Ids \cup {"unset", "null"} /\ dropped \in Nat /\ nobody \in BOOLEAN
            /\ troubled \in BOOLEAN /\ (actor = "null" => nobody)
        BY DEF ConsoleIInv, ConsoleTypeOK
      <3>2. CASE actor' = "null" /\ nobody' = TRUE /\ dropped' = dropped + 1 /\ UNCHANGED troubled
        BY <3>1, <3>2
      <3>3. CASE actor' \in Here /\ UNCHANGED <<nobody, dropped, troubled>>
        BY <3>1, <3>3, ConsoleAssumption DEF Here
      <3>4. CASE /\ UNCHANGED <<actor, nobody, troubled>>
                 /\ dropped' = IF actor \in Here THEN dropped ELSE dropped + 1
        BY <3>1, <3>4
      <3>5. CASE troubled' = TRUE /\ UNCHANGED <<actor, nobody, dropped>>
        BY <3>1, <3>5
      <3> QED BY <1>4, <3>2, <3>3, <3>4, <3>5 DEF RecordEvent
    <2>3. ConsoleTypeOK'
      BY <1>1, <1>2, <1>3, <2>1, <2>2 DEF ConsoleIInv, ConsoleTypeOK
    <2>4. ASSUME NEW x PROVE Owed(x)' = Owed(x)
      BY <2>1 DEF Owed, Is
    <2>5. ChangesAreLogged'
      BY <1>1, <1>2, <2>2, <2>4, Balances DEF ConsoleIInv
    <2>6. \A d \in ConsoleCalls : CallFits(consoleCall[d])'
      BY <1>1, <1>2, <2>1 DEF ConsoleIInv, CallFits
    <2> QED BY <1>1, <2>2, <2>3, <2>5, <2>6 DEF ConsoleIInv
  <1>5. CASE ServerRestarts
    <2>1. /\ consoleCall' \in [ConsoleCalls -> ConsoleRequests]
          /\ \A c \in ConsoleCalls : consoleCall'[c] = Quiet
      BY <1>5, QuietFits DEF ServerRestarts
    <2>2. actor' = "unset" /\ ~ nobody' /\ nobody' \in BOOLEAN /\ troubled' /\ troubled' \in BOOLEAN
          /\ dropped' = dropped
      BY <1>5 DEF ServerRestarts, LogFault
    <2>3. ConsoleTypeOK'
      BY <1>1, <1>2, <1>3, <2>1, <2>2 DEF ConsoleIInv, ConsoleTypeOK
    <2>4. ChangesAreLogged'
      BY <2>2, Balances
    <2>5. \A d \in ConsoleCalls : CallFits(consoleCall[d])'
      BY <2>1, QuietFits DEF CallFits
    <2> QED BY <1>1, <2>2, <2>3, <2>4, <2>5 DEF ConsoleIInv
  <1> QED BY <1>4, <1>5

\* The calls after a write: the writer owes a log row, the others keep what
\* they are and learn that a row was written under them.
CallsAfter(c) ==
    LET i == consoleCall[c].by
        ask == consoleCall[c].ask
    IN  /\ consoleCall' \in [ConsoleCalls -> ConsoleRequests]
        /\ consoleCall'[c].pc = "log" /\ consoleCall'[c].by = i /\ ~ consoleCall'[c].env
        /\ \A d \in ConsoleCalls : d # c =>
               /\ consoleCall'[d].pc = consoleCall[d].pc /\ consoleCall'[d].by = consoleCall[d].by
               /\ consoleCall'[d].env = consoleCall[d].env
               /\ consoleCall'[d].email = consoleCall[d].email
               /\ consoleCall'[d].ask = consoleCall[d].ask
               /\ consoleCall[d].met \subseteq consoleCall'[d].met
               /\ /\ ask.op = "dropAdmin" /\ admins[ask.id].email \in Spellings
                  /\ consoleCall[d].pc \in {"again", "stamp"}
                  => ask.id \in consoleCall'[d].met

\* A change that somebody asks for has the fields its handler reads.
LEMMA ChangeFields ==
    ASSUME NEW ask \in Changes
    PROVE  /\ ask.op \in {"makeAdmin", "setActive", "setRole", "setApps", "dropAdmin",
                          "makeRole", "grant", "deny", "dropRole", "dropApp"}
           /\ ask.op = "makeAdmin" => ask.email \in AdminEmails /\ ask.role \in Roles
           /\ ask.op \in {"setActive", "setRole", "setApps", "dropAdmin"} => ask.id \in Ids
           /\ ask.op = "setActive" => ask.to \in BOOLEAN
           /\ ask.op = "setRole" => ask.to \in Roles
           /\ ask.op = "setApps" => ask.to \subseteq Apps
           /\ ask.op \in {"makeRole", "grant", "deny", "dropRole"} => ask.role \in Roles
           /\ ask.op = "dropApp" => ask.app \in Apps
  BY DEF Changes

LEMMA NotedFits ==
    ASSUME NEW d \in ConsoleCalls, consoleCall[d] \in ConsoleRequests, NEW ask \in Changes
    PROVE  /\ Noted(d, ask) \in ConsoleRequests
           /\ Noted(d, ask).pc = consoleCall[d].pc /\ Noted(d, ask).by = consoleCall[d].by
           /\ Noted(d, ask).env = consoleCall[d].env
           /\ Noted(d, ask).email = consoleCall[d].email
           /\ Noted(d, ask).ask = consoleCall[d].ask
           /\ consoleCall[d].met \subseteq Noted(d, ask).met
           /\ /\ ask.op = "dropAdmin" /\ admins[ask.id].email \in Spellings
              /\ consoleCall[d].pc \in {"again", "stamp"}
              => ask.id \in Noted(d, ask).met
  <1> DEFINE old == consoleCall[d]
             m == IF ask.op = "dropAdmin" /\ admins[ask.id].email \in Spellings
                  THEN old.met \cup {ask.id} ELSE old.met
  <1>1. /\ m \in SUBSET Ids /\ old.met \subseteq m
        /\ ask.op = "dropAdmin" /\ admins[ask.id].email \in Spellings => ask.id \in m
    BY ChangeFields, CallFields
  <1>2. CASE Is(d, "idle") \/ Is(d, "log")
    BY <1>2 DEF Noted, Is
  <1>3. CASE ~ (Is(d, "idle") \/ Is(d, "log"))
    <2>1. Noted(d, ask) = [old EXCEPT !.met = m]
      BY <1>3 DEF Noted, ConsoleRequests
    <2> HIDE DEF m
    <2>2. [old EXCEPT !.met = m] \in ConsoleRequests
      BY <1>1, CallsBecome
    <2>3. /\ [old EXCEPT !.met = m].pc = old.pc /\ [old EXCEPT !.met = m].by = old.by
          /\ [old EXCEPT !.met = m].env = old.env /\ [old EXCEPT !.met = m].email = old.email
          /\ [old EXCEPT !.met = m].ask = old.ask /\ [old EXCEPT !.met = m].met = m
      BY DEF ConsoleRequests
    <2> QED BY <1>1, <2>1, <2>2, <2>3
  <1> QED BY <1>2, <1>3

LEMMA CommitCalls ==
    ASSUME ConsoleIInv, NEW c \in ConsoleCalls, Commit(c)
    PROVE  /\ CallsAfter(c) /\ consoleCall[c].pc = "commit" /\ consoleCall[c].ask \in Changes
           /\ consoleCall[c].ask.op = "dropRole" => consoleCall[c].ask.role # Super
           /\ UNCHANGED <<tokens, actor, dropped, nobody, acts, troubled>>
  <1>1. /\ consoleCall \in [ConsoleCalls -> ConsoleRequests] /\ consoleCall[c].pc = "commit"
        /\ CallFits(consoleCall[c])
    BY DEF Commit, Is, ConsoleIInv, ConsoleTypeOK
  <1>2. /\ consoleCall[c].ask \in Changes
        /\ consoleCall[c].ask.op = "dropRole" => consoleCall[c].ask.role # Super
    BY <1>1 DEF CallFits
  <1> DEFINE r == [Quiet EXCEPT !.pc = "log", !.by = consoleCall[c].by]
  <1>3. r \in ConsoleRequests
    <2>1. "log" \in ConsolePCs /\ consoleCall[c].by \in Ids \cup {NoId}
      BY <1>1, CallFields DEF ConsolePCs
    <2> QED BY <2>1, QuietFits, Zenon DEF ConsoleRequests
  <1>4. r.pc = "log" /\ r.by = consoleCall[c].by /\ ~ r.env
    BY QuietFits DEF Quiet
  <1>5. consoleCall' = [d \in ConsoleCalls |-> IF d = c THEN r ELSE Noted(d, consoleCall[c].ask)]
    BY DEF Commit
  <1> HIDE DEF r
  <1>6. /\ consoleCall' \in [ConsoleCalls -> ConsoleRequests] /\ consoleCall'[c] = r
        /\ \A d \in ConsoleCalls : d # c => consoleCall'[d] = Noted(d, consoleCall[c].ask)
    BY <1>1, <1>2, <1>3, <1>5, NotedFits
  <1>7. CallsAfter(c)
    BY <1>1, <1>2, <1>4, <1>6, NotedFits DEF CallsAfter
  <1> QED BY <1>1, <1>2, <1>7 DEF Commit, automation

\* What a write makes of the administrators: the keys that stay keep address and
\* log, a key that goes was removed by this write, and a new one is clean.
StaffAfter(ask) ==
    /\ admins' \in [Ids -> Rows] /\ spent \subseteq spent' /\ spent' \subseteq Ids
    /\ Here' \subseteq spent' /\ opLog' \in [Ids -> Nat]
    /\ \A x \in Here' : admins'[x].role \in roles'
    /\ \A x, y \in Here' : admins'[x].email = admins'[y].email => x = y
    /\ \A x \in Here : \/ x \in Here' /\ admins'[x].email = admins[x].email
                       \/ ask.op = "dropAdmin" /\ x = ask.id
    /\ \A x \in Here' : IF x \in Here THEN opLog'[x] = opLog[x]
                        ELSE x \notin spent /\ opLog'[x] = 0
    /\ \A x \in Ids \ spent' : opLog'[x] = 0

LEMMA CommitLeaves ==
    ASSUME ConsoleIInv, NEW c \in ConsoleCalls, Commit(c), StaffAfter(consoleCall[c].ask),
           roles' \subseteq Roles, Super \in roles', may' \subseteq roles', apps' \subseteq Apps
    PROVE  ConsoleIInv'
  <1> DEFINE i == consoleCall[c].by
  <1>1. /\ CallsAfter(c) /\ consoleCall[c].pc = "commit"
        /\ UNCHANGED <<tokens, actor, dropped, nobody, acts, troubled>>
    BY CommitCalls
  <1>2. i \in spent \cup {NoId}
    BY DEF ConsoleIInv, CallFits
  <1>3. /\ done' \in [Ids -> Nat]
        /\ \A x \in Ids : done'[x] = IF x = i THEN done[x] + 1 ELSE done[x]
    <2>1. done \in [Ids -> Nat] /\ done' = [done EXCEPT ![i] = @ + 1]
      BY DEF Commit, ConsoleIInv, ConsoleTypeOK
    <2> HIDE DEF i
    <2>2. CASE i \in Ids
      BY <2>1, <2>2
    <2>3. CASE i \notin Ids
      BY <2>1, <2>3
    <2> QED BY <2>2, <2>3
  <1>4. ConsoleTypeOK'
    <2>1. tokens' \subseteq spent' /\ consoleCall' \in [ConsoleCalls -> ConsoleRequests]
      BY <1>1 DEF StaffAfter, CallsAfter, ConsoleIInv, ConsoleTypeOK
    <2> QED BY <1>1, <1>3, <2>1 DEF StaffAfter, ConsoleIInv, ConsoleTypeOK
  <1>5. ASSUME NEW x
        PROVE  Cardinality(Owed(x)') = IF x = i THEN Cardinality(Owed(x)) + 1
                                       ELSE Cardinality(Owed(x))
    <2>1. c \notin Owed(x)
      BY <1>1 DEF Owed, Is
    <2>2. Owed(x)' = IF x = i THEN Owed(x) \cup {c} ELSE Owed(x)
      BY <1>1 DEF Owed, Is, CallsAfter
    <2> QED BY <2>1, <2>2, OwedFacts, FS_AddElement
  <1>6. ChangesAreLogged'
    <2>1. SUFFICES ASSUME ~ troubled, NEW x \in Here'
                   PROVE  done'[x] = opLog'[x] + Cardinality(Owed(x)')
      BY <1>1, Balances
    <2>2. x \in Ids /\ Cardinality(Owed(x)) \in Nat /\ done[x] \in Nat /\ opLog[x] \in Nat
      BY <2>1, OwedFacts DEF Here, StaffAfter, ConsoleIInv, ConsoleTypeOK
    <2>3. CASE x \in Here
      <3>1. done[x] = opLog[x] + Cardinality(Owed(x)) /\ opLog'[x] = opLog[x]
        BY <2>1, <2>3, Balances DEF ConsoleIInv, StaffAfter
      <3> HIDE DEF i
      <3> QED BY <1>3, <1>5, <2>2, <3>1
    <2>4. CASE x \notin Here
      <3>1. x \notin spent /\ opLog'[x] = 0 /\ done[x] = 0 /\ x # i
        BY <1>2, <2>1, <2>2, <2>4, ConsoleAssumption DEF StaffAfter, ConsoleIInv
      <3>2. Owed(x) = {}
        BY <2>2, <3>1, ConsoleAssumption DEF Owed, CallFits, ConsoleIInv
      <3>3. Cardinality(Owed(x)) = 0
        BY <3>2, FS_EmptySet
      <3> HIDE DEF i
      <3> QED BY <1>3, <1>5, <2>2, <3>1, <3>3
    <2> QED BY <2>3, <2>4
  <1>7. ASSUME NEW d \in ConsoleCalls PROVE CallFits(consoleCall[d])'
    <2>1. CASE d = c
      BY <1>1, <1>2, <2>1 DEF CallsAfter, StaffAfter, CallFits
    <2>2. CASE d # c
      <3>1. /\ consoleCall'[d].pc = consoleCall[d].pc /\ consoleCall'[d].by = consoleCall[d].by
            /\ consoleCall'[d].env = consoleCall[d].env
            /\ consoleCall'[d].email = consoleCall[d].email
            /\ consoleCall'[d].ask = consoleCall[d].ask
            /\ consoleCall[d].met \subseteq consoleCall'[d].met
            /\ /\ consoleCall[c].ask.op = "dropAdmin"
               /\ admins[consoleCall[c].ask.id].email \in Spellings
               /\ consoleCall[d].pc \in {"again", "stamp"}
               => consoleCall[c].ask.id \in consoleCall'[d].met
        BY <1>1, <2>2 DEF CallsAfter
      <3>2. CallFits(consoleCall[d])
        BY DEF ConsoleIInv
      <3>3. ASSUME NEW x \in Like(Env), consoleCall[d].pc \in {"again", "stamp"}
            PROVE  x \in Like(Env)' \/ consoleCall'[d].met # {}
        BY <3>1, <3>3, LikeEnv DEF StaffAfter
      <3>4. consoleCall[d].pc = "again" => Like(Env)' # {} \/ consoleCall'[d].met # {}
        BY <3>1, <3>2, <3>3 DEF CallFits
      <3>5. consoleCall[d].pc = "stamp" /\ consoleCall[d].env =>
                consoleCall[d].by \in Like(Env)' \/ consoleCall'[d].met # {}
        BY <3>1, <3>2, <3>3 DEF CallFits
      <3> QED BY <3>1, <3>2, <3>4, <3>5 DEF CallFits, StaffAfter
    <2> QED BY <2>1, <2>2
  <1>8. \A x \in Ids \ spent' : done'[x] = 0 /\ opLog'[x] = 0
    BY <1>2, <1>3, ConsoleAssumption DEF ConsoleIInv, StaffAfter
  <1>9. actor' = "null" => nobody'
    BY <1>1 DEF ConsoleIInv
  <1> QED BY <1>4, <1>6, <1>7, <1>8, <1>9 DEF ConsoleIInv

\* Each write leaves the administrators as they have to be.
LEMMA MakeFits ==
    ASSUME ConsoleIInv, NEW ask \in Changes, ask.op = "makeAdmin", MakeAdmin(ask),
           Of(ask.email) = {}, ask.role \in roles
    PROVE  StaffAfter(ask) /\ UNCHANGED <<roles, may, apps>>
  <1> DEFINE row == [AdminRow(ask.email, ask.role) EXCEPT !.apps = {}]
  <1>1. UNCHANGED <<roles, may, apps, opLog>>
    BY DEF MakeAdmin, rights
  <1>2. PICK i \in Ids \ spent : spent' = spent \cup {i} /\ admins' = [admins EXCEPT ![i] = row]
    BY DEF MakeAdmin
  <1>3. row \in Rows /\ row.here /\ row.email = ask.email /\ row.role = ask.role
    BY ChangeFields DEF AdminRow, Rows
  <1> HIDE DEF row
  <1>4. /\ admins' \in [Ids -> Rows] /\ admins'[i] = row
        /\ \A x \in Ids : x # i => admins'[x] = admins[x]
    BY <1>2, <1>3 DEF ConsoleIInv, ConsoleTypeOK
  <1>5. Here' = Here \cup {i} /\ i \notin Here
    BY <1>2, <1>3, <1>4 DEF Here, ConsoleIInv, ConsoleTypeOK
  <1>6. \A x \in Here : admins'[x] = admins[x] /\ admins[x].email # ask.email
    BY <1>4, <1>5 DEF Here, Of
  <1>7. \A x, y \in Here' : admins'[x].email = admins'[y].email => x = y
    BY <1>3, <1>4, <1>5, <1>6 DEF ConsoleIInv, ConsoleTypeOK
  <1>8. \A x \in Here' : admins'[x].role \in roles'
    BY <1>1, <1>3, <1>4, <1>5, <1>6 DEF ConsoleIInv, ConsoleTypeOK
  <1>9. \A x \in Ids \ spent : opLog'[x] = 0
    BY <1>1 DEF ConsoleIInv
  <1> QED BY <1>1, <1>2, <1>4, <1>5, <1>6, <1>7, <1>8, <1>9
         DEF StaffAfter, ConsoleIInv, ConsoleTypeOK

\* A write of a row that is there, which leaves its address.
LEMMA RowsStay ==
    ASSUME ConsoleIInv, admins' \in [Ids -> Rows], UNCHANGED <<spent, opLog>>, NEW ask,
           \A x \in Ids : admins'[x].here = admins[x].here /\ admins'[x].email = admins[x].email,
           \A x \in Here : admins'[x].role \in roles'
    PROVE  StaffAfter(ask)
  <1>1. Here' = Here
    BY DEF Here
  <1>2. \A x \in Here : x \in Ids
    BY DEF Here
  <1>3. \A x \in Ids \ spent : opLog[x] = 0
    BY DEF ConsoleIInv
  <1> QED BY <1>1, <1>2, <1>3 DEF StaffAfter, ConsoleIInv, ConsoleTypeOK

LEMMA RowFields ==
    ASSUME NEW r \in Rows
    PROVE  /\ r.email \in AdminEmails /\ r.here \in BOOLEAN /\ r.active \in BOOLEAN
           /\ r.role \in Roles
           /\ r.apps \subseteq Apps
  BY DEF Rows

LEMMA AdminRowsBecome ==
    ASSUME NEW r \in Rows
    PROVE  /\ \A b \in BOOLEAN : LET n == [r EXCEPT !.active = b]
                                 IN  /\ n \in Rows /\ n.here = r.here /\ n.email = r.email
                                     /\ n.role = r.role
           /\ \A s \in SUBSET Apps : LET n == [r EXCEPT !.apps = s]
                                     IN  /\ n \in Rows /\ n.here = r.here /\ n.email = r.email
                                         /\ n.role = r.role
           /\ \A k \in Roles : LET n == [r EXCEPT !.role = k]
                               IN  /\ n \in Rows /\ n.here = r.here /\ n.email = r.email
                                   /\ n.role = k
  <1>1. ASSUME NEW b \in BOOLEAN PROVE [r EXCEPT !.active = b] \in Rows
    BY Zenon DEF Rows
  <1>2. ASSUME NEW s \in SUBSET Apps PROVE [r EXCEPT !.apps = s] \in Rows
    BY Zenon DEF Rows
  <1>3. ASSUME NEW k \in Roles PROVE [r EXCEPT !.role = k] \in Rows
    BY Zenon DEF Rows
  <1> QED BY <1>1, <1>2, <1>3 DEF Rows

LEMMA SetFits ==
    ASSUME ConsoleIInv, NEW ask \in Changes, ask.op \in {"setActive", "setRole", "setApps"},
           SetAdmin(ask), ask.op = "setRole" => ask.to \in roles
    PROVE  StaffAfter(ask) /\ UNCHANGED <<roles, may, apps>>
  <1>1. UNCHANGED <<spent, roles, may, apps, opLog>>
    BY DEF SetAdmin, rights
  <1>2. ask.id \in Ids /\ admins \in [Ids -> Rows] /\ admins[ask.id] \in Rows
    BY ChangeFields DEF ConsoleIInv, ConsoleTypeOK
  <1>3. PICK n \in Rows : /\ admins' = [admins EXCEPT ![ask.id] = n]
                          /\ n.here = admins[ask.id].here /\ n.email = admins[ask.id].email
                          /\ n.role \in {admins[ask.id].role} \cup roles
    <2>1. CASE ask.op = "setActive"
      <3>1. ask.to \in BOOLEAN /\ admins' = [admins EXCEPT ![ask.id] =
                                                [admins[ask.id] EXCEPT !.active = ask.to]]
        BY <2>1, ChangeFields DEF SetAdmin
      <3> DEFINE n == [admins[ask.id] EXCEPT !.active = ask.to]
      <3>2. /\ n \in Rows /\ n.here = admins[ask.id].here /\ n.email = admins[ask.id].email
            /\ n.role = admins[ask.id].role /\ admins' = [admins EXCEPT ![ask.id] = n]
        BY <1>2, <3>1, AdminRowsBecome
      <3> HIDE DEF n
      <3> QED BY <3>2
    <2>2. CASE ask.op = "setApps"
      <3>1. ask.to \in SUBSET Apps /\ admins' = [admins EXCEPT ![ask.id] =
                                                    [admins[ask.id] EXCEPT !.apps = ask.to]]
        BY <2>2, ChangeFields DEF SetAdmin
      <3> DEFINE n == [admins[ask.id] EXCEPT !.apps = ask.to]
      <3>2. /\ n \in Rows /\ n.here = admins[ask.id].here /\ n.email = admins[ask.id].email
            /\ n.role = admins[ask.id].role /\ admins' = [admins EXCEPT ![ask.id] = n]
        BY <1>2, <3>1, AdminRowsBecome
      <3> HIDE DEF n
      <3> QED BY <3>2
    <2>3. CASE ask.op = "setRole"
      <3>1. ask.to \in Roles /\ admins' = [admins EXCEPT ![ask.id] =
                                              [admins[ask.id] EXCEPT !.role = ask.to]]
        BY <2>3, ChangeFields DEF SetAdmin
      <3> DEFINE n == [admins[ask.id] EXCEPT !.role = ask.to]
      <3>2. /\ n \in Rows /\ n.here = admins[ask.id].here /\ n.email = admins[ask.id].email
            /\ n.role = ask.to /\ admins' = [admins EXCEPT ![ask.id] = n]
        BY <1>2, <3>1, AdminRowsBecome
      <3> HIDE DEF n
      <3> QED BY <2>3, <3>2
    <2> QED BY <2>1, <2>2, <2>3
  <1>4. /\ admins' \in [Ids -> Rows]
        /\ \A x \in Ids : admins'[x] = IF x = ask.id THEN n ELSE admins[x]
    BY <1>2, <1>3
  <1>5. \A x \in Ids : admins'[x].here = admins[x].here /\ admins'[x].email = admins[x].email
    BY <1>3, <1>4
  <1>6. \A x \in Here : admins'[x].role \in roles'
    BY <1>1, <1>3, <1>4 DEF Here, ConsoleIInv, ConsoleTypeOK
  <1> QED BY <1>1, <1>4, <1>5, <1>6, RowsStay

LEMMA DropFits ==
    ASSUME ConsoleIInv, NEW ask \in Changes, ask.op = "dropAdmin", DropAdmin(ask)
    PROVE  StaffAfter(ask) /\ UNCHANGED <<roles, may, apps>>
  <1>1. /\ UNCHANGED <<spent, roles, may, apps>>
        /\ admins' = [admins EXCEPT ![ask.id] = Nobody] /\ opLog' = [opLog EXCEPT ![ask.id] = 0]
    BY DEF DropAdmin, rights, LogWithout
  <1>2. Nobody \in Rows /\ ~ Nobody.here /\ ask.id \in Ids
    BY ConsoleAssumption, ChangeFields DEF Nobody, Rows
  <1>3. /\ admins' \in [Ids -> Rows] /\ admins'[ask.id] = Nobody
        /\ \A x \in Ids : x # ask.id => admins'[x] = admins[x]
    BY <1>1, <1>2 DEF ConsoleIInv, ConsoleTypeOK
  <1>4. /\ opLog' \in [Ids -> Nat] /\ opLog'[ask.id] = 0
        /\ \A x \in Ids : x # ask.id => opLog'[x] = opLog[x]
    BY <1>1, <1>2 DEF ConsoleIInv, ConsoleTypeOK
  <1>5. Here' = Here \ {ask.id} /\ Here \subseteq Ids
    BY <1>2, <1>3 DEF Here
  <1>6. \A x \in Ids \ spent : opLog'[x] = 0
    BY <1>4 DEF ConsoleIInv
  <1>7. \A x \in Here' : x \in Here /\ x # ask.id /\ admins'[x] = admins[x] /\ opLog'[x] = opLog[x]
    BY <1>3, <1>4, <1>5
  <1>8. \A x \in Here : (x \in Here' /\ admins'[x].email = admins[x].email) \/ x = ask.id
    BY <1>3, <1>5
  <1> QED BY <1>1, <1>3, <1>4, <1>6, <1>7, <1>8 DEF StaffAfter, ConsoleIInv, ConsoleTypeOK

LEMMA RolesFit ==
    ASSUME ConsoleIInv, NEW ask \in Changes, ask.op \in {"makeRole", "grant", "deny", "dropRole"},
           SetRoles(ask), ask.op = "grant" => ask.role \in roles,
           ask.op = "dropRole" => ask.role # Super /\ \A i \in Here : admins[i].role # ask.role
    PROVE  /\ StaffAfter(ask) /\ UNCHANGED apps /\ roles' \subseteq Roles /\ Super \in roles'
           /\ may' \subseteq roles'
  <1>1. /\ UNCHANGED <<admins, spent, apps, opLog>> /\ ask.role \in Roles
        /\ roles \subseteq Roles /\ Super \in roles /\ may \subseteq roles
    BY ChangeFields DEF SetRoles, staff, ConsoleIInv, ConsoleTypeOK
  <1>2. /\ roles' = CASE ask.op = "makeRole" -> roles \cup {ask.role}
                      [] ask.op = "dropRole" -> roles \ {ask.role}
                      [] OTHER -> roles
        /\ may' = CASE ask.op = "grant" -> may \cup {ask.role}
                    [] ask.op \in {"deny", "dropRole"} -> may \ {ask.role}
                    [] OTHER -> may
    BY DEF SetRoles
  <1>3. roles' \subseteq Roles /\ Super \in roles'
    BY <1>1, <1>2
  <1>4. may' \subseteq roles'
    BY <1>1, <1>2
  <1>5. \A x \in Here : admins[x].role \in roles'
    BY <1>2 DEF ConsoleIInv, ConsoleTypeOK
  <1> QED BY <1>1, <1>3, <1>4, <1>5, RowsStay DEF ConsoleIInv, ConsoleTypeOK

LEMMA AppFits ==
    ASSUME ConsoleIInv, NEW c \in ConsoleCalls, NEW app, DropApp(c, app)
    PROVE  /\ StaffAfter(consoleCall[c].ask) /\ UNCHANGED <<roles, may>> /\ apps' \subseteq Apps
  <1> DEFINE seen == consoleCall[c].seen
  <1>1. /\ UNCHANGED <<spent, roles, may, opLog>> /\ apps' \subseteq Apps
    BY DEF DropApp, rights, ConsoleIInv, ConsoleTypeOK
  <1>2. consoleCall[c] \in ConsoleRequests /\ admins \in [Ids -> Rows]
    BY DEF ConsoleIInv, ConsoleTypeOK
  <1>3. \A x \in DOMAIN seen : seen[x] \in SUBSET Apps
    BY <1>2, CallFields
  <1>4. admins' = [i \in Ids |-> IF i \in DOMAIN seen
                                 THEN [admins[i] EXCEPT !.apps = seen[i] \ {app}]
                                 ELSE admins[i]]
    BY DEF DropApp
  <1> HIDE DEF seen
  <1>5. ASSUME NEW x \in Ids
        PROVE  /\ admins'[x] \in Rows /\ admins'[x].here = admins[x].here
               /\ admins'[x].email = admins[x].email /\ admins'[x].role = admins[x].role
    <2>1. admins[x] \in Rows
      BY <1>2
    <2>2. CASE x \in DOMAIN seen
      <3>1. /\ seen[x] \ {app} \in SUBSET Apps
            /\ admins'[x] = [admins[x] EXCEPT !.apps = seen[x] \ {app}]
        BY <1>3, <1>4, <2>2
      <3> QED BY <2>1, <3>1, AdminRowsBecome
    <2>3. CASE x \notin DOMAIN seen
      BY <1>4, <2>1, <2>3
    <2> QED BY <2>2, <2>3
  <1>6. admins' \in [Ids -> Rows]
    BY <1>4, <1>5
  <1>7. \A x \in Here : admins'[x].role \in roles'
    BY <1>1, <1>5 DEF Here, ConsoleIInv, ConsoleTypeOK
  <1> QED BY <1>1, <1>5, <1>6, <1>7, RowsStay

LEMMA CommitKeeps ==
    ASSUME ConsoleIInv, NEW c \in ConsoleCalls, Commit(c)
    PROVE  ConsoleIInv'
  <1> DEFINE ask == consoleCall[c].ask
  <1>1. ask \in Changes /\ (ask.op = "dropRole" => ask.role # Super) /\ Accepts(c) /\ Write(c)
    BY CommitCalls DEF Commit
  <1>2. /\ roles \subseteq Roles /\ Super \in roles /\ may \subseteq roles /\ apps \subseteq Apps
    BY DEF ConsoleIInv, ConsoleTypeOK
  <1>3. CASE ask.op = "makeAdmin"
    <2>1. MakeAdmin(ask) /\ Of(ask.email) = {} /\ ask.role \in roles
      BY <1>1, <1>3 DEF Accepts, Write
    <2> QED BY <1>1, <1>2, <1>3, <2>1, MakeFits, CommitLeaves
  <1>4. CASE ask.op \in {"setActive", "setRole", "setApps"}
    <2>1. SetAdmin(ask) /\ (ask.op = "setRole" => ask.to \in roles)
      BY <1>1, <1>4 DEF Accepts, Write
    <2> QED BY <1>1, <1>2, <1>4, <2>1, SetFits, CommitLeaves
  <1>5. CASE ask.op = "dropAdmin"
    <2>1. DropAdmin(ask)
      BY <1>1, <1>5 DEF Write
    <2> QED BY <1>1, <1>2, <1>5, <2>1, DropFits, CommitLeaves
  <1>6. CASE ask.op \in {"makeRole", "grant", "deny", "dropRole"}
    <2>1. SetRoles(ask)
      BY <1>1, <1>6 DEF Write
    <2>2. /\ ask.op = "grant" => ask.role \in roles
          /\ ask.op = "dropRole" => \A i \in Here : admins[i].role # ask.role
      BY <1>1, <1>6 DEF Accepts
    <2> QED BY <1>1, <1>2, <1>6, <2>1, <2>2, RolesFit, CommitLeaves
  <1>7. CASE ask.op = "dropApp"
    <2>1. DropApp(c, ask.app)
      BY <1>1, <1>7 DEF Write
    <2> QED BY <1>1, <1>2, <2>1, AppFits, CommitLeaves
  <1> QED BY <1>1, <1>3, <1>4, <1>5, <1>6, <1>7, ChangeFields

LEMMA ConsoleNextOK == ConsoleIInv /\ [ConsoleNext]_consoleVars => ConsoleIInv'
  <1> SUFFICES ASSUME ConsoleIInv, [ConsoleNext]_consoleVars PROVE ConsoleIInv'
    OBVIOUS
  <1>1. CASE UNCHANGED consoleVars
    <2>1. /\ UNCHANGED <<admins, spent, roles, may, apps, opLog, tokens, actor, consoleCall, done,
                         acts, dropped, nobody, troubled>>
      BY <1>1 DEF consoleVars
    <2>2. Here' = Here /\ (\A e : Of(e)' = Of(e) /\ Like(e)' = Like(e)) /\ \A x : Owed(x)' = Owed(x)
      BY <2>1 DEF Here, Of, Like, Owed, Is
    <2>3. ConsoleTypeOK'
      BY <2>1, <2>2 DEF ConsoleIInv, ConsoleTypeOK
    <2>4. ChangesAreLogged'
      BY <2>1, <2>2, Balances DEF ConsoleIInv
    <2>5. \A c \in ConsoleCalls : CallFits(consoleCall[c])'
      BY <2>1, <2>2 DEF ConsoleIInv, CallFits
    <2> QED BY <2>1, <2>3, <2>4, <2>5 DEF ConsoleIInv
  <1>2. CASE ConsoleNext
    BY <1>2, LooksKeepConsole, BeginningsKeep, EnsureKeeps, CommitKeeps, PersistKeeps, EventsKeep
       DEF ConsoleNext
  <1> QED BY <1>1, <1>2

LEMMA ConsoleInvariant == ConsoleSpec => []ConsoleIInv
  BY ConsoleInitOK, ConsoleNextOK, PTL DEF ConsoleSpec

\* The administration has its types: in particular every administrator that
\* exists has a role that exists, and no two of them have one address.
THEOREM ConsoleTypeCorrect == ConsoleSpec => []ConsoleTypeOK
  <1>1. ConsoleIInv => ConsoleTypeOK
    BY DEF ConsoleIInv
  <1> QED BY <1>1, ConsoleInvariant, PTL

\* Every change is in the log of whoever made it, or about to be, unless a
\* statement of the log failed (persistOperationLog of the audit interceptor);
\* an event of a webhook is dropped only when the cached actor is gone, or
\* when there was nobody to log it under (recordAutomationEvent).
THEOREM NothingMissing == ConsoleSpec => LogIsComplete
  <1>1. ConsoleIInv /\ ConsoleIInv' /\ [ConsoleNext]_consoleVars =>
            [/\ ChangesAreLogged'
             /\ dropped' > dropped => nobody' \/ actor \in Ids \ Here]_consoleVars
    <2> SUFFICES ASSUME ConsoleIInv, ConsoleIInv', ConsoleNext, dropped' > dropped,
                        ~ nobody'
                 PROVE  actor \in Ids \ Here
      BY DEF ConsoleIInv
    <2>1. dropped \in Nat /\ actor \in Ids \cup {"unset", "null"} /\ (actor = "null" => nobody)
      BY DEF ConsoleIInv, ConsoleTypeOK
    <2>2. RecordEvent
      <3>1. CASE UNCHANGED dropped
        BY <2>1, <3>1
      <3> QED BY <3>1 DEF ConsoleNext, StartLogin, FindAdmin, EnsureAdmin, FindAgain, FinishLogin,
                 Arrive, Validate, ReadTarget, Commit, Refused, PersistLog, ServerRestarts,
                 automation
    <2>3. actor # "unset" /\ actor \notin Here /\ UNCHANGED nobody
      BY <2>1, <2>2 DEF RecordEvent
    <2> QED BY <2>1, <2>3
  <1> QED BY <1>1, ConsoleInvariant, PTL DEF LogIsComplete, ConsoleSpec

\* A sign-in with the credentials of the environment that ends.
LEMMA SignInEnds ==
    ASSUME ConsoleIInv, ConsoleNext, NEW c \in ConsoleCalls,
           consoleCall[c].pc \in {"find", "ensure", "again", "stamp"}, consoleCall[c].env,
           consoleCall'[c].pc = "idle"
    PROVE  \/ consoleCall[c].by \in tokens' \/ consoleCall[c].met # {}
           \/ \E i \in Like(Env) : ~ admins[i].active
           \/ acts' > acts
  <1>1. /\ consoleCall \in [ConsoleCalls -> ConsoleRequests] /\ CallFits(consoleCall[c])
        /\ Super \in roles /\ consoleCall[c].email = Env /\ acts \in Nat
        /\ consoleCall[c].pc # "idle"
    BY ConsoleAssumption DEF ConsoleIInv, ConsoleTypeOK, CallFits
  <1>2. ASSUME NEW i \in Like(Env), Admit(c, i) PROVE ~ admins[i].active
    <2>1. ASSUME consoleCall' = [consoleCall EXCEPT ![c].by = i, ![c].pc = "stamp"] PROVE FALSE
      BY <1>1, <2>1 DEF ConsoleRequests
    <2> QED BY <1>2, <2>1 DEF Admit
  <1>3. CASE RecordEvent
    BY <1>1, <1>3 DEF RecordEvent
  <1>4. CASE ServerRestarts
    BY <1>1, <1>4 DEF ServerRestarts, LogFault, Act
  <1>5. ASSUME NEW d \in ConsoleCalls, d # c, consoleCall'[c] = consoleCall[c] PROVE FALSE
    BY <1>1, <1>5
  <1>6. ASSUME NEW d \in ConsoleCalls,
               \/ \E e \in AdminEmails, k \in BOOLEAN : StartLogin(d, e, k)
               \/ \E i \in Ids, ask \in Changes : Arrive(d, i, ask)
               \/ Validate(d) \/ ReadTarget(d) \/ Refused(d) \/ PersistLog(d)
        PROVE  FALSE
    <2>1. d # c
      BY <1>6 DEF StartLogin, Arrive, Validate, ReadTarget, Refused, PersistLog, Is
    <2>2. consoleCall'[c] = consoleCall[c]
      BY <1>1, <1>6, <2>1 DEF StartLogin, Arrive, Validate, ReadTarget, Refused, PersistLog, To, Bye
    <2> QED BY <1>5, <2>1, <2>2
  <1>7. ASSUME NEW d \in ConsoleCalls, Commit(d) PROVE FALSE
    <2>1. CallsAfter(d) /\ consoleCall[d].pc = "commit"
      BY <1>7, CommitCalls
    <2>2. d # c
      BY <2>1
    <2> QED BY <1>1, <2>1, <2>2 DEF CallsAfter
  <1>8. ASSUME NEW d \in ConsoleCalls,
               FindAdmin(d) \/ EnsureAdmin(d) \/ FindAgain(d) \/ FinishLogin(d)
        PROVE  d = c
    <2>1. ASSUME d # c PROVE consoleCall'[c] = consoleCall[c]
      BY <1>1, <1>8, <2>1 DEF FindAdmin, EnsureAdmin, FindAgain, FinishLogin, To, Bye, Admit
    <2> QED BY <1>5, <2>1
  <1>9. CASE FindAdmin(c)
    <2>1. CASE Like(Env) # {}
      BY <1>1, <1>2, <1>9, <2>1 DEF FindAdmin
    <2>2. CASE Like(Env) = {}
      <3>1. To(c, "ensure")
        BY <1>1, <1>9, <2>2 DEF FindAdmin
      <3> QED BY <1>1, <3>1 DEF To, ConsoleRequests
    <2> QED BY <2>1, <2>2
  <1>10. CASE EnsureAdmin(c)
    <2>1. To(c, "again")
      BY <1>1, <1>10 DEF EnsureAdmin
    <2> QED BY <1>1, <2>1 DEF To, ConsoleRequests
  <1>11. CASE FindAgain(c)
    <2>1. CASE Like(Env) # {}
      BY <1>2, <1>11, <2>1 DEF FindAgain
    <2>2. CASE Like(Env) = {}
      BY <1>1, <1>11, <2>2 DEF FindAgain, Is, CallFits
    <2> QED BY <2>1, <2>2
  <1>12. CASE FinishLogin(c)
    BY <1>1, <1>12, LikeEnv DEF FinishLogin, Is, CallFits
  <1> QED BY <1>3, <1>4, <1>6, <1>7, <1>8, <1>9, <1>10, <1>11, <1>12 DEF ConsoleNext

\* The credentials of the environment let their owner in, whoever else was
\* removed or changed (ensureAdminUserFromEnvCredentials in auth.service.ts).
THEOREM OwnerGetsIn == ConsoleSpec => EnvGetsIn
  <1>1. ConsoleIInv /\ [ConsoleNext]_consoleVars =>
            [\A c \in ConsoleCalls :
               LET old == consoleCall[c]
               IN  old.pc \in {"find", "ensure", "again", "stamp"} /\ old.env
                     /\ consoleCall'[c].pc = "idle"
                   => \/ old.by \in tokens' \/ old.met # {}
                      \/ \E i \in Like(Env) : ~admins[i].active
                      \/ acts' > acts]_consoleVars
    BY SignInEnds
  <1> QED BY <1>1, ConsoleInvariant, PTL DEF EnvGetsIn, ConsoleSpec
===============================================================================
