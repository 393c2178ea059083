---------------------------- MODULE AinewsGuests ----------------------------
(***************************************************************************)
(* One browser with the AI News extension and one reader who may sign in   *)
(* there.  Before the sign-in the browser is a guest, a user row found by  *)
(* its device id; no unique key stops two first calls from making two of   *)
(* them (ainews-user-resolve.util.ts).  What guests did is moved to        *)
(* another guest or to the reader by a merge, a transaction that locks the *)
(* target's row first (mergeAinewsGuestIntoEndUser).  What they do is an   *)
(* article they like and summaries they ask for, each a reading and a      *)
(* write of a row keyed by the user (trackArticleAction,                   *)
(* summarizeArticles).                                                     *)
(***************************************************************************)
EXTENDS Integers, FiniteSets, Functions

CONSTANTS
    Guests,             \* ids of guests, given out once
    Reader,             \* the id of the signed-in user
    NoId,               \* no id
    Calls,              \* calls that can be served at once
    MaxActs             \* bound on what is done

ASSUME GuestsAssumption ==
    /\ IsFiniteSet(Guests)
    /\ Reader \notin Guests /\ NoId \notin Guests \cup {Reader}
    /\ MaxActs \in Nat

VARIABLES
    guests,             \* rows of guests with the device id
    retired,            \* ids of guests that were merged away
    latest,             \* the guest with the newest lastActiveAt
    linked,             \* the reader's row has the device id
    likes,              \* likes[x]: likeCount of user x for the article
    usage,              \* usage[x]: summarizeCalls of user x today
    liked, asked,       \* history: likes and summaries that were counted
    crossed,            \* history: what met a merge, or another count: Crossings
    guestCall           \* guestCall[c]: the call being served

guestVars == <<guests, retired, latest, linked, likes, usage, liked, asked,
               crossed, guestCall>>
people == <<guests, retired, latest, linked>>
deeds == <<likes, usage, liked, asked>>

Ids == Guests \cup {Reader}
IdOrNone == Ids \cup {NoId}

\* A call comes as a guest, as the reader, or to link the two: by the device
\* id ("link") or by the id that the extension kept ("hint").  A link by the
\* device id ends with upsertDeviceGuest ("again").
Call == [pc : {"idle", "list", "lock", "copy", "move", "find", "touch", "create",
               "device", "read", "write"},
         as : {"guest", "reader", "link", "hint", "again"}, deed : {"like", "ask"},
         id : IdOrNone, to : IdOrNone, dups : SUBSET Guests,
         seenLikes : Nat, seenUsage : Nat]

\* Another merge, or a call by its deed.
Crossings == {"merge", "like", "ask"}

GuestsTypeOK ==
    /\ guests \subseteq Guests /\ retired \subseteq Guests \ guests
    /\ latest \in guests \cup {NoId} /\ (guests # {} => latest # NoId)
    /\ linked \in BOOLEAN /\ crossed \subseteq Crossings
    /\ likes \in [Ids -> Nat] /\ usage \in [Ids -> Nat]
    /\ liked \in Nat /\ asked \in Nat
    /\ guestCall \in [Calls -> Call]

NoCall == [pc |-> "idle", as |-> "guest", deed |-> "like", id |-> NoId, to |-> NoId,
           dups |-> {}, seenLikes |-> 0, seenUsage |-> 0]

GuestsInit ==
    /\ guests = {} /\ retired = {} /\ latest = NoId /\ linked = FALSE
    /\ likes = [x \in Ids |-> 0] /\ usage = [x \in Ids |-> 0]
    /\ liked = 0 /\ asked = 0
    /\ crossed = {}
    /\ guestCall = [c \in Calls |-> NoCall]

In(c, pc) == guestCall[c].pc = pc
Now(c, state) == guestCall' = [guestCall EXCEPT ![c] = state]
Leave(c) == Now(c, NoCall)

\* The newest guest row after 'gone' was deleted: no order is kept among the
\* others.
Newest(rows, gone) ==
    IF latest # gone THEN {latest} ELSE IF rows = {} THEN {NoId} ELSE rows

Doing == liked + asked + Cardinality({c \in Calls : ~In(c, "idle")})

-----------------------------------------------------------------------------
\* A call without a session (upsertDeviceGuest), with one
\* (resolveAinewsUserId), or link-account.
ComeAs(c, as, deed) ==
    /\ In(c, "idle")
    /\ Doing < MaxActs
    /\ Now(c, [NoCall EXCEPT !.pc = IF as = "guest" THEN "list" ELSE "find",
                             !.as = as, !.deed = deed,
                             !.to = IF as = "guest" THEN NoId ELSE Reader])
    /\ UNCHANGED <<people, deeds, crossed>>

\* link-account without a device id, for the guest of the id that was kept.
ComeWithHint(c, x) ==
    /\ In(c, "idle")
    /\ Doing < MaxActs
    /\ x \in guests \cup retired
    /\ Now(c, [NoCall EXCEPT !.pc = "find", !.as = "hint", !.id = x, !.to = Reader])
    /\ UNCHANGED <<people, deeds, crossed>>

\* A summary asked for with the id the extension kept, merged away or not.
ComeWithId(c, x) ==
    /\ In(c, "idle")
    /\ Doing < MaxActs
    /\ x \in guests \cup retired
    /\ Now(c, [NoCall EXCEPT !.pc = "read", !.deed = "ask", !.id = x])
    /\ UNCHANGED <<people, deeds, crossed>>

\* dedupeDeviceGuests: the newest guest is kept.
ListGuests(c) ==
    /\ In(c, "list")
    /\ LET dups == guests \ {latest}
       IN  Now(c, IF dups = {} THEN [guestCall[c] EXCEPT !.pc = "find"]
                  ELSE [guestCall[c] EXCEPT !.pc = "lock", !.to = latest,
                                            !.dups = dups,
                                            !.id = CHOOSE g \in dups : TRUE])
    /\ UNCHANGED <<people, deeds, crossed>>

\* upsertDeviceGuest
AsGuest(call) == call.as \in {"guest", "again"}

\* The guest whom a call merges into the reader.
GuestOf(call) ==
    CASE call.as # "hint" -> latest
      [] call.as = "hint" /\ call.id \in guests -> call.id
      [] OTHER -> NoId

\* findDeviceGuest.  A reader who is linked is not merged by a plain call.
FindGuest(c) ==
    LET call == guestCall[c]
    IN  /\ In(c, "find")
        /\ CASE AsGuest(call) ->
                  Now(c, [call EXCEPT !.pc = IF latest = NoId THEN "create" ELSE "touch",
                                      !.id = latest])
             [] call.as = "reader" /\ linked ->
                  Now(c, [call EXCEPT !.pc = "read", !.id = Reader])
             [] OTHER ->
                  Now(c, IF GuestOf(call) = NoId THEN [call EXCEPT !.pc = "device"]
                         ELSE [call EXCEPT !.pc = "lock", !.id = GuestOf(call),
                                           !.dups = {GuestOf(call)}])
        /\ UNCHANGED <<people, deeds, crossed>>

\* The guest is updated by its id; the update fails when it was merged away.
TouchGuest(c) ==
    /\ In(c, "touch")
    /\ IF guestCall[c].id \in guests
       THEN /\ latest' = guestCall[c].id
            /\ IF guestCall[c].as = "again" THEN Leave(c)
               ELSE Now(c, [guestCall[c] EXCEPT !.pc = "read"])
       ELSE UNCHANGED latest /\ Leave(c)
    /\ UNCHANGED <<guests, retired, linked, deeds, crossed>>

CreateGuest(c) ==
    /\ In(c, "create")
    /\ Guests # guests \cup retired
    /\ LET g == CHOOSE x \in Guests \ (guests \cup retired) : TRUE
       IN  /\ guests' = guests \cup {g}
           /\ latest' = g
           /\ IF guestCall[c].as = "again" THEN Leave(c)
              ELSE Now(c, [guestCall[c] EXCEPT !.pc = "read", !.id = g])
    /\ UNCHANGED <<retired, linked, deeds, crossed>>

\* The reader's row gets the device id, if the call has one; link-account then
\* goes on to upsertDeviceGuest, which merges, touches or makes guests again.
SetDevice(c) ==
    LET call == guestCall[c]
    IN  /\ In(c, "device")
        /\ linked' = (linked \/ call.as # "hint")
        /\ CASE call.as = "reader" -> Now(c, [call EXCEPT !.pc = "read", !.id = Reader])
             [] call.as = "link" -> Now(c, [NoCall EXCEPT !.pc = "list", !.as = "again"])
             [] OTHER -> Leave(c)
        /\ UNCHANGED <<guests, retired, latest, deeds, crossed>>

-----------------------------------------------------------------------------
\* What a call does after a merge of guestCall[c].id.
AfterMerge(c) ==
    LET call == guestCall[c]
        rest == call.dups \ {call.id}
    IN  IF rest # {}
        THEN [call EXCEPT !.pc = "lock", !.dups = rest, !.id = CHOOSE g \in rest : TRUE]
        ELSE [call EXCEPT !.pc = IF AsGuest(call) THEN "find" ELSE "device",
                          !.dups = {}, !.id = NoId]

Merging(d) == In(d, "copy") \/ In(d, "move")

\* Both rows are read, and the update of the target locks it; a guest or a
\* target that is gone ends the merge.
LockTarget(c) ==
    LET call == guestCall[c]
    IN  /\ In(c, "lock")
        /\ IF call.id \in guests /\ call.to \in guests \cup {Reader}
           THEN /\ \A d \in Calls \ {c} : Merging(d) => guestCall[d].to # call.to
                /\ Now(c, [call EXCEPT !.pc = "copy"])
           ELSE Now(c, AfterMerge(c))
        /\ UNCHANGED <<people, deeds, crossed>>

\* remapAinewsUserId reads the guest's rows ...
CopyRows(c) ==
    /\ In(c, "copy")
    /\ Now(c, [guestCall[c] EXCEPT !.pc = "move",
                                   !.seenLikes = likes[guestCall[c].id],
                                   !.seenUsage = usage[guestCall[c].id]])
    /\ UNCHANGED <<people, deeds, crossed>>

\* Other calls that work on the guest or on the target of c's merge.
Meets(c) ==
    LET both == {guestCall[c].id, guestCall[c].to}
        others == Calls \ {c}
    IN  {guestCall[d].deed :
            d \in {e \in others : (In(e, "read") \/ In(e, "write")) /\ guestCall[e].id \in both}}
        \cup {"merge" : d \in {e \in others : /\ Merging(e)
                                            /\ {guestCall[e].id, guestCall[e].to} \cap both # {}}}

\* The summaries that were read are added to the target's, and all rows of
\* the guest are deleted.
UsageMoved(c) ==
    [usage EXCEPT ![guestCall[c].to] = @ + guestCall[c].seenUsage,
                  ![guestCall[c].id] = 0]

\* A wrong LikesMoved: the target's own like is forgotten.
LikesOverwritten(c) ==
    [likes EXCEPT ![guestCall[c].to] = guestCall[c].seenLikes, ![guestCall[c].id] = 0]

\* The like is moved row by row: what was not read stays.
LikesMoved(c) ==
    IF guestCall[c].seenLikes = 0 THEN likes
    ELSE [likes EXCEPT ![guestCall[c].to] = @ + guestCall[c].seenLikes,
                       ![guestCall[c].id] = 0]

\* The row of a like that was read is gone: its delete by key fails.
RowGone(c) == guestCall[c].seenLikes > 0 /\ likes[guestCall[c].id] = 0

GuestsWithout(g) == guests \ {g}

\* A merge into g is going on and has its row locked.
Locked(g) == \E d \in Calls : Merging(d) /\ guestCall[d].to = g

\* The rows are moved and the guest deleted, once nobody merges into it.
MoveRows(c) ==
    LET from == guestCall[c].id
    IN  /\ In(c, "move")
        /\ ~Locked(from)
        /\ ~RowGone(c)
        /\ usage' = UsageMoved(c)
        /\ likes' = LikesMoved(c)
        /\ guests' = GuestsWithout(from) /\ retired' = retired \cup {from}
        /\ latest' \in Newest(guests \ {from}, from)
        /\ crossed' = crossed \cup Meets(c)
        /\ Now(c, [AfterMerge(c) EXCEPT !.seenLikes = 0, !.seenUsage = 0])
        /\ UNCHANGED <<linked, liked, asked>>

\* The whole merge is undone, and the call fails; also when two merges wait
\* for each other's guest.
MoveFails(c) ==
    /\ In(c, "move")
    /\ \/ RowGone(c)
       \/ \E d \in Calls : /\ In(d, "move") /\ guestCall[d].to = guestCall[c].id
                           /\ guestCall[c].to = guestCall[d].id
    /\ Leave(c)
    /\ UNCHANGED <<people, deeds, crossed>>

-----------------------------------------------------------------------------
\* The merges that have read the rows of a user, or will add to them.
MergesOf(x) == {d \in Calls : In(d, "move") /\ x \in {guestCall[d].id, guestCall[d].to}}

\* trackArticleAction, summarizeArticles: the row of the user is read ...
ReadDeed(c) ==
    LET call == guestCall[c]
    IN  /\ In(c, "read")
        /\ Now(c, [call EXCEPT !.pc = "write", !.seenLikes = likes[call.id],
                               !.seenUsage = usage[call.id]])
        /\ UNCHANGED <<people, deeds, crossed>>

\* ... and upserted with what was read: a like counts once for its user.
WriteLike(c) ==
    LET x == guestCall[c].id
    IN  /\ In(c, "write") /\ guestCall[c].deed = "like"
        /\ IF guestCall[c].seenLikes > 0 THEN UNCHANGED <<likes, liked>>
           ELSE /\ likes' = [likes EXCEPT ![x] = 1]
                /\ liked' = liked + (IF likes[x] = 0 THEN 1 ELSE 0)
        /\ crossed' = crossed \cup {"like" : d \in MergesOf(x)}
        /\ Leave(c)
        /\ UNCHANGED <<people, usage, asked>>

\* The new count is written as a value: of two calls at once one is lost.
WriteUsage(c) ==
    LET x == guestCall[c].id
    IN  /\ In(c, "write") /\ guestCall[c].deed = "ask"
        /\ usage' = [usage EXCEPT ![x] = guestCall[c].seenUsage + 1]
        /\ asked' = asked + 1
        /\ crossed' = IF MergesOf(x) = {} /\ usage[x] = guestCall[c].seenUsage THEN crossed
                      ELSE crossed \cup {"ask"}
        /\ Leave(c)
        /\ UNCHANGED <<people, likes, liked>>

ServeCall(c) ==
    \/ ListGuests(c) \/ FindGuest(c) \/ TouchGuest(c) \/ CreateGuest(c) \/ SetDevice(c)
    \/ LockTarget(c) \/ CopyRows(c) \/ MoveRows(c) \/ MoveFails(c)
    \/ ReadDeed(c) \/ WriteLike(c) \/ WriteUsage(c)

GuestsNext ==
    \E c \in Calls :
        \/ \E as \in {"guest", "reader"}, deed \in {"like", "ask"} : ComeAs(c, as, deed)
        \/ ComeAs(c, "link", "like")
        \/ \E x \in Guests : ComeWithId(c, x) \/ ComeWithHint(c, x)
        \/ ServeCall(c)

GuestsSpec == GuestsInit /\ [][GuestsNext]_guestVars

(***************************************************************************)
(* Summaries survive the merges: until a merge meets a summary or another  *)
(* merge on its two users, or two summaries of one user overlap, the       *)
(* counters of all users add up to the summaries asked for, however many   *)
(* guests a browser had.                                                   *)
(***************************************************************************)
UsageIsKept ==
    crossed \cap {"merge", "ask"} = {} => SumFunction(usage) = asked

(***************************************************************************)
(* The same of the likes; and a guest that was merged away has none left,  *)
(* so no like stays with a user nobody can be any more.                    *)
(***************************************************************************)
LikesAreKept ==
    crossed \cap {"merge", "like"} = {} =>
        SumFunction(likes) = liked /\ \A g \in retired : likes[g] = 0

(***************************************************************************)
(* Even when merges of one guest into two users cross, its like is moved   *)
(* to one of them: the delete by key undoes the second merge.  It takes a  *)
(* like that is written between the two to let the second one through.     *)
(***************************************************************************)
LikesNeverMultiply == "like" \notin crossed => SumFunction(likes) <= liked

\* Nothing a guest did is lost or doubled by becoming somebody else.
WorkIsKept == UsageIsKept /\ LikesAreKept /\ LikesNeverMultiply
=============================================================================
