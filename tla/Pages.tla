--------------------------------- MODULE Pages ---------------------------------
(***************************************************************************)
(* The tables of the console: a page shows one slice of the rows that fit  *)
(* its filter and its search, newest first, and lets an administrator      *)
(* change, add and remove rows.  Every change of the query asks the server *)
(* again, without waiting for or giving up what was asked before, and so   *)
(* does a handler once its change is made, with the query of the moment it *)
(* was clicked.  Handlers overlap, too.  Rows change by the handlers, by   *)
(* other windows and by the program; which of them it was makes no         *)
(* difference to a table, so a change is an action of its own and a        *)
(* handler is a click and an answer.  The server reads the slice and       *)
(* counts in two statements; the count is taken to be the later one.       *)
(***************************************************************************)
EXTENDS Integers, FiniteSets, Sequences, Functions

CONSTANTS
    MaxRows,        \* bound of the keys of rows, which grow with time
    Sizes,          \* the sizes a page can have
    MaxAsked,       \* bound of the requests, and of the handlers, on their way
    MaxDone         \* bound of clicks, changes of rows and failed requests, all
                    \* together

ASSUME PagesAssumption ==
    /\ MaxRows \in Nat \ {0, 1} /\ MaxDone \in Nat
    /\ Sizes \subseteq Nat \ {0} /\ Sizes # {} /\ MaxAsked \in Nat \ {0}

VARIABLES
    table,          \* what the page shows, see Table below
    rows,           \* the rows by their keys
    query,          \* the page and its size, the filter and the search in force
    asked,          \* the requests on their way, oldest first
    shown,          \* the answer on display
    clicks,         \* the queries with which the handlers on their way will ask
    searching,      \* the mark of a search that runs
    deeds,          \* the count of MaxDone
    excused,        \* history: why the display may not fit the query
    walk            \* history: the pages read one after another from the first

pagesVars == <<table, rows, query, asked, shown, clicks, searching, deeds, excused,
               walk>>

-------------------------------------------------------------------------------
\* A row has a status that filters are about and a name that a search is about.
\* A newer row has the greater key.
Keys == 1 .. MaxRows
Records == [status : {0, 1}, name : {0, 1}]
RowOf(status, name) == [status |-> status, name |-> name]
AnyStatus == 2

\* A table: whether it has pages and a filter, who searches (the server, the
\* browser in the slice it holds, or nobody), whether a search asks again even
\* when nothing changed, whether it has handlers, and whether rows change or go
\* away.
Table(paged, filter, search, again, acts, changes, goes) ==
    [paged |-> paged, filter |-> filter, search |-> search, again |-> again,
     acts |-> acts, changes |-> changes, goes |-> goes]

UsersPage == Table(TRUE, TRUE, "server", TRUE, TRUE, TRUE, FALSE)
OrdersPage == Table(TRUE, TRUE, "browser", FALSE, FALSE, TRUE, FALSE)
\* The logs of the console and of the site are tables like the credits.
CreditsPage == Table(TRUE, TRUE, "browser", FALSE, FALSE, FALSE, FALSE)
FeedbackPage == Table(TRUE, TRUE, "server", FALSE, TRUE, TRUE, TRUE)
SystemLogsPage == Table(TRUE, TRUE, "server", TRUE, FALSE, FALSE, FALSE)
\* Its handler is the button that loads again.
OpsPage == Table(TRUE, TRUE, "nobody", FALSE, TRUE, TRUE, FALSE)
TemplatesPage == Table(TRUE, FALSE, "nobody", FALSE, TRUE, TRUE, TRUE)
AdminsPanel == Table(TRUE, FALSE, "server", TRUE, TRUE, TRUE, TRUE)
AppsPanel == Table(TRUE, FALSE, "browser", FALSE, TRUE, TRUE, TRUE)
\* The roles are a table like the plans.
PlansPage == Table(FALSE, FALSE, "nobody", FALSE, TRUE, TRUE, TRUE)

Tables == {UsersPage, OrdersPage, CreditsPage, FeedbackPage, SystemLogsPage, OpsPage,
           TemplatesPage, AdminsPanel, AppsPanel, PlansPage}

-------------------------------------------------------------------------------
\* The listings of the server: the rows that fit, newest first, (page - 1) *
\* limit of them skipped.

Present == DOMAIN rows
Sent(q) == IF table.search = "server" THEN q ELSE [q EXCEPT !.search = 0]
Fits(r, q) == q.filter \in {AnyStatus, r.status} /\ q.search \in {0, r.name}
Fitting(q) == {id \in Present : Fits(rows[id], q)}
Newer(ids, id) == Cardinality({k \in ids : k > id})
\* Mutant: one row is skipped for every page that was turned.
SkippedMore(q) == (q.page - 1) * (q.size + 1)
Skipped(q) == (q.page - 1) * q.size
InSlice(q, id) ==
    table.paged => LET before == Newer(Fitting(q), id)
                   IN Skipped(q) <= before /\ before < Skipped(q) + q.size
Slice(q) == Restrict(rows, {id \in Fitting(q) : InSlice(q, id)})

\* A request and its slice once it was read; alone, late, torn, spoiled and there
\* are histories: it was asked when none was on its way, a later one was
\* answered, rows changed between its two statements, a row went since it was
\* read, and the rows that fitted when it was read.
Request(q) ==
    [q |-> q, read |-> FALSE, slice |-> Restrict(rows, {}), alone |-> asked = <<>>,
     late |-> FALSE, torn |-> FALSE, spoiled |-> FALSE, there |-> {}]

NoWalk == [on |-> FALSE]

\* A query asks for one of the first MaxRows pages.
Queries == [page : 1 .. MaxRows, size : Sizes, filter : {0, 1, AnyStatus}, search : {0, 1}]
Slices == UNION {[ids -> Records] : ids \in SUBSET Keys}
Requests == [q : Queries, read : BOOLEAN, slice : Slices, alone : BOOLEAN, late : BOOLEAN,
             torn : BOOLEAN, spoiled : BOOLEAN, there : SUBSET Keys]
Walks == [on : {TRUE}, q : Queries, there : SUBSET Keys, seen : SUBSET Keys, last : Nat,
          spoiled : BOOLEAN]

PagesTypeOK ==
    /\ table \in Tables /\ rows \in Slices /\ query \in Queries /\ asked \in Seq(Requests)
    /\ shown \in [q : Queries, slice : Slices, total : Nat]
    /\ clicks \in Seq(Queries)
    /\ searching \in BOOLEAN /\ deeds \in 0 .. MaxDone /\ excused \in BOOLEAN
    /\ walk \in {NoWalk} \cup Walks

PagesInit ==
    /\ table \in Tables
    /\ rows = [id \in {1, 2} |-> RowOf(1, id - 1)]
    /\ query \in [page : {1}, size : Sizes, filter : {AnyStatus}, search : {0}]
    /\ asked = <<>> /\ clicks = <<>>
    /\ shown = [q |-> query, slice |-> Slice(query), total |-> Cardinality(Present)]
    /\ searching = FALSE /\ deeds = 0 /\ excused = FALSE
    /\ walk = [on |-> TRUE, q |-> query, there |-> Present, seen |-> DOMAIN shown.slice,
               last |-> 1, spoiled |-> FALSE]

Deed == deeds < MaxDone /\ deeds' = deeds + 1
Room == Len(asked) < MaxAsked

-------------------------------------------------------------------------------
\* The query.  The effect of a page asks whenever its load function changed.

\* Mutant: the load function does not depend on the filter.
AskIfPage(new, again) ==
    asked' = IF new.page # query.page \/ new.search # query.search \/ again
             THEN Append(asked, Request(Sent(new))) ELSE asked

AskIf(new, again) ==
    asked' = IF Sent(new) # Sent(query) \/ again THEN Append(asked, Request(Sent(new)))
             ELSE asked

TurnTo(new, again) ==
    /\ Room /\ Deed
    /\ query' = new
    /\ AskIf(new, again)
    /\ UNCHANGED <<table, rows, shown, clicks, excused, walk>>

\* The page before or after the one shown.
LastPage == IF shown.total = 0 THEN 1 ELSE (shown.total + query.size - 1) \div query.size
SafePage == IF query.page > LastPage THEN LastPage ELSE query.page

\* The job history shows every load like a search that runs.
Marks == searching' = (searching \/ table = OpsPage)

SetPage(p) ==
    /\ table.paged /\ shown.total > 0
    /\ p # query.page /\ p \in {SafePage - 1, SafePage + 1} /\ p \in 1 .. LastPage
    /\ TurnTo([query EXCEPT !.page = p], FALSE)
    /\ Marks

\* onLimitChange
SetSize(n) ==
    /\ table.paged /\ shown.total > 0 /\ n # query.size
    /\ TurnTo([query EXCEPT !.size = n, !.page = 1], FALSE)
    /\ Marks

\* Filters and search words wait until the search that runs is answered.
SetFilter(v) ==
    /\ table.filter /\ ~ searching /\ v # query.filter
    /\ TurnTo([query EXCEPT !.filter = v, !.page = 1], FALSE)
    /\ Marks

\* handleSearchSubmit; the mark of a running search goes out with any answer.
Search(v) ==
    /\ table.search # "nobody" /\ ~ searching
    /\ TurnTo([query EXCEPT !.search = v, !.page = 1], table.again)
    /\ searching' = table.again

-------------------------------------------------------------------------------
\* A request: the server reads the slice and then counts, and the answer is put
\* on display when it comes, whatever was asked since.

ReadSlice(i) ==
    /\ ~ asked[i].read
    /\ asked' = [asked EXCEPT ![i].read = TRUE, ![i].slice = Slice(asked[i].q),
                              ![i].there = Fitting(asked[i].q)]
    /\ UNCHANGED <<table, rows, query, shown, clicks, searching, deeds, excused, walk>>

\* The walk after an answer: it starts with a first page and goes on as long as
\* the administrator waits for each page before asking for the next one.
Walked(r) ==
    IF r.late THEN NoWalk
    ELSE IF r.q.page = 1
    THEN [on |-> TRUE, q |-> r.q, there |-> r.there, seen |-> DOMAIN r.slice,
          last |-> 1, spoiled |-> r.spoiled \/ r.torn]
    ELSE IF walk.on /\ r.alone /\ [r.q EXCEPT !.page = 1] = walk.q
            /\ r.q.page \in {walk.last, walk.last + 1}
    THEN [walk EXCEPT !.seen = @ \cup DOMAIN r.slice, !.last = r.q.page,
                      !.spoiled = @ \/ r.torn]
    ELSE NoWalk

Without(i) ==
    [j \in 1 .. Len(asked) - 1 |->
        IF j < i THEN [asked[j] EXCEPT !.late = TRUE] ELSE asked[j + 1]]

Show(i) ==
    /\ asked[i].read
    /\ shown' = [q |-> asked[i].q, slice |-> asked[i].slice,
                total |-> Cardinality(Fitting(asked[i].q))]
    /\ asked' = Without(i)
    /\ searching' = FALSE
    /\ walk' = Walked(asked[i])
    /\ excused' = IF asked[i].late THEN TRUE
                  ELSE IF i = Len(asked) /\ asked[i].q = Sent(query) THEN FALSE
                  ELSE excused
    /\ UNCHANGED <<table, rows, query, clicks, deeds>>

\* What is left of a sequence without one of its elements.
Rest(s, i) == [j \in 1 .. Len(s) - 1 |-> IF j < i THEN s[j] ELSE s[j + 1]]

AskFails(i) ==
    /\ Deed
    /\ asked' = Rest(asked, i)
    /\ searching' = FALSE
    /\ excused' = TRUE
    /\ UNCHANGED <<table, rows, query, shown, clicks, walk>>

-------------------------------------------------------------------------------
\* The handlers.

\* A form is saved, a row is added, switched or removed, or the page is to be
\* loaded again.  No table waits for one handler before it starts another.
Click ==
    /\ table.acts /\ Deed /\ Len(clicks) < MaxAsked
    /\ clicks' = Append(clicks, Sent(query))
    /\ UNCHANGED <<table, rows, query, asked, shown, searching, excused, walk>>

\* The change is answered, and the handler asks with the query of its click.
Acted(k) ==
    /\ Room
    /\ asked' = Append(asked, Request(clicks[k]))
    /\ clicks' = Rest(clicks, k)
    /\ excused' = (excused \/ clicks[k] # Sent(query))
    /\ Marks
    /\ UNCHANGED <<table, rows, query, shown, deeds, walk>>

\* An error is shown, and nothing is asked.
ActFails(k) ==
    /\ clicks' = Rest(clicks, k)
    /\ UNCHANGED <<table, rows, query, asked, shown, searching, deeds, excused, walk>>

-------------------------------------------------------------------------------
\* The rows.

\* Histories of a request and of the walk when the rows become `new`.
Leaves(q, new) ==
    \E id \in Fitting(q) : ~ (id \in DOMAIN new /\ Fits(new[id], q))
Marked(r, new) ==
    [r EXCEPT !.torn = @ \/ r.read, !.spoiled = @ \/ (r.read /\ Leaves(r.q, new))]
Spoilt(new) == IF walk.on /\ Leaves(walk.q, new) THEN [walk EXCEPT !.spoiled = TRUE] ELSE walk

RowsBecome(new) ==
    /\ Deed
    /\ rows' = new
    /\ asked' = [j \in DOMAIN asked |-> Marked(asked[j], new)]
    /\ walk' = Spoilt(new)
    /\ UNCHANGED <<table, query, shown, clicks, searching, excused>>

NewRow ==
    /\ Cardinality(Present) < MaxRows
    /\ \E id \in Keys, v \in {0, 1} :
           /\ \A k \in Present : k < id
           /\ RowsBecome([k \in Present \cup {id} |->
                              IF k = id THEN RowOf(v, v) ELSE rows[k]])

RowChanged ==
    /\ table.changes
    /\ \E id \in Present : \E r \in Records \ {rows[id]} :
           RowsBecome([rows EXCEPT ![id] = r])

RowRemoved == table.goes /\ \E id \in Present : RowsBecome(Restrict(rows, Present \ {id}))

-------------------------------------------------------------------------------
Answering == \E i \in DOMAIN asked : ReadSlice(i) \/ Show(i)

PagesNext ==
    \/ Answering
    \/ \E i \in DOMAIN asked : AskFails(i)
    \/ \E p \in 1 .. MaxRows : SetPage(p)
    \/ \E n \in Sizes : SetSize(n)
    \/ \E v \in {0, 1, AnyStatus} : SetFilter(v)
    \/ \E v \in {0, 1} : Search(v)
    \/ Click \/ \E k \in DOMAIN clicks : Acted(k) \/ ActFails(k)
    \/ NewRow \/ RowChanged \/ RowRemoved

(* Safety *)

\* Once everything asked is answered the display fits the page, filter and
\* search in force, but for three reasons: an answer was overtaken by a later
\* one, a handler asked with the query of its click and another one is in
\* force by now, or a request failed.
ShownFitsQuery == asked = <<>> /\ ~ excused => shown.q = Sent(query)

\* An administrator who pages from the first page to the last, waiting for each,
\* has been shown every row that fitted when he began, though rows were added on
\* top meanwhile, unless one of them went or was changed so that it no longer
\* fits, or rows changed between the two statements of a listing.
WalkMissesNothing ==
    walk.on /\ ~ walk.spoiled /\ (walk.last * walk.q.size >= shown.total \/ ~ table.paged)
        /\ [shown.q EXCEPT !.page = 1] = walk.q /\ shown.q.page = walk.last
    => walk.there \subseteq walk.seen

PagesSpec == PagesInit /\ [][PagesNext]_pagesVars
===============================================================================
