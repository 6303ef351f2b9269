----------------------------- MODULE SavedViews -----------------------------
(***************************************************************************)
(* The saved views of a project (internal/graphql/view_mutations.go) and   *)
(* a client that walks the pages of a connection: the views of the         *)
(* project, oldest first, or its runs, newest first                        *)
(* (project_resolver.go, store/run.go).                                    *)
(*                                                                         *)
(* An upsert runs its statements one by one, without a transaction; one    *)
(* with an id writes back every column of the row it read.  A page is an   *)
(* OFFSET into the order at the time of its list statement, and whether    *)
(* there is a next one comes from a COUNT of its own.                      *)
(***************************************************************************)
EXTENDS Naturals, Sequences, FiniteSets, SequencesExt

CONSTANTS
    Requests,       \* the requests that may be received
    Inputs,         \* what they may ask for
    FirstViews,     \* the views that exist from the start, oldest first
    FirstRuns,      \* the runs that exist from the start: their creation times
    LaterRuns,      \* the runs that may be inserted
    PageSize,       \* "first" of the walk
    None,
    MaxInFlight,    \* bound: requests executed at the same time
    MaxFaults       \* bound: statements that fail and deaths of the process

\* A created view gets a fresh id, for which its request stands.
Views == Range(FirstViews) \cup Requests

\* A row of views.  A column holds the request that wrote it, None for what
\* was there from the start.  The project of an update is not looked at.
Fields == {"name", "spec"}
Row    == [Fields -> Requests \cup {None}]
Input  == [op: {"create", "update", "delete"}, view: Views \cup {None}, fields: SUBSET Fields]

ASSUME ViewsAssumption ==
    /\ IsFiniteSet(Requests)
    /\ Inputs \subseteq Input /\ \A i \in Inputs : (i.view = None) = (i.op = "create")
    /\ FirstViews \in Seq(Range(FirstViews)) /\ IsInjective(FirstViews)
    /\ Range(FirstViews) \cap Requests = {}
    /\ FirstRuns \subseteq Nat /\ IsFiniteSet(FirstRuns) /\ LaterRuns \subseteq Nat
    /\ PageSize \in Nat \ {0}
    /\ None \notin Views \cup Row \cup Inputs /\ None \notin {"ok", "error", "views", "runs"}
    /\ {MaxInFlight, MaxFaults} \subseteq Nat

VARIABLES
    rows,       \* views: id -> row, None if there is none
    stamp,      \* id -> created_at, 0 before it is taken
    runs,       \* runs: their creation times
    pc,         \* per request: the statement it executes next
    input,      \* per request: its arguments
    read,       \* per request: the row it read
    result,     \* per request: "ok", "error" or None
    walk,       \* the client's walk
    seen,       \* history: the requests that had ended when one arrived
    there,      \* history: the views or runs there were when the walk began
    saw,        \* history: what happened during the walk
    faults

tables  == <<rows, stamp, runs>>
history == <<seen, there, saw>>
vars    == <<tables, pc, input, read, result, walk, history, faults>>

Working == {"stamp", "create", "find", "save", "insert", "delete"}
Steps   == Working \cup {"idle", "done"}
Ended   == {r \in Requests : pc[r] = "done"}
Walking == walk.step \in {"list", "count"}

Succeeds == UNCHANGED faults
Fails    == faults < MaxFaults /\ faults' = faults + 1

Goto(r, step) == pc' = [pc EXCEPT ![r] = step] /\ UNCHANGED result
Keep(r, row)  == read' = [read EXCEPT ![r] = row]
Reply(r, res) == pc' = [pc EXCEPT ![r] = "done"] /\ result' = [result EXCEPT ![r] = res]
Notice(what)  == saw' = IF Walking THEN saw \cup what ELSE saw

Init ==
    /\ rows = [v \in Views |-> IF v \in Range(FirstViews) THEN [f \in Fields |-> None] ELSE None]
    /\ stamp = [v \in Views |-> IF v \in Range(FirstViews) THEN CHOOSE n \in DOMAIN FirstViews : FirstViews[n] = v ELSE 0]
    /\ runs = FirstRuns
    /\ pc = [r \in Requests |-> "idle"]
    /\ input = [r \in Requests |-> None]
    /\ read = [r \in Requests |-> None]
    /\ result = [r \in Requests |-> None]
    /\ walk = [of |-> None, step |-> "idle", offset |-> 0, page |-> <<>>, total |-> 0, got |-> <<>>]
    /\ seen = [r \in Requests |-> {}]
    /\ there = {} /\ saw = {}
    /\ faults = 0

(***************************************************************************)
(* upsertView and deleteView.                                              *)
(***************************************************************************)
\* An upsert first gets the project, or creates it (see RunUpsert).
Receive(r) ==
    /\ pc[r] = "idle"
    /\ r = CHOOSE q \in Requests : pc[q] = "idle"   \* they are all alike
    /\ Cardinality({q \in Requests : pc[q] \in Working}) < MaxInFlight
    /\ \E i \in Inputs :
          /\ i.view \in Requests => pc[i.view] # "idle" /\ (rows[i.view] # None \/ result[i.view] = "ok")
          /\ input' = [input EXCEPT ![r] = i]
          /\ \/ Succeeds /\ Goto(r, CASE i.op = "create" -> "stamp" [] i.op = "update" -> "find" [] OTHER -> "delete")
             \/ i.op # "delete" /\ Fails /\ Reply(r, "error")
    /\ seen' = [seen EXCEPT ![r] = Ended]
    /\ UNCHANGED <<tables, read, walk, there, saw>>

\* The columns the input gives, over those of the row.
Written(r, row) == [f \in Fields |-> IF f \in input[r].fields THEN r ELSE row[f]]

\* created_at is taken before the INSERT is sent.  (Times are distinct.)
Stamp(r) ==
    /\ pc[r] = "stamp"
    /\ stamp' = [stamp EXCEPT ![r] = 1 + Cardinality({v \in Views : stamp[v] > 0})]
    /\ Goto(r, "create")
    /\ UNCHANGED <<rows, runs, input, read, walk, history, faults>>

\* The views of the walk so far, and whether v comes before one of them.
Delivered == walk.got \o walk.page
Early(v)  == walk.of = "views" /\ \E n \in DOMAIN Delivered : stamp[v] < stamp[Delivered[n]]

Create(r) ==
    /\ pc[r] = "create"
    /\ \/ /\ Succeeds
          /\ rows' = [rows EXCEPT ![r] = Written(r, [f \in Fields |-> None])]
          /\ Reply(r, "ok")
          /\ Notice(IF Early(r) THEN {"early"} ELSE {})
       \/ Fails /\ Reply(r, "error") /\ UNCHANGED <<rows, saw>>
    /\ UNCHANGED <<stamp, runs, input, read, walk, seen, there>>

\* Fault seeded for DeletedStaysDeleted: a view that is not there is updated
\* like a new one (FirstOrInit).
FindOrInit(r) ==
    /\ pc[r] = "find" /\ Succeeds
    /\ Keep(r, IF rows[input[r].view] = None THEN [f \in Fields |-> None] ELSE rows[input[r].view])
    /\ Goto(r, "save")
    /\ UNCHANGED <<tables, input, walk, history>>

Find(r) ==
    /\ pc[r] = "find"
    /\ LET row == rows[input[r].view] IN
       \/ Succeeds /\ row # None /\ Keep(r, row) /\ Goto(r, "save")
       \/ Succeeds /\ row = None /\ Reply(r, "error") /\ UNCHANGED read
       \/ Fails /\ Reply(r, "error") /\ UNCHANGED read
    /\ UNCHANGED <<tables, input, walk, history>>

\* Save: an UPDATE of all columns.  If it changes no row, an INSERT follows.
Save(r) ==
    /\ pc[r] = "save"
    /\ LET v == input[r].view IN
       \/ Succeeds /\ rows[v] # None /\ rows' = [rows EXCEPT ![v] = Written(r, read[r])] /\ Reply(r, "ok") /\ Keep(r, None)
       \/ Succeeds /\ rows[v] = None /\ Goto(r, "insert") /\ UNCHANGED <<rows, read>>
       \/ Fails /\ Reply(r, "error") /\ UNCHANGED rows /\ Keep(r, None)
    /\ UNCHANGED <<stamp, runs, input, walk, history>>

\* The INSERT of the row as it was read, created_at included; if the row is
\* there again by now, it is overwritten.
Insert(r) ==
    /\ pc[r] = "insert"
    /\ LET v == input[r].view IN
       \/ /\ Succeeds
          /\ rows' = [rows EXCEPT ![v] = Written(r, read[r])]
          /\ Reply(r, "ok")
          /\ Notice(IF Early(v) THEN {"early"} ELSE {})
       \/ Fails /\ Reply(r, "error") /\ UNCHANGED <<rows, saw>>
    /\ Keep(r, None)
    /\ UNCHANGED <<stamp, runs, input, walk, seen, there>>

\* A view that is not there is deleted all the same.
Delete(r) ==
    /\ pc[r] = "delete"
    /\ \/ Succeeds /\ rows' = [rows EXCEPT ![input[r].view] = None] /\ Reply(r, "ok") /\ Notice({"deleted"})
       \/ Fails /\ Reply(r, "error") /\ UNCHANGED <<rows, saw>>
    /\ UNCHANGED <<stamp, runs, input, read, walk, seen, there>>

\* UpsertRun inserts a run (see RunUpsert), perhaps after a later one.
\* Bound: only when the runs are walked.
NewRun ==
    /\ walk.of = "runs"
    /\ \E n \in LaterRuns \ runs : runs' = runs \cup {n}
    /\ Notice({"run"})
    /\ UNCHANGED <<rows, stamp, pc, input, read, result, walk, seen, there, faults>>

(***************************************************************************)
(* The walk: each page is asked for "after" the cursor of the last edge.   *)
(* (endCursor is always null.)                                             *)
(***************************************************************************)
ViewSet  == {v \in Views : rows[v] # None}
Older(v) == {w \in ViewSet : stamp[w] < stamp[v]}

\* Oldest first: as many views are older than one as come before it.
ViewOrder == [i \in 1..Cardinality(ViewSet) |-> CHOOSE v \in ViewSet : Cardinality(Older(v)) = i - 1]

\* Newest first.
Newest(S) == [i \in 1..Cardinality(S) |-> CHOOSE n \in S : Cardinality({m \in S : m > n}) = i - 1]
RunOrder  == Newest(runs)

Page(order) == SubSeq(order, walk.offset + 1, Min({walk.offset + PageSize, Len(order)}))

\* Fault seeded for NoViewTwice: the cursor of an edge is its own offset.
CursorOfEdge(offset, i) == offset + i - 1

\* The cursor of the i-th edge of a page.
Cursor(offset, i) == offset + i

\* Fault seeded for WalkEnds: there is a next page if one does not hold all.
HasNextByLimit(offset, total) == PageSize < total

HasNext(offset, total) == offset + PageSize < total

Begin ==
    /\ walk.step = "idle"
    /\ \/ walk' = [walk EXCEPT !.of = "views", !.step = "list"] /\ there' = ViewSet
       \/ walk' = [walk EXCEPT !.of = "runs", !.step = "count"] /\ there' = runs
    /\ UNCHANGED <<tables, pc, input, read, result, seen, saw, faults>>

\* A page and whether there is a next one are answered.
Turn(page, total, first) ==
    walk' = [walk EXCEPT !.step   = IF HasNext(walk.offset, total) THEN first ELSE "done",
                         !.offset = IF page = <<>> THEN @ ELSE Cursor(@, Len(page)),
                         !.page   = <<>>, !.total = 0, !.got = @ \o page]

ListViews ==
    /\ walk.of = "views" /\ walk.step = "list"
    /\ \/ Succeeds /\ walk' = [walk EXCEPT !.page = Page(ViewOrder), !.step = "count"] /\ UNCHANGED saw
       \/ Fails /\ walk' = [walk EXCEPT !.step = "done"] /\ Notice({"failed"})
    /\ UNCHANGED <<tables, pc, input, read, result, seen, there>>

\* The error of a COUNT is dropped, and the total is 0.
CountViews ==
    /\ walk.of = "views" /\ walk.step = "count"
    /\ \/ Succeeds /\ Turn(walk.page, Cardinality(ViewSet), "list") /\ UNCHANGED saw
       \/ Fails /\ Turn(walk.page, 0, "list") /\ Notice({"failed"})
    /\ UNCHANGED <<tables, pc, input, read, result, seen, there>>

CountRuns ==
    /\ walk.of = "runs" /\ walk.step = "count"
    /\ \/ Succeeds /\ walk' = [walk EXCEPT !.total = Cardinality(runs), !.step = "list"] /\ UNCHANGED saw
       \/ Fails /\ walk' = [walk EXCEPT !.total = 0, !.step = "list"] /\ Notice({"failed"})
    /\ UNCHANGED <<tables, pc, input, read, result, seen, there>>

ListRuns ==
    /\ walk.of = "runs" /\ walk.step = "list"
    /\ \/ Succeeds /\ Turn(Page(RunOrder), walk.total, "count") /\ UNCHANGED saw
       \/ Fails /\ walk' = [walk EXCEPT !.step = "done"] /\ Notice({"failed"})
    /\ UNCHANGED <<tables, pc, input, read, result, seen, there>>

\* The process dies: its requests, the walk's among them, end without a
\* result.
Crash ==
    /\ Fails
    /\ Walking \/ \E r \in Requests : pc[r] \in Working
    /\ pc' = [r \in Requests |-> IF pc[r] \in Working THEN "done" ELSE pc[r]]
    /\ walk' = IF Walking THEN [walk EXCEPT !.step = "done"] ELSE walk
    /\ Notice({"failed"})
    /\ read' = [r \in Requests |-> None]
    /\ UNCHANGED <<tables, input, result, seen, there>>

Step(r) == Stamp(r) \/ Create(r) \/ Find(r) \/ Save(r) \/ Insert(r) \/ Delete(r)
WalkStep == ListViews \/ CountViews \/ CountRuns \/ ListRuns

Next ==
    \/ Crash \/ NewRun \/ Begin \/ WalkStep
    \/ \E r \in Requests : Receive(r) \/ Step(r)

\* A handler runs until it has answered, and the client asks for each page.
Spec == Init /\ [][Next]_vars /\ WF_vars(WalkStep)

(***************************************************************************)
(* Properties.                                                             *)
(***************************************************************************)
\* Rows, arguments and the walk have their types.
TypeOK ==
    /\ rows \in [Views -> Row \cup {None}]
    /\ stamp \in [Views -> 0..Cardinality(Views)] /\ runs \subseteq FirstRuns \cup LaterRuns
    /\ pc \in [Requests -> Steps]
    /\ input \in [Requests -> Inputs \cup {None}] /\ read \in [Requests -> Row \cup {None}]
    /\ result \in [Requests -> {None, "ok", "error"}]
    /\ walk \in [of: {None, "views", "runs"}, step: {"idle", "list", "count", "done"}, offset: Nat, total: Nat,
                 page: Seq(Views \cup Nat), got: Seq(Views \cup Nat)]
    /\ walk.of = "views" => {walk.page, walk.got} \subseteq Seq(Views)
    /\ seen \in [Requests -> SUBSET Requests]
    /\ saw \subseteq {"deleted", "early", "run", "failed"}
    /\ faults \in 0..MaxFaults

Started     == {r \in Requests : pc[r] # "idle"}
Overlaps(r) == {q \in Started \ {r} : r \notin seen[q] /\ q \notin seen[r]}
Later(r)    == {q \in Started : r \in seen[q]}
On(v, S)    == {q \in S : input[q].view = v}

\* A view an answered update has written keeps the columns it gave until a
\* later request gives them or deletes the view: updates of other columns
\* write back what they read, and must not have read it too early.  (An
\* overlapping update or delete of the view may undo it.)
UpdateKept ==
    \A r \in Ended :
        LET v == input[r].view IN
        input[r].op = "update" /\ result[r] = "ok" /\ On(v, Overlaps(r)) = {} =>
            \A f \in input[r].fields :
                \/ \E q \in On(v, Later(r)) : input[q].op = "delete" \/ f \in input[q].fields
                \/ rows[v] # None /\ rows[v][f] = r

\* A deleted view stays deleted: no later update brings it back.  (One that
\* read it before it was deleted inserts it again.)
DeletedStaysDeleted ==
    \A r \in Ended :
        LET v == input[r].view IN
        /\ input[r].op = "delete" /\ result[r] = "ok"
        /\ \A q \in On(v, Overlaps(r)) : input[q].op = "delete"
        => rows[v] = None

\* A walk of the views delivers every view that was there when it began,
\* whatever is created and updated meanwhile.  (After a deletion the later
\* pages begin too far on, and a COUNT that fails ends the walk.)
NoViewMissed ==
    walk.of = "views" /\ walk.step = "done" /\ saw \cap {"deleted", "failed"} = {} => there \subseteq Range(walk.got)

\* A walk delivers no view twice, as long as no view is inserted before one
\* it has delivered: one whose creation time was taken earlier, or a deleted
\* one that comes back.
NoViewTwice == walk.of = "views" /\ "early" \notin saw => IsInjective(walk.got)

\* A walk of the runs during which none is inserted delivers each run
\* once, newest first.  (A run inserted between the COUNT and the list of
\* a page moves the oldest run out of the last page.)
RunsWalk ==
    walk.of = "runs" /\ walk.step = "done" /\ saw \cap {"run", "failed"} = {} =>
        walk.got = Newest(there)

\* A walk comes to its end.
WalkEnds == [](Walking => <>(walk.step = "done"))

\* What was answered for a view holds: its columns until they are given
\* again, its deletion for good.
AnswersHold == TypeOK /\ UpdateKept /\ DeletedStaysDeleted

\* A walk over the pages delivers what was there when it began, once, and
\* the runs newest first.
PagesComplete == NoViewMissed /\ NoViewTwice /\ RunsWalk
=============================================================================
