------------------------ MODULE ArtifactCollections ------------------------
(***************************************************************************)
(* The mutations of artifact collections, their types and their tags       *)
(* (internal/graphql/artifact_mutations.go), and the queries that find a   *)
(* collection by name and by type (project_resolver.go,                    *)
(* artifact_resolvers.go).                                                 *)
(*                                                                         *)
(* A request runs its statements one by one, without a transaction, next   *)
(* to other requests.  Renames and moves UPDATE single columns; a delete   *)
(* saves the whole row as it was read.  Descriptions behave as names do,   *)
(* except that they need not be unique, and are left out.                  *)
(***************************************************************************)
EXTENDS Naturals, Sequences, FiniteSets, SequencesExt

CONSTANTS
    Requests,       \* the requests that may be received
    Inputs,         \* what they may ask for
    Colls,          \* collections of one project, which exist from the start
    Kind,           \* collection -> "sequence" or "portfolio"
    FirstName,      \* collection -> the name it starts with
    Names,          \* names collections may have
    Types,          \* artifact type names; the first one exists
    Tags,           \* tag names
    FirstType,
    None,
    MaxInFlight,    \* bound: requests executed at the same time
    MaxFaults,      \* bound: statements that fail
    MaxCrashes      \* bound: deaths of the server process

\* A row of artifact_collections; types and tags are known by their names,
\* which are unique.
Row   == [name: Names, type: Types, state: {"active", "deleted"}]

\* needs is the kind the handler looks for, None if it takes any.
Input == [op: {"delete", "update", "move", "type", "assign", "unassign"}, coll: Colls, needs: {"sequence", "portfolio", None},
          name: Names \cup {None}, type: Types \cup {None}, tags: {None} \cup Seq(Tags)]

\* Which arguments an operation has; those it has not are None.
WellFormed(i) ==
    /\ i.name # None => i.op = "update"
    /\ i.type # None <=> i.op \in {"move", "type"}
    /\ i.tags # None => i.op \in {"update", "assign", "unassign"}
    /\ i.op \in {"assign", "unassign"} => i.tags # None

ASSUME CollectionsAssumption ==
    /\ Inputs \subseteq Input /\ \A i \in Inputs : WellFormed(i)
    /\ Kind \in [Colls -> {"sequence", "portfolio"}]
    /\ FirstName \in [Colls -> Names] /\ IsInjective(FirstName)
    /\ FirstType \in Types
    /\ None \notin Names \cup Types \cup Tags \cup Requests /\ None \notin {"ok", "error"}
    /\ {MaxInFlight, MaxFaults, MaxCrashes} \subseteq Nat

VARIABLES
    rows,       \* artifact_collections
    types,      \* artifact_types: the names
    tags,       \* tags: the names
    assigned,   \* artifact_collection_tags: <<collection, tag>>
    pc,         \* per request: the statement it executes next
    input,      \* per request: its arguments
    read,       \* per request: the row it read
    at,         \* per request: the tags of its input it is done with
    result,     \* per request: "ok", "error" or None
    seen,       \* history: the requests that had ended when it arrived
    before,     \* history: the collection's tags when it arrived
    faults, crashes

tables  == <<rows, types, tags, assigned>>
history == <<seen, before>>
vars    == <<tables, pc, input, read, at, result, history, faults, crashes>>

Working == {"find", "save", "rename", "clear", "tag", "new tag", "assign", "unassign", "reload",
            "type", "new type", "set type"}
Steps   == Working \cup {"idle", "done"}
Ended   == {r \in Requests : pc[r] = "done"}

TagsOf(c) == {t \in Tags : <<c, t>> \in assigned}

Succeeds == UNCHANGED faults
Fails    == faults < MaxFaults /\ faults' = faults + 1

Goto(r, step) == pc' = [pc EXCEPT ![r] = step] /\ UNCHANGED result
Reply(r, res) == pc' = [pc EXCEPT ![r] = "done"] /\ result' = [result EXCEPT ![r] = res]

Init ==
    /\ rows = [c \in Colls |-> [name |-> FirstName[c], type |-> FirstType, state |-> "active"]]
    /\ types = {FirstType} /\ tags = {} /\ assigned = {}
    /\ pc = [r \in Requests |-> "idle"]
    /\ input = [r \in Requests |-> None]
    /\ read = [r \in Requests |-> None]
    /\ at = [r \in Requests |-> 0]
    /\ result = [r \in Requests |-> None]
    /\ seen = [r \in Requests |-> {}]
    /\ before = [r \in Requests |-> {}]
    /\ faults = 0 /\ crashes = 0

Receive(r) ==
    /\ pc[r] = "idle"
    /\ Cardinality({q \in Requests : pc[q] \in Working}) < MaxInFlight
    /\ \E i \in Inputs :
          /\ input' = [input EXCEPT ![r] = i]
          /\ IF i.op = "unassign" /\ i.tags = <<>> THEN Reply(r, "ok")
             ELSE Goto(r, CASE i.op = "type" -> "type" [] i.op = "unassign" -> "unassign" [] OTHER -> "find")
          /\ before' = [before EXCEPT ![r] = TagsOf(i.coll)]
    /\ seen' = [seen EXCEPT ![r] = Ended]
    /\ UNCHANGED <<tables, read, at, faults, crashes>>

(***************************************************************************)
(* The row of the collection.                                              *)
(***************************************************************************)
\* The next tag of the input, if there is one.
Loop(r, n) ==
    /\ at' = [at EXCEPT ![r] = n]
    /\ IF n < Len(input[r].tags) THEN Goto(r, "tag")
       ELSE IF input[r].op = "assign" THEN Reply(r, "ok")
       ELSE Goto(r, "reload")

\* What the handler does with the collection it found.
AfterFind(r) ==
    LET i == input[r] IN
    IF i.op = "assign" THEN Loop(r, 0)
    ELSE /\ UNCHANGED at
         /\ Goto(r, CASE i.op = "delete" -> "save"
                      [] i.op = "move"   -> "type"
                      [] OTHER -> IF i.name # None THEN "rename" ELSE IF i.tags # None THEN "clear" ELSE "reload")

\* Fault seeded for RenameKept: the row comes from a cache.
FindCached(r) ==
    /\ pc[r] = "find" /\ Succeeds
    /\ read' = [read EXCEPT ![r] = [name |-> FirstName[input[r].coll], type |-> FirstType, state |-> "active"]]
    /\ AfterFind(r)
    /\ UNCHANGED <<tables, input, history, crashes>>

Find(r) ==
    /\ pc[r] = "find"
    /\ LET i == input[r] IN
       \/ /\ Succeeds
          /\ i.needs \in {None, Kind[i.coll]}
          /\ read' = [read EXCEPT ![r] = rows[i.coll]]
          /\ AfterFind(r)
       \/ /\ Succeeds
          /\ i.needs \notin {None, Kind[i.coll]}
          /\ Reply(r, "error") /\ UNCHANGED <<read, at>>
       \/ Fails /\ Reply(r, "error") /\ UNCHANGED <<read, at>>
    /\ UNCHANGED <<tables, input, history, crashes>>

\* The unique index on project and name.
Free(name, c) == \A d \in Colls \ {c} : rows[d].name # name

\* deleteArtifactSequence and deleteArtifactPortfolio: every column is
\* written back.
Save(r) ==
    /\ pc[r] = "save"
    /\ LET c == input[r].coll IN
       \/ /\ Succeeds /\ Free(read[r].name, c)
          /\ rows' = [rows EXCEPT ![c] = [read[r] EXCEPT !.state = "deleted"]]
          /\ Reply(r, "ok")
       \/ Succeeds /\ ~Free(read[r].name, c) /\ Reply(r, "error") /\ UNCHANGED rows
       \/ Fails /\ Reply(r, "error") /\ UNCHANGED rows
    /\ UNCHANGED <<types, tags, assigned, input, read, at, history, crashes>>

\* Fault seeded for DeletedForGood: the whole row is saved.
RenameBySave(r) ==
    /\ pc[r] = "rename" /\ Succeeds
    /\ Free(input[r].name, input[r].coll)
    /\ rows' = [rows EXCEPT ![input[r].coll] = [read[r] EXCEPT !.name = input[r].name]]
    /\ Goto(r, IF input[r].tags # None THEN "clear" ELSE "reload")
    /\ UNCHANGED <<types, tags, assigned, input, read, at, history, crashes>>

\* updateArtifactSequence and updateArtifactPortfolio: UPDATE of the name.
Rename(r) ==
    /\ pc[r] = "rename"
    /\ LET i == input[r] IN
       \/ /\ Succeeds /\ Free(i.name, i.coll)
          /\ rows' = [rows EXCEPT ![i.coll].name = i.name]
          /\ Goto(r, IF i.tags # None THEN "clear" ELSE "reload")
       \/ Succeeds /\ ~Free(i.name, i.coll) /\ Reply(r, "error") /\ UNCHANGED rows
       \/ Fails /\ Reply(r, "error") /\ UNCHANGED rows
    /\ UNCHANGED <<types, tags, assigned, input, read, at, history, crashes>>

\* The second read; what it finds is answered.
Reload(r) ==
    /\ pc[r] = "reload"
    /\ \/ Succeeds /\ read' = [read EXCEPT ![r] = rows[input[r].coll]] /\ Reply(r, "ok")
       \/ Fails /\ Reply(r, "error") /\ UNCHANGED read
    /\ UNCHANGED <<tables, input, at, history, crashes>>

(***************************************************************************)
(* Tags.                                                                   *)
(***************************************************************************)
\* Fault seeded for TagsReplaced: the old assignments stay.
ClearNothing(r) ==
    /\ pc[r] = "clear"
    /\ Succeeds /\ Loop(r, 0)
    /\ UNCHANGED <<tables, input, read, history, crashes>>

\* The DELETE of all assignments, whose error is dropped.
Clear(r) ==
    /\ pc[r] = "clear" /\ Loop(r, 0)
    /\ \/ Succeeds /\ assigned' = {a \in assigned : a[1] # input[r].coll}
       \/ Fails /\ UNCHANGED assigned
    /\ UNCHANGED <<rows, types, tags, input, read, history, crashes>>

Tag(r) == input[r].tags[at[r] + 1]

\* Fault seeded for ErrorsExplained: a tag is inserted without a look.
FindTagNever(r) ==
    /\ pc[r] = "tag" /\ Succeeds
    /\ Goto(r, "new tag")
    /\ UNCHANGED <<tables, input, read, at, history, crashes>>

\* getOrCreateTag: a lookup that fails counts as a tag that is not there.
FindTag(r) ==
    /\ pc[r] = "tag"
    /\ \/ Succeeds /\ Goto(r, IF Tag(r) \in tags THEN "assign" ELSE "new tag")
       \/ Fails /\ Goto(r, "new tag")
    /\ UNCHANGED <<tables, input, read, at, history, crashes>>

\* If the INSERT fails, the row is looked up with the key of the new row as
\* well, and never found.
NewTag(r) ==
    /\ pc[r] = "new tag"
    /\ \/ Succeeds /\ Tag(r) \notin tags /\ tags' = tags \cup {Tag(r)} /\ Goto(r, "assign")
       \/ Succeeds /\ Tag(r) \in tags /\ Reply(r, "error") /\ UNCHANGED tags
       \/ Fails /\ Reply(r, "error") /\ UNCHANGED tags
    /\ UNCHANGED <<rows, types, assigned, input, read, at, history, crashes>>

\* The INSERT, or FirstOrCreate, of the assignment, whose error is dropped;
\* an assignment that is there already stays.
Assign(r) ==
    /\ pc[r] = "assign" /\ Loop(r, at[r] + 1)
    /\ \/ Succeeds /\ assigned' = assigned \cup {<<input[r].coll, Tag(r)>>}
       \/ Fails /\ UNCHANGED assigned
    /\ UNCHANGED <<rows, types, tags, input, read, history, crashes>>

\* deleteArtifactCollectionTagAssignments: no error is reported.
Unassign(r) ==
    /\ pc[r] = "unassign"
    /\ at' = [at EXCEPT ![r] = @ + 1]
    /\ IF at'[r] < Len(input[r].tags) THEN Goto(r, "unassign") ELSE Reply(r, "ok")
    /\ \/ Succeeds /\ assigned' = assigned \ {<<input[r].coll, Tag(r)>>}
       \/ Fails /\ UNCHANGED assigned
    /\ UNCHANGED <<rows, types, tags, input, read, history, crashes>>

(***************************************************************************)
(* moveArtifactSequence and createArtifactType.                            *)
(***************************************************************************)
AfterType(r) == IF input[r].op = "move" THEN Goto(r, "set type") ELSE Reply(r, "ok")

FindType(r) ==
    /\ pc[r] = "type"
    /\ \/ Succeeds /\ input[r].type \in types /\ AfterType(r)
       \/ Succeeds /\ input[r].type \notin types /\ Goto(r, "new type")
       \/ Fails /\ Reply(r, "error")
    /\ UNCHANGED <<tables, input, read, at, history, crashes>>

\* As in ArtifactCreate, the loser of a race does not find the winner's row.
NewType(r) ==
    /\ pc[r] = "new type"
    /\ \/ Succeeds /\ input[r].type \notin types /\ types' = types \cup {input[r].type} /\ AfterType(r)
       \/ Succeeds /\ input[r].type \in types /\ Reply(r, "error") /\ UNCHANGED types
       \/ Fails /\ Reply(r, "error") /\ UNCHANGED types
    /\ UNCHANGED <<rows, tags, assigned, input, read, at, history, crashes>>

SetType(r) ==
    /\ pc[r] = "set type"
    /\ \/ Succeeds /\ rows' = [rows EXCEPT ![input[r].coll].type = input[r].type] /\ Reply(r, "ok")
       \/ Fails /\ Reply(r, "error") /\ UNCHANGED rows
    /\ UNCHANGED <<types, tags, assigned, input, read, at, history, crashes>>

\* The process dies; its requests end without a result.
Crash ==
    /\ crashes < MaxCrashes /\ \E r \in Requests : pc[r] \in Working
    /\ crashes' = crashes + 1
    /\ pc' = [r \in Requests |-> IF pc[r] \in Working THEN "done" ELSE pc[r]]
    /\ UNCHANGED <<tables, input, read, at, result, history, faults>>

Step(r) ==
    \/ Find(r) \/ Save(r) \/ Rename(r) \/ Reload(r)
    \/ Clear(r) \/ FindTag(r) \/ NewTag(r) \/ Assign(r) \/ Unassign(r)
    \/ FindType(r) \/ NewType(r) \/ SetType(r)

Next == Crash \/ \E r \in Requests : Receive(r) \/ Step(r)

Spec == Init /\ [][Next]_vars

(***************************************************************************)
(* Queries.  None of them looks at the state of a collection.              *)
(***************************************************************************)
\* The collection a name stands for in the project.
Named(name) == {c \in Colls : rows[c].name = name}

\* The collections a type lists.
OfType(type) == {c \in Colls : rows[c].type = type}

\* The collections in which a type looks for "name:alias": each collection
\* of the type leads to a lookup in the whole project.
TypeLookup(type, name) == IF OfType(type) = {} THEN {} ELSE Named(name)

(***************************************************************************)
(* Properties.                                                             *)
(***************************************************************************)
\* Rows, arguments and program counters have their types.
TypeOK ==
    /\ rows \in [Colls -> Row]
    /\ types \subseteq Types /\ tags \subseteq Tags /\ assigned \subseteq Colls \X Tags
    /\ pc \in [Requests -> Steps]
    /\ input \in [Requests -> Inputs \cup {None}] /\ read \in [Requests -> Row \cup {None}]
    /\ at \in [Requests -> Nat]
    /\ result \in [Requests -> {None, "ok", "error"}]
    /\ seen \in [Requests -> SUBSET Requests] /\ before \in [Requests -> SUBSET Tags]
    /\ {faults, crashes} \subseteq Nat

Started     == {r \in Requests : pc[r] # "idle"}
Overlaps(r) == {q \in Started \ {r} : r \notin seen[q] /\ q \notin seen[r]}
Later(r)    == {q \in Started : r \in seen[q]}
Alone(r)    == \A q \in Overlaps(r) : input[q].coll # input[r].coll \/ input[q].op = "type"
On(r, S)    == {q \in S : input[q].coll = input[r].coll}
Retags(q)   == input[q].op \in {"assign", "unassign"} \/ (input[q].op = "update" /\ input[q].tags # None)

\* A collection whose rename was answered is found by its new name, whatever
\* is deleted, moved or tagged afterwards, until the next rename.  (A delete
\* that overlaps the rename may write the old name back.)
RenameKept ==
    \A r \in Ended :
        input[r].name # None /\ result[r] = "ok" /\ Alone(r) /\ (\A q \in On(r, Later(r)) : input[q].name = None) =>
            Named(input[r].name) = {input[r].coll}

\* A collection whose move was answered is listed by the destination type
\* and found through it, until it is moved again.
MoveKept ==
    \A r \in Ended :
        input[r].op = "move" /\ result[r] = "ok" /\ Alone(r) /\ (\A q \in On(r, Later(r)) : input[q].op # "move") =>
            /\ input[r].coll \in OfType(input[r].type)
            /\ input[r].coll \in TypeLookup(input[r].type, rows[input[r].coll].name)

\* After an update with tags the collection has exactly those tags.  One
\* that was refused or cut off half-way leaves the old tags or some of the
\* new ones, never a mixture.  (When a statement fails, an assignment may be
\* missing or an old one left although the update is answered.)
TagsReplaced ==
    \A r \in Ended :
        input[r].op = "update" /\ input[r].tags # None /\ faults = 0 /\ Alone(r) /\ (\A q \in On(r, Later(r)) : ~Retags(q)) =>
            LET now == TagsOf(input[r].coll)
                new == Range(input[r].tags) IN
            IF result[r] = "ok" THEN now = new ELSE now = before[r] \/ now \subseteq new

\* The tag and type names two requests both want to exist.
Shared(r, q) ==
    \/ input[r].type # None /\ input[r].type = input[q].type
    \/ input[r].tags # None /\ input[q].tags # None /\ Range(input[r].tags) \cap Range(input[q].tags) # {}

\* Without failing statements a request is refused for a reason its sender
\* can see: the collection is of the other kind, another one has the name,
\* or an overlapping request creates the same tag or type.  (A delete that
\* overlaps a rename or another delete may find its old name taken.)
ErrorsExplained ==
    \A r \in Requests :
        result[r] = "error" /\ faults = 0 =>
            \/ input[r].needs \notin {None, Kind[input[r].coll]}
            \/ \E c \in Colls \ {input[r].coll} :
                  FirstName[c] = input[r].name \/ \E q \in Started : input[q].coll = c /\ input[q].name = input[r].name
            \/ \E q \in Overlaps(r) : Shared(r, q)
            \/ /\ input[r].op = "delete"
               /\ \E q \in On(r, Overlaps(r)) : input[q].name # None \/ input[q].op = "delete"

\* A deleted collection stays deleted: no overlapping rename, move or update
\* brings it back.
DeletedForGood == [][\A c \in Colls : rows[c].state = "deleted" => rows'[c].state = "deleted"]_vars

\* A rename or a move that was answered holds until the next one.
ChangesKept == TypeOK /\ RenameKept /\ MoveKept
=============================================================================
