--------------------------- MODULE ArtifactCreate ---------------------------
(***************************************************************************)
(* The createArtifact mutation of the bandw server                         *)
(* (internal/graphql/artifact_mutations.go, internal/store/artifact.go).   *)
(*                                                                         *)
(* The handler runs one SQL statement after another with no transaction    *)
(* around them, so the statements of two requests interleave freely: every *)
(* action below is one statement of one request.  A request is a process;  *)
(* an SDK retry after a timeout is a second request with the same client   *)
(* id, which may run while the first one is still executing.               *)
(*                                                                         *)
(* Row ids are UUIDs drawn by the BeforeCreate hooks.  A request creates at*)
(* most one row of each table, so the row a request creates is identified  *)
(* by the request itself.  There is one entity and one project name.       *)
(***************************************************************************)
EXTENDS Naturals, FiniteSets

CONSTANTS
    Requests,       \* the createArtifact requests that may be received
    Inputs,         \* what they may ask for
    Clients,        \* client ids the SDK puts in its requests
    Colls,          \* artifact collection names
    Types,          \* artifact type names
    Runs,           \* run names; in its project a name identifies the row
    Displays,       \* their display names: names of runs, None for any other
    None,           \* an absent row, an empty client id, a null run name
    MaxInFlight,    \* bound: requests the server executes at the same time
    MaxFaults       \* bound: statements that fail (SQLITE_BUSY, lost connection)

\* The rows of artifact_collections and artifacts.
CollRow == [id: Requests, type: Types]
ArtRow  == [coll: Colls, version: Nat, client: Clients \cup {None},
            run: Runs \cup {None}]

\* What the model keeps of the input of the mutation.
Input == [client: Clients \cup {None}, coll: Colls, type: Types, run: Runs \cup {None}]

\* What a request fails on, as its reply tells.
Errors == {"no project", "no run", "type", "collection", "artifact"}

ASSUME CreateAssumption ==
    /\ IsFiniteSet(Requests) /\ Inputs \subseteq Input
    /\ Displays \subseteq Runs \cup {None}
    /\ Requests \cap Errors = {}
    /\ None \notin Requests \cup Clients \cup Colls \cup Types \cup Runs
    /\ None \notin CollRow
    /\ None \notin ArtRow
    /\ None \notin [coll: Colls, version: Nat]
    /\ MaxInFlight \in Nat
    /\ MaxFaults \in Nat

VARIABLES
    project,    \* whether the row of the project exists
    runs,       \* run rows of the project (written by upsertBucket)
    display,    \* run -> the display name of its row, or None
    types,      \* artifact_types: name -> id of its row, or None
    colls,      \* artifact_collections: name -> row, or None
    arts,       \* artifacts: id -> row, or None
    usages,     \* artifact_usages rows of type "output": <<run, artifact id>>
    pc,         \* per request: the statement it executes next
    input,      \* per request: its arguments
    creator,    \* per request: the run it found (runID), or None
    next,       \* per request: the local nextVersion
    result,     \* per request: the artifact it returned, or its error
    seen,       \* history: the artifacts stored when the request arrived
    known,      \* history: whether the run it names was there when it arrived
    faults      \* statements that have failed so far

runVars == <<runs, display>>
dbVars  == <<project, runVars, types, colls, arts, usages>>
asked   == <<input, known>>
vars    == <<dbVars, pc, asked, creator, next, result, seen, faults>>

Working == {"project", "reread project", "new project", "run",
            "run by display", "type", "new type", "refetch type", "coll", "new coll", "refetch coll",
            "dedup", "max", "insert", "usage"}
Steps   == Working \cup {"idle", "done", "killed"}

Stored      == {a \in Requests : arts[a] # None}
InColl(c)   == {a \in Stored : arts[a].coll = c}
InFlight    == {r \in Requests : pc[r] \in Working}

(***************************************************************************)
(* How a statement ends, and where the handler goes after it.  A failing   *)
(* statement (a busy or unreachable database) leaves no effect.            *)
(***************************************************************************)
Succeeds == UNCHANGED faults
Fails    == faults < MaxFaults /\ faults' = faults + 1

Goto(r, step) == pc' = [pc EXCEPT ![r] = step] /\ UNCHANGED result

Reply(r, res) ==
    /\ pc' = [pc EXCEPT ![r] = "done"]
    /\ result' = [result EXCEPT ![r] = res]

\* What follows the project lookup: the run is resolved only if it is named.
AfterProject(r) == IF input[r].run = None THEN "type" ELSE "run"

\* Fault seeded for RetryIsDeduplicated: the dedup query is never made.
AfterCollNoDedup(r) == "max"

\* CreateArtifact skips the dedup query when the client id is empty.
AfterColl(r) == IF input[r].client = None THEN "max" ELSE "dedup"

Init ==
    /\ project \in BOOLEAN
    /\ runs \in SUBSET Runs
    /\ ~project => runs = {}
    /\ display \in [Runs -> Displays \cup {None}]
    /\ \A n \in Runs \ runs : display[n] = None
    /\ types = [t \in Types |-> None]
    /\ colls = [c \in Colls |-> None]
    /\ arts = [a \in Requests |-> None]
    /\ usages = {}
    /\ pc = [r \in Requests |-> "idle"]
    /\ input = [r \in Requests |-> None]
    /\ creator = [r \in Requests |-> None]
    /\ next = [r \in Requests |-> 0]
    /\ result = [r \in Requests |-> None]
    /\ seen = [r \in Requests |-> {}]
    /\ known = [r \in Requests |-> FALSE]
    /\ faults = 0

\* The server accepts request r; retries repeat the client id of another one.
Receive(r) ==
    /\ pc[r] = "idle"
    /\ Cardinality(InFlight) < MaxInFlight
    /\ \E i \in Inputs :
          /\ input' = [input EXCEPT ![r] = i]
          /\ known' = [known EXCEPT ![r] = i.run \in runs]
    /\ seen' = [seen EXCEPT ![r] = Stored]
    /\ Goto(r, "project")
    /\ UNCHANGED <<dbVars, creator, next, faults>>

\* Any error of GetProjectByEntityAndName, not only a missing row, leads to
\* the branch that creates the project.
FindProject(r) ==
    /\ pc[r] = "project"
    /\ \/ Succeeds /\ project /\ Goto(r, AfterProject(r))
       \/ ((Succeeds /\ ~project) \/ Fails) /\ Goto(r, "reread project")
    /\ UNCHANGED <<dbVars, asked, creator, next, seen>>

\* GetOrCreateProject looks the project up again ...
RereadProject(r) ==
    /\ pc[r] = "reread project"
    /\ \/ Succeeds /\ project /\ Goto(r, AfterProject(r))
       \/ Succeeds /\ ~project /\ Goto(r, "new project")
       \/ Fails /\ Reply(r, "no project")
    /\ UNCHANGED <<dbVars, asked, creator, next, seen>>

\* ... and inserts it; (entity_id, name) is unique and a conflict is an error.
NewProject(r) ==
    /\ pc[r] = "new project"
    /\ \/ Succeeds /\ ~project /\ project' = TRUE /\ Goto(r, AfterProject(r))
       \/ ((Succeeds /\ project) \/ Fails) /\ UNCHANGED project /\ Reply(r, "no project")
    /\ UNCHANGED <<runVars, types, colls, arts, usages, asked, creator, next, seen>>

(***************************************************************************)
(* GetRunByName: any error of the lookup by name, not only a missing row,  *)
(* leads to the one by display name, which takes the row with the smallest *)
(* key, a UUID: any of them.                                               *)
(***************************************************************************)
Showing(name) == {n \in runs : display[n] = name}

\* Fault seeded for ReferentialIntegrity: the name asked for is taken for the
\* key of the row that was found.
FoundAsked(r, n) == creator' = [creator EXCEPT ![r] = input[r].run] /\ Goto(r, "type")

Found(r, n) == creator' = [creator EXCEPT ![r] = n] /\ Goto(r, "type")

FindRun(r) ==
    /\ pc[r] = "run"
    /\ \/ Succeeds /\ input[r].run \in runs /\ Found(r, input[r].run)
       \/ /\ (Succeeds /\ input[r].run \notin runs) \/ Fails
          /\ Goto(r, "run by display") /\ UNCHANGED creator
    /\ UNCHANGED <<dbVars, asked, next, seen>>

FindRunByDisplay(r) ==
    /\ pc[r] = "run by display"
    /\ \/ Succeeds /\ \E n \in Showing(input[r].run) : Found(r, n)
       \/ /\ (Succeeds /\ Showing(input[r].run) = {}) \/ Fails
          /\ Reply(r, "no run") /\ UNCHANGED creator
    /\ UNCHANGED <<dbVars, asked, next, seen>>

(***************************************************************************)
(* GetOrCreateArtifactType and GetOrCreateArtifactCollection: select,      *)
(* insert if the row is missing, and when the insert fails select once     *)
(* more.  The second select reuses the struct the insert was given, whose  *)
(* primary key the BeforeCreate hook has already filled in: gorm adds      *)
(* "AND id = <that key>" to the query, so it finds only a row that this    *)
(* request created.  A second select that fails ends like one that finds   *)
(* nothing.                                                                *)
(***************************************************************************)
FindType(r) ==
    /\ pc[r] = "type"
    /\ \/ Succeeds /\ types[input[r].type] # None /\ Goto(r, "coll")
       \/ Succeeds /\ types[input[r].type] = None /\ Goto(r, "new type")
       \/ Fails /\ Reply(r, "type")
    /\ UNCHANGED <<dbVars, asked, creator, next, seen>>

NewType(r) ==
    /\ pc[r] = "new type"
    /\ \/ /\ Succeeds /\ types[input[r].type] = None
          /\ types' = [types EXCEPT ![input[r].type] = r]
          /\ Goto(r, "coll")
       \/ /\ (Succeeds /\ types[input[r].type] # None) \/ Fails
          /\ UNCHANGED types
          /\ Goto(r, "refetch type")
    /\ UNCHANGED <<project, runVars, colls, arts, usages, asked, creator, next, seen>>

RefetchType(r) ==
    /\ pc[r] = "refetch type"
    /\ \/ types[input[r].type] = r /\ Goto(r, "coll")
       \/ types[input[r].type] # r /\ Reply(r, "type")
    /\ UNCHANGED <<dbVars, asked, creator, next, seen, faults>>

\* The collection is found by name alone: one of another type is reused.
FindColl(r) ==
    /\ pc[r] = "coll"
    /\ \/ Succeeds /\ colls[input[r].coll] # None /\ Goto(r, AfterColl(r))
       \/ Succeeds /\ colls[input[r].coll] = None /\ Goto(r, "new coll")
       \/ Fails /\ Reply(r, "collection")
    /\ UNCHANGED <<dbVars, asked, creator, next, seen>>

NewColl(r) ==
    /\ pc[r] = "new coll"
    /\ \/ /\ Succeeds /\ colls[input[r].coll] = None
          /\ colls' = [colls EXCEPT ![input[r].coll] = [id |-> r, type |-> input[r].type]]
          /\ Goto(r, AfterColl(r))
       \/ /\ (Succeeds /\ colls[input[r].coll] # None) \/ Fails
          /\ UNCHANGED colls
          /\ Goto(r, "refetch coll")
    /\ UNCHANGED <<project, runVars, types, arts, usages, asked, creator, next, seen>>

OwnColl(r) == colls[input[r].coll] # None /\ colls[input[r].coll].id = r

RefetchColl(r) ==
    /\ pc[r] = "refetch coll"
    /\ \/ OwnColl(r) /\ Goto(r, AfterColl(r))
       \/ ~OwnColl(r) /\ Reply(r, "collection")
    /\ UNCHANGED <<dbVars, asked, creator, next, seen, faults>>

(***************************************************************************)
(* store.CreateArtifact.                                                   *)
(***************************************************************************)
\* Fault seeded for ImplementsVersionHistory: dedup against the requests
\* received, not the rows stored.
SameClientReceived(r) ==
    {a \in Requests : input[a] # None /\ input[a].client = input[r].client}

\* The artifacts with the client id of request r.
SameClient(r) == {a \in Stored : arts[a].client = input[r].client}

\* An artifact with the same client id is returned; First orders by the UUID,
\* so which one is arbitrary.  A failed query counts as "not there".
Dedup(r) ==
    /\ pc[r] = "dedup"
    /\ \/ Succeeds /\ \E a \in SameClient(r) : Reply(r, a)
       \/ ((Succeeds /\ SameClient(r) = {}) \/ Fails) /\ Goto(r, "max")
    /\ UNCHANGED <<dbVars, asked, creator, next, seen>>

\* Fault seeded for LaterCallsGetLaterVersions: some row's version is taken, not the greatest.
IsNewestAny(m) == TRUE

\* m has the greatest version in its collection.
IsNewest(m) == \A a \in InColl(arts[m].coll) : arts[a].version <= arts[m].version

\* Fault seeded for VersionsContiguous: MAX over the artifacts of all collections.
ReadMaxOfAllColls(r) ==
    /\ pc[r] = "max"
    /\ Succeeds
    /\ \/ Stored = {} /\ next' = [next EXCEPT ![r] = 0]
       \/ \E m \in Stored :
            /\ \A a \in Stored : arts[a].version <= arts[m].version
            /\ next' = [next EXCEPT ![r] = arts[m].version + 1]
    /\ Goto(r, "insert")
    /\ UNCHANGED <<dbVars, asked, creator, seen>>

\* SELECT MAX(version_index); the error of the Scan is dropped, and then the
\* version is that of an empty collection.
ReadMax(r) ==
    /\ pc[r] = "max"
    /\ \/ /\ (Succeeds /\ InColl(input[r].coll) = {}) \/ Fails
          /\ next' = [next EXCEPT ![r] = 0]
       \/ /\ Succeeds
          /\ \E m \in InColl(input[r].coll) :
                IsNewest(m) /\ next' = [next EXCEPT ![r] = arts[m].version + 1]
    /\ Goto(r, "insert")
    /\ UNCHANGED <<dbVars, asked, creator, seen>>

\* No index makes (collection_id, version_index) or client_id unique.
Insert(r) ==
    /\ pc[r] = "insert"
    /\ \/ /\ Succeeds
          /\ arts' = [arts EXCEPT ![r] =
                [coll |-> input[r].coll, version |-> next[r],
                 client |-> input[r].client, run |-> creator[r]]]
          /\ \/ creator[r] = None /\ Reply(r, r)
             \/ creator[r] # None /\ Goto(r, "usage")
       \/ Fails /\ UNCHANGED arts /\ Reply(r, "artifact")
    /\ UNCHANGED <<project, runVars, types, colls, usages, asked, creator, next, seen>>

\* Fault seeded for TypeOK: the columns of the lineage row are swapped.
RecordUsageSwapped(r) ==
    /\ pc[r] = "usage"
    /\ Succeeds /\ usages' = usages \cup {<<r, creator[r]>>}
    /\ Reply(r, r)
    /\ UNCHANGED <<project, runVars, types, colls, arts, asked, creator, next, seen>>

\* The output lineage row; the result of its insert is dropped.
RecordUsage(r) ==
    /\ pc[r] = "usage"
    /\ \/ Succeeds /\ usages' = usages \cup {<<creator[r], r>>}
       \/ Fails /\ UNCHANGED usages
    /\ Reply(r, r)
    /\ UNCHANGED <<project, runVars, types, colls, arts, asked, creator, next, seen>>

\* The server process dies (or its 10s shutdown grace ends): what was
\* executing is gone, what was written stays.
Crash ==
    /\ InFlight # {}
    /\ pc' = [r \in Requests |-> IF pc[r] \in Working THEN "killed" ELSE pc[r]]
    /\ UNCHANGED <<dbVars, asked, creator, next, result, seen, faults>>

\* upsertBucket inserts a run, and its project if that is missing, or gives a
\* run another display name (module RunUpsert).
UpsertRun ==
    /\ project' = TRUE
    /\ \E n \in Runs, name \in Displays :
          /\ n \in runs => name # None
          /\ runs' = runs \cup {n}
          /\ display' = [display EXCEPT ![n] = name]
    /\ UNCHANGED <<types, colls, arts, usages, pc, asked, creator, next, result, seen, faults>>

Next ==
    \/ \E r \in Requests :
        \/ Receive(r) \/ FindProject(r) \/ RereadProject(r) \/ NewProject(r)
        \/ FindRun(r) \/ FindRunByDisplay(r)
        \/ FindType(r) \/ NewType(r) \/ RefetchType(r)
        \/ FindColl(r) \/ NewColl(r) \/ RefetchColl(r)
        \/ Dedup(r) \/ ReadMax(r) \/ Insert(r) \/ RecordUsage(r)
    \/ Crash \/ UpsertRun

Spec == Init /\ [][Next]_vars
-----------------------------------------------------------------------------
TypeOK ==
    /\ project \in BOOLEAN
    /\ runs \in SUBSET Runs /\ display \in [Runs -> Displays \cup {None}]
    /\ types \in [Types -> Requests \cup {None}]
    /\ colls \in [Colls -> CollRow \cup {None}]
    /\ arts \in [Requests -> ArtRow \cup {None}]
    /\ usages \in SUBSET (Runs \X Requests)
    /\ pc \in [Requests -> Steps]
    /\ input \in [Requests -> Input \cup {None}]
    /\ \A r \in Requests : pc[r] \in Working => input[r] \in Input
    /\ creator \in [Requests -> Runs \cup {None}]
    /\ next \in [Requests -> Nat]
    /\ result \in [Requests -> Requests \cup Errors \cup {None}]
    /\ seen \in [Requests -> SUBSET Requests]
    /\ known \in [Requests -> BOOLEAN]
    /\ faults \in 0..MaxFaults

(***************************************************************************)
(* What holds however requests interleave, fail and die.                   *)
(***************************************************************************)
\* Whatever a request with version v > 0 was built on was stored before it,
\* so the versions of a collection are 0..m with nothing left out, even when
\* two requests computed the same version or MAX could not be read
\* (CreateArtifact, artifact.go:71-98).
VersionsContiguous ==
    \A a \in Stored : arts[a].version > 0 =>
        \E b \in InColl(arts[a].coll) : arts[b].version + 1 = arts[a].version

\* As long as no statement fails, an artifact of a call that arrived after
\* another artifact was stored has a later version in the same collection:
\* the race on MAX never reorders calls that did not overlap.
LaterCallsGetLaterVersions ==
    faults = 0 => \A a \in Stored : \A b \in seen[a] :
        arts[b].coll = arts[a].coll => arts[b].version < arts[a].version

\* As long as no statement fails, a retry that arrives when an artifact with
\* its client id is stored creates nothing and, if it gets an artifact at all,
\* gets one with that client id (CreateArtifact, artifact.go:63-69).
IsRetry(r) ==
    /\ pc[r] # "idle"
    /\ input[r].client # None
    /\ \E a \in seen[r] : arts[a].client = input[r].client

RetryIsDeduplicated ==
    faults = 0 => \A r \in Requests : IsRetry(r) =>
        /\ arts[r] = None
        /\ result[r] \in Requests => arts[result[r]].client = input[r].client

\* No row refers to a row that is not there, whichever statement of the
\* handler failed or was the last one before the process died: not an
\* artifact to its collection or its run, not a lineage row to its run or its
\* artifact, which names the same run; and an answer names a stored artifact.
RowsReferToRows ==
    /\ \A a \in Stored : colls[arts[a].coll] # None /\ arts[a].run \in runs \cup {None}
    /\ \A c \in Colls : colls[c] # None => types[colls[c].type] # None
    /\ \A t \in Types : types[t] # None => project
    /\ \A u \in usages : u[1] \in runs /\ u[2] \in Stored /\ arts[u[2]].run = u[1]
    /\ \A r \in Requests : result[r] \in Requests => result[r] \in Stored

\* An artifact has a run exactly when its call named one.  Unless a statement
\* failed, that is the run of this name if it was there when the call came,
\* whatever other runs show the name or come to show it meanwhile
\* (GetRunByName, run.go:133-143).
RunOfCall ==
    \A a \in Stored :
        /\ arts[a].run = None <=> input[a].run = None
        /\ faults = 0 /\ known[a] => arts[a].run = input[a].run

\* Unless a statement failed, an artifact whose call was answered with it is
\* listed as the output of its run (artifact.go:102-113).
LineageRecorded ==
    faults = 0 => \A r \in Stored :
        result[r] = r /\ arts[r].run # None => <<arts[r].run, r>> \in usages

\* What is stored of an artifact belongs together, and to its call.
ReferentialIntegrity == RowsReferToRows /\ RunOfCall /\ LineageRecorded

\* The statements implement the abstract history of versions: an artifact row
\* appears in the one step that inserts it, continues its collection, and is
\* never changed or taken away by a later statement, failure or restart.
VH == INSTANCE VersionHistory WITH
    Ids <- Requests,
    rows <- [a \in Requests |-> IF arts[a] = None THEN None
                ELSE [coll |-> arts[a].coll, version |-> arts[a].version]],
    answers <- [r \in Requests |-> IF result[r] \in Requests THEN result[r] ELSE None]

ImplementsVersionHistory == VH!Spec
=============================================================================
