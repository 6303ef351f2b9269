------------------------------ MODULE RunUpsert ------------------------------
(***************************************************************************)
(* The upsertBucket mutation (internal/graphql/upsert_bucket.go, with      *)
(* store.GetOrCreateProject and store.UpsertRun): how a run and its project*)
(* come to be, and how its columns are changed afterwards.                 *)
(*                                                                         *)
(* Each statement is a step: finds and inserts are not in one transaction. *)
(* A handler goes on when its client stops waiting, and the client posts   *)
(* the same request again, to another handler.  A slot is a handler.       *)
(*                                                                         *)
(* The columns are those that insert and update treat alike ("config",     *)
(* which stands also for summary_metrics, tags, display_name, group_name,  *)
(* job_type and host), state, which an insert fills in, those only an      *)
(* insert sets ("program", for git_commit, git_repo and sweep_name too) and*)
(* those only an update sets ("notes", for description too).  A column     *)
(* holds the request that wrote it.                                        *)
(***************************************************************************)
EXTENDS Naturals, FiniteSets

CONSTANTS
    Requests,       \* the upserts clients want done
    Input,          \* what each says: see Inputs
    Entities,       \* names of the rows of entities
    DefaultEntity,  \* the entity of the user
    OtherEntity,    \* a name no entity has
    Names,          \* names of runs
    Models,         \* names of projects
    Slots,          \* handlers that may run at the same time
    None,
    MaxRetries,     \* bound: requests a client stops waiting for
    MaxCrashes,     \* bound: deaths of the server process
    MaxFaults       \* bound: statements that fail

OnInsert == {"config", "state", "program"}
OnUpdate == {"config", "state", "notes"}
Columns  == OnInsert \cup OnUpdate

\* A run is named, or meant by its id alone; entity may be left out.
Inputs == [by: {"name", "id"}, entity: Entities \cup {None, OtherEntity},
           model: Models, name: Names, writes: SUBSET Columns]

Row == [id: Nat \ {0}, project: Entities \X Models, name: Names \cup Nat,
        cols: [Columns -> Requests \cup {"running", None}]]

\* Answers: the row of the run and whether it is new, or an error.
Success == [ok: {TRUE}, inserted: BOOLEAN, row: Row]
Failed  == [ok |-> FALSE]

ASSUME UpsertAssumption ==
    /\ Input \in [Requests -> Inputs]
    /\ DefaultEntity \in Entities /\ OtherEntity \notin Entities
    /\ None \notin Requests \cup Slots \cup Entities \cup {OtherEntity}
    /\ \A S \in SUBSET Requests : None # S
    /\ None \notin Success /\ None # Failed
    /\ "running" \notin Requests
    /\ Names \cap Nat = {}
    /\ {MaxRetries, MaxCrashes, MaxFaults} \subseteq Nat

VARIABLES
    projects,   \* <<entity, name>> of each row of projects
    runs,       \* the rows of runs
    pc,         \* per slot: the statement it executes next
    req,        \* per slot: the request it handles
    project,    \* per slot: the project it found
    name,       \* per slot: the name of the run
    row,        \* per slot: the row of the run it found
    target,     \* per request: the id of the run meant by an "id" request
    over,       \* per request: the requests done with before it came
    awaited,    \* per request: the handler its client waits for
    reply,      \* per request: the answer its client got
    retries, crashes, faults

locals == <<req, project, name, row>>
client == <<target, over, awaited, reply>>
bounds == <<retries, crashes, faults>>
vars   == <<projects, runs, pc, locals, client, bounds>>

\* An id names no run if it is 0; the name of a run may be an id.
Ids     == 1..Cardinality(runs)
Keyed(j, n) == {x \in runs : x.project = j /\ x.name = n}
WithId(i)   == {x \in runs : x.id = i}

Writes(p, cs) == Input[req[p]].writes \cap cs

Succeeds == UNCHANGED faults
Fails    == faults < MaxFaults /\ faults' = faults + 1

Init ==
    /\ projects = {} /\ runs = {}
    /\ pc = [p \in Slots |-> "idle"]
    /\ req = [p \in Slots |-> None]
    /\ project = [p \in Slots |-> None]
    /\ name = [p \in Slots |-> None]
    /\ row = [p \in Slots |-> None]
    /\ target = [r \in Requests |-> 0]
    /\ over = [r \in Requests |-> None]
    /\ awaited = [r \in Requests |-> None]
    /\ reply = [r \in Requests |-> None]
    /\ retries = 0 /\ crashes = 0 /\ faults = 0

(***************************************************************************)
(* The clients.                                                            *)
(***************************************************************************)
\* A request is done with when it was answered and no handler of it is left.
DoneWith == {q \in Requests : reply[q] # None /\ \A p \in Slots : req[p] # q}

Deliver(r, p) ==
    /\ pc[p] = "idle"
    /\ pc' = [pc EXCEPT ![p] = "entity"]
    /\ req' = [req EXCEPT ![p] = r]
    /\ awaited' = [awaited EXCEPT ![r] = p]

Post(r, p) ==
    /\ over[r] = None
    /\ Deliver(r, p)
    /\ over' = [over EXCEPT ![r] = DoneWith]
    /\ \E i \in IF Input[r].by = "id" THEN {0} \cup Ids ELSE {0} :
          target' = [target EXCEPT ![r] = i]
    /\ UNCHANGED <<projects, runs, project, name, row, reply, bounds>>

\* Timed out, or the connection broke.
PostAgain(r, p) ==
    /\ over[r] # None /\ awaited[r] = None /\ reply[r] = None
    /\ Deliver(r, p)
    /\ UNCHANGED <<projects, runs, project, name, row, target, over, reply, bounds>>

Timeout(r) ==
    /\ awaited[r] # None /\ retries < MaxRetries
    /\ retries' = retries + 1
    /\ awaited' = [awaited EXCEPT ![r] = None]
    /\ UNCHANGED <<projects, runs, pc, locals, target, over, reply, crashes, faults>>

(***************************************************************************)
(* The handler.                                                            *)
(***************************************************************************)
Goto(p, step) == pc' = [pc EXCEPT ![p] = step]

\* The answer of a handler nobody waits for goes nowhere.
Answer(p, a) ==
    /\ Goto(p, "idle")
    /\ req' = [req EXCEPT ![p] = None]
    /\ project' = [project EXCEPT ![p] = None]
    /\ name' = [name EXCEPT ![p] = None]
    /\ row' = [row EXCEPT ![p] = None]
    /\ IF awaited[req[p]] = p
       THEN /\ reply' = [reply EXCEPT ![req[p]] = a]
            /\ awaited' = [awaited EXCEPT ![req[p]] = None]
       ELSE UNCHANGED <<reply, awaited>>
    /\ UNCHANGED <<target, over>>

\* Without an entity in the request, that of the user.
EntityOf(p) == LET e == Input[req[p]].entity IN IF e = None THEN DefaultEntity ELSE e
ProjectOf(p) == <<EntityOf(p), Input[req[p]].model>>

FindEntity(p) ==
    /\ pc[p] = "entity"
    /\ \/ EntityOf(p) \in Entities /\ Succeeds /\ Goto(p, "project") /\ UNCHANGED <<locals, client>>
       \/ EntityOf(p) \notin Entities /\ Succeeds /\ Answer(p, Failed)
       \/ Fails /\ Answer(p, Failed)
    /\ UNCHANGED <<projects, runs, retries, crashes>>

\* With its project known, the run is looked up by name, or first by its id.
ProjectKnown(p) ==
    /\ project' = [project EXCEPT ![p] = ProjectOf(p)]
    /\ IF Input[req[p]].by = "id"
       THEN Goto(p, "byId") /\ UNCHANGED name
       ELSE Goto(p, "run") /\ name' = [name EXCEPT ![p] = Input[req[p]].name]
    /\ UNCHANGED <<req, row, client>>

FindProject(p) ==
    /\ pc[p] = "project"
    /\ \/ ProjectOf(p) \in projects /\ Succeeds /\ ProjectKnown(p)
       \/ /\ ProjectOf(p) \notin projects /\ Succeeds
          /\ Goto(p, "createProject") /\ UNCHANGED <<locals, client>>
       \/ Fails /\ Answer(p, Failed)
    /\ UNCHANGED <<projects, runs, retries, crashes>>

\* The unique index makes the INSERT of a project that is there by now fail.
CreateProject(p) ==
    /\ pc[p] = "createProject"
    /\ \/ /\ ProjectOf(p) \notin projects /\ Succeeds
          /\ projects' = projects \cup {ProjectOf(p)}
          /\ ProjectKnown(p)
       \/ /\ ProjectOf(p) \in projects /\ Succeeds
          /\ Answer(p, Failed) /\ UNCHANGED projects
       \/ Fails /\ Answer(p, Failed) /\ UNCHANGED projects
    /\ UNCHANGED <<runs, retries, crashes>>

NamedById(p, j, n) ==
    /\ project' = [project EXCEPT ![p] = j]
    /\ name' = [name EXCEPT ![p] = n]
    /\ Goto(p, "run")
    /\ UNCHANGED <<req, row, client>>

\* Fault seeded for IdMeansThatRun: the run is looked for in the project the
\* request names.
FindByIdHere(p) ==
    /\ pc[p] = "byId"
    /\ LET i == target[req[p]] IN
          \/ \E x \in WithId(i) : Succeeds /\ NamedById(p, project[p], x.name)
          \/ WithId(i) = {} /\ Succeeds /\ NamedById(p, project[p], i)
    /\ UNCHANGED <<projects, runs, retries, crashes>>

\* The run with that id and its project.  When the first of the two lookups
\* fails, for whatever reason, the id is taken for the name of a run; when the
\* second fails there is no project, and the handler panics.
FindById(p) ==
    /\ pc[p] = "byId"
    /\ LET i == target[req[p]] IN
          \/ \E x \in WithId(i) : Succeeds /\ NamedById(p, x.project, x.name)
          \/ WithId(i) = {} /\ Succeeds /\ NamedById(p, project[p], i)
          \/ Fails /\ NamedById(p, project[p], i)
          \/ WithId(i) # {} /\ Fails /\ Answer(p, Failed)
    /\ UNCHANGED <<projects, runs, retries, crashes>>

FindRun(p) ==
    /\ pc[p] = "run"
    /\ \/ /\ Succeeds
          /\ \E x \in Keyed(project[p], name[p]) : row' = [row EXCEPT ![p] = x]
          /\ Goto(p, IF Writes(p, OnUpdate) = {} THEN "reread" ELSE "update")
          /\ UNCHANGED <<req, project, name, client>>
       \/ /\ Keyed(project[p], name[p]) = {} /\ Succeeds
          /\ Goto(p, "insert") /\ UNCHANGED <<locals, client>>
       \/ Fails /\ Answer(p, Failed)
    /\ UNCHANGED <<projects, runs, retries, crashes>>

\* The id is a fresh UUID; here, the next number.
NewRun(p) ==
    [id |-> Cardinality(runs) + 1, project |-> project[p], name |-> name[p],
     cols |-> [c \in Columns |-> IF c \in Writes(p, OnInsert) THEN req[p]
                                 ELSE IF c = "state" THEN "running" ELSE None]]

\* Fault seeded for OneRunPerName: runs without their unique index.
InsertRunAnyhow(p) ==
    /\ pc[p] = "insert"
    /\ Succeeds
    /\ runs' = runs \cup {NewRun(p)}
    /\ Answer(p, [ok |-> TRUE, inserted |-> TRUE, row |-> NewRun(p)])
    /\ UNCHANGED <<projects, retries, crashes>>

\* Fault seeded for InsertedOnce: a run that is there by now is no error.
InsertRunOrNothing(p) ==
    /\ pc[p] = "insert"
    /\ Succeeds
    /\ LET there == Keyed(project[p], name[p]) IN
          \/ /\ there = {}
             /\ runs' = runs \cup {NewRun(p)}
             /\ Answer(p, [ok |-> TRUE, inserted |-> TRUE, row |-> NewRun(p)])
          \/ /\ UNCHANGED runs
             /\ \E x \in there : Answer(p, [ok |-> TRUE, inserted |-> TRUE, row |-> x])
    /\ UNCHANGED <<projects, retries, crashes>>

\* The unique index on project_id and name makes the later of two INSERTs fail.
InsertRun(p) ==
    /\ pc[p] = "insert"
    /\ \/ /\ Keyed(project[p], name[p]) = {} /\ Succeeds
          /\ runs' = runs \cup {NewRun(p)}
          /\ Answer(p, [ok |-> TRUE, inserted |-> TRUE, row |-> NewRun(p)])
       \/ /\ Keyed(project[p], name[p]) # {} /\ Succeeds
          /\ Answer(p, Failed) /\ UNCHANGED runs
       \/ Fails /\ Answer(p, Failed) /\ UNCHANGED runs
    /\ UNCHANGED <<projects, retries, crashes>>

With(x, p) == [x EXCEPT !.cols =
                  [c \in Columns |-> IF c \in Writes(p, OnUpdate) THEN req[p] ELSE @[c]]]

\* Fault seeded for AnsweredFieldsHold: the row is saved as it was read.
UpdateRunWhole(p) ==
    /\ pc[p] = "update"
    /\ Succeeds
    /\ runs' = {IF x.id = row[p].id THEN With(row[p], p) ELSE x : x \in runs}
    /\ row' = [row EXCEPT ![p] = With(@, p)]
    /\ Goto(p, "reread")
    /\ UNCHANGED <<projects, req, project, name, client, retries, crashes>>

\* Only the columns in the request are set.
UpdateRun(p) ==
    /\ pc[p] = "update"
    /\ \/ /\ Succeeds
          /\ runs' = {IF x.id = row[p].id THEN With(x, p) ELSE x : x \in runs}
          /\ row' = [row EXCEPT ![p] = With(@, p)]
          /\ Goto(p, "reread")
          /\ UNCHANGED <<req, project, name, client>>
       \/ Fails /\ Answer(p, Failed) /\ UNCHANGED runs
    /\ UNCHANGED <<projects, retries, crashes>>

\* Fault seeded for TypeOK: the second read is into an empty row, which is the
\* answer when it fails.
ReadAgainEmpty(p) ==
    /\ pc[p] = "reread"
    /\ \/ /\ Succeeds
          /\ \E x \in WithId(row[p].id) : Answer(p, [ok |-> TRUE, inserted |-> FALSE, row |-> x])
       \/ Fails /\ Answer(p, [ok |-> TRUE, inserted |-> FALSE, row |-> [row[p] EXCEPT !.id = 0]])
    /\ UNCHANGED <<projects, runs, retries, crashes>>

\* The error of the second read is dropped.
ReadAgain(p) ==
    /\ pc[p] = "reread"
    /\ \/ /\ Succeeds
          /\ \E x \in WithId(row[p].id) : Answer(p, [ok |-> TRUE, inserted |-> FALSE, row |-> x])
       \/ Fails /\ Answer(p, [ok |-> TRUE, inserted |-> FALSE, row |-> row[p]])
    /\ UNCHANGED <<projects, runs, retries, crashes>>

Crash ==
    /\ crashes < MaxCrashes
    /\ crashes' = crashes + 1
    /\ pc' = [p \in Slots |-> "idle"]
    /\ req' = [p \in Slots |-> None]
    /\ project' = [p \in Slots |-> None]
    /\ name' = [p \in Slots |-> None]
    /\ row' = [p \in Slots |-> None]
    /\ awaited' = [r \in Requests |-> None]
    /\ UNCHANGED <<projects, runs, target, over, reply, retries, faults>>

Handler(p) == \/ FindEntity(p) \/ FindProject(p) \/ CreateProject(p) \/ FindById(p)
              \/ FindRun(p) \/ InsertRun(p) \/ UpdateRun(p) \/ ReadAgain(p)

Next == \/ \E r \in Requests, p \in Slots : Post(r, p) \/ PostAgain(r, p)
        \/ \E r \in Requests : Timeout(r)
        \/ \E p \in Slots : Handler(p)
        \/ Crash

Spec == Init /\ [][Next]_vars

(***************************************************************************)
(* Properties.                                                             *)
(***************************************************************************)
\* Every value has its type.
TypeOK ==
    /\ projects \subseteq Entities \X Models
    /\ runs \subseteq Row
    /\ pc \in [Slots -> {"idle", "entity", "project", "createProject", "byId",
                         "run", "insert", "update", "reread"}]
    /\ req \in [Slots -> Requests \cup {None}]
    /\ project \in [Slots -> (Entities \X Models) \cup {None}]
    /\ name \in [Slots -> Names \cup Nat \cup {None}]
    /\ row \in [Slots -> Row \cup {None}]
    /\ target \in [Requests -> Nat]
    /\ over \in [Requests -> (SUBSET Requests) \cup {None}]
    /\ awaited \in [Requests -> Slots \cup {None}]
    /\ reply \in [Requests -> Success \cup {Failed, None}]
    /\ retries \in 0..MaxRetries /\ crashes \in 0..MaxCrashes /\ faults \in 0..MaxFaults

Answers == {r \in Requests : reply[r] \notin {None, Failed}}

\* However requests for a new run overlap, are repeated or die halfway, its
\* project has one row of that name.
OneRunPerName ==
    \A x, y \in runs : (x.project = y.project /\ x.name = y.name) => x = y

\* Of the clients of one run at most one is told that it was created, which is
\* how wandb.init tells a new run from a resumed one.
InsertedOnce ==
    \A r, q \in Answers :
        (reply[r].row.id = reply[q].row.id /\ reply[r].inserted /\ reply[q].inserted) => r = q

\* What an answered request set is in its answer and stays in the row, until a
\* request writes it that was not done with when this one came: no write is
\* lost to one that did not name the column.
AnsweredFieldsHold ==
    \A r \in Answers : \A c \in Input[r].writes \cap OnInsert \cap OnUpdate :
        \A x \in {reply[r].row} \cup WithId(reply[r].row.id) :
            x.cols[c] \in Requests \ over[r]

\* An update that gives the id of a run is an update of that run, whichever
\* project it names or leaves out.
IdMeansThatRun ==
    faults = 0 =>
        \A r \in Answers : target[r] # 0 => /\ reply[r].row.id = target[r]
                                            /\ ~reply[r].inserted
=============================================================================
