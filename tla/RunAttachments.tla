--------------------------- MODULE RunAttachments ---------------------------
(***************************************************************************)
(* What is attached to a run: its files (graphql/run_files.go, Run.files)  *)
(* and the artifacts it uses (useArtifact, Run.inputArtifacts and          *)
(* Artifact.usedBy).                                                       *)
(*                                                                         *)
(* Both mutations find the run by its name or, failing that, by its        *)
(* display name, and then write row by row, without a transaction, next to *)
(* other requests and to runs that appear.                                 *)
(***************************************************************************)
EXTENDS Naturals, Sequences, FiniteSets, SequencesExt

CONSTANTS
    Requests,       \* the requests that may be received
    Inputs,         \* what they may ask for
    Runs,           \* runs of one project, in the order of their keys
    FirstRuns,      \* those that exist from the start
    NameOf,         \* run -> its name
    DisplayOf,      \* run -> its display name
    Files,          \* file names
    Arts,           \* the artifacts that exist
    Unknown,        \* an artifact id that does not
    None,
    MaxInFlight,    \* bound: requests executed at the same time
    MaxFaults       \* bound: statements that fail and deaths of the process

Named == Range(NameOf) \cup Range(DisplayOf)
Input == [op: {"files"}, run: Named, files: Seq(Files)] \cup [op: {"use"}, run: Named, art: Arts \cup {Unknown}]

ASSUME AttachmentsAssumption ==
    /\ Inputs \subseteq Input
    /\ Runs \in Seq(Range(Runs)) /\ IsInjective(Runs) /\ FirstRuns \subseteq Range(Runs)
    /\ DOMAIN NameOf = Range(Runs) /\ DOMAIN DisplayOf = Range(Runs)
    /\ IsInjective(NameOf)
    /\ Unknown \notin Arts /\ None \notin Range(Runs) \cup Inputs /\ None \notin {"ok", "error"}
    /\ {MaxInFlight, MaxFaults} \subseteq Nat

VARIABLES
    runs,       \* runs: the rows that exist
    files,      \* run_files: the run, the name, and who inserted the row
    usages,     \* artifact_usages of type "input": <<run, artifact>>
    pc,         \* per request: the statement it executes next
    input,      \* per request: its arguments
    run,        \* per request: the run it has found
    at,         \* per request: the files of its input it is done with
    result,     \* per request: "ok", "error" or None
    meant,      \* history: the runs that had the name when it arrived
    seen,       \* history: the requests that had ended when it arrived
    faults

tables  == <<runs, files, usages>>
history == <<meant, seen>>
vars    == <<tables, pc, input, run, at, result, history, faults>>

Working == {"name", "display", "find", "create", "use", "artifact"}
Steps   == Working \cup {"idle", "done"}
Ended   == {r \in Requests : pc[r] = "done"}

Succeeds == UNCHANGED faults
Fails    == faults < MaxFaults /\ faults' = faults + 1

Goto(r, step) == pc' = [pc EXCEPT ![r] = step] /\ UNCHANGED result
Reply(r, res) == pc' = [pc EXCEPT ![r] = "done"] /\ result' = [result EXCEPT ![r] = res]

Init ==
    /\ runs = FirstRuns /\ files = {} /\ usages = {}
    /\ pc = [r \in Requests |-> "idle"]
    /\ input = [r \in Requests |-> None]
    /\ run = [r \in Requests |-> None]
    /\ at = [r \in Requests |-> 0]
    /\ result = [r \in Requests |-> None]
    /\ meant = [r \in Requests |-> {}] /\ seen = [r \in Requests |-> {}]
    /\ faults = 0

\* UpsertRun inserts a run (see RunUpsert).
NewRun ==
    /\ \E n \in Range(Runs) \ runs : runs' = runs \cup {n}
    /\ UNCHANGED <<files, usages, pc, input, run, at, result, history, faults>>

(***************************************************************************)
(* The run (GetRunByName).                                                 *)
(***************************************************************************)
WithName(name)    == {n \in runs : NameOf[n] = name}
WithDisplay(name) == {n \in runs : DisplayOf[n] = name}

\* First takes the row with the smallest key.
Smallest(set) == Runs[Min({i \in DOMAIN Runs : Runs[i] \in set})]

\* The project is looked up first.
Receive(r) ==
    /\ pc[r] = "idle"
    /\ r = CHOOSE q \in Requests : pc[q] = "idle"   \* they are all alike
    /\ Cardinality({q \in Requests : pc[q] \in Working}) < MaxInFlight
    /\ \E i \in Inputs :
          /\ input' = [input EXCEPT ![r] = i]
          /\ meant' = [meant EXCEPT ![r] = WithName(i.run)]
    /\ seen' = [seen EXCEPT ![r] = Ended]
    /\ \/ Succeeds /\ Goto(r, "name")
       \/ Fails /\ Reply(r, "error")
    /\ UNCHANGED <<tables, run, at>>

Found(r, n) ==
    /\ run' = [run EXCEPT ![r] = n]
    /\ IF input[r].op = "use" THEN Goto(r, "use")
       ELSE IF input[r].files = <<>> THEN Reply(r, "ok")
       ELSE Goto(r, "find")

\* Fault seeded for RunMeant: the display name comes first.
ByDisplayFirst(r) ==
    /\ pc[r] = "name" /\ Succeeds
    /\ LET either == IF WithDisplay(input[r].run) = {} THEN WithName(input[r].run) ELSE WithDisplay(input[r].run)
       IN  either # {} /\ Found(r, Smallest(either))
    /\ UNCHANGED <<tables, input, at, history>>

\* Any error of the lookup by name leads to the one by display name.
ByName(r) ==
    /\ pc[r] = "name"
    /\ LET named == WithName(input[r].run) IN
       \/ Succeeds /\ named # {} /\ Found(r, Smallest(named))
       \/ Succeeds /\ named = {} /\ Goto(r, "display") /\ UNCHANGED run
       \/ Fails /\ Goto(r, "display") /\ UNCHANGED run
    /\ UNCHANGED <<tables, input, at, history>>

ByDisplay(r) ==
    /\ pc[r] = "display"
    /\ LET named == WithDisplay(input[r].run) IN
       \/ Succeeds /\ named # {} /\ Found(r, Smallest(named))
       \/ Succeeds /\ named = {} /\ Reply(r, "error") /\ UNCHANGED run
       \/ Fails /\ Reply(r, "error") /\ UNCHANGED run
    /\ UNCHANGED <<tables, input, at, history>>

(***************************************************************************)
(* createRunFiles.                                                         *)
(***************************************************************************)
File(r) == input[r].files[at[r] + 1]

RowsOf(n, file) == {f \in files : f.run = n /\ f.name = file}

\* The next file of the input, if there is one.
Loop(r) ==
    /\ at' = [at EXCEPT ![r] = @ + 1]
    /\ IF at[r] + 1 < Len(input[r].files) THEN Goto(r, "find") ELSE Reply(r, "ok")

\* Fault seeded for OneRecord: every file is inserted.
FindNever(r) ==
    /\ pc[r] = "find" /\ Succeeds
    /\ Goto(r, "create") /\ UNCHANGED at
    /\ UNCHANGED <<tables, input, run, history>>

\* A row that is found is updated with the path and the URL it has already,
\* and the error of that is dropped; any error of the lookup leads to an
\* insert.
Find(r) ==
    /\ pc[r] = "find"
    /\ \/ Succeeds /\ RowsOf(run[r], File(r)) # {} /\ Loop(r)
       \/ Succeeds /\ RowsOf(run[r], File(r)) = {} /\ Goto(r, "create") /\ UNCHANGED at
       \/ Fails /\ Goto(r, "create") /\ UNCHANGED at
    /\ UNCHANGED <<tables, input, run, history>>

\* The rows have no unique index.
Create(r) ==
    /\ pc[r] = "create"
    /\ \/ Succeeds /\ files' = files \cup {[run |-> run[r], name |-> File(r), by |-> <<r, at[r]>>]} /\ Loop(r)
       \/ Fails /\ Reply(r, "error") /\ UNCHANGED <<files, at>>
    /\ UNCHANGED <<runs, usages, input, run, history>>

(***************************************************************************)
(* useArtifact.                                                            *)
(***************************************************************************)
\* Fault seeded for UsesListed: the unique index is on the artifact alone.
UseOnce(r) ==
    /\ pc[r] = "use" /\ Succeeds /\ Goto(r, "artifact")
    /\ usages' = IF \E u \in usages : u[2] = input[r].art THEN usages ELSE usages \cup {<<run[r], input[r].art>>}
    /\ UNCHANGED <<runs, files, input, run, at, history>>

\* All errors of the INSERT are dropped: a row that is there already, a
\* statement that fails, and, where the database enforces foreign keys, an
\* unknown artifact.
Use(r) ==
    /\ pc[r] = "use" /\ Goto(r, "artifact")
    /\ \/ Succeeds /\ usages' = usages \cup {<<run[r], input[r].art>>}
       \/ Succeeds /\ input[r].art = Unknown /\ UNCHANGED usages
       \/ Fails /\ UNCHANGED usages
    /\ UNCHANGED <<runs, files, input, run, at, history>>

\* The artifact is looked up only now.
Artifact(r) ==
    /\ pc[r] = "artifact"
    /\ \/ Succeeds /\ Reply(r, IF input[r].art \in Arts THEN "ok" ELSE "error")
       \/ Fails /\ Reply(r, "error")
    /\ UNCHANGED <<tables, input, run, at, history>>

\* The process dies; its requests end without a result.
Crash ==
    /\ Fails /\ \E r \in Requests : pc[r] \in Working
    /\ pc' = [r \in Requests |-> IF pc[r] \in Working THEN "done" ELSE pc[r]]
    /\ UNCHANGED <<tables, input, run, at, result, history>>

Step(r) == ByName(r) \/ ByDisplay(r) \/ Find(r) \/ Create(r) \/ Use(r) \/ Artifact(r)

Next == NewRun \/ Crash \/ \E r \in Requests : Receive(r) \/ Step(r)

Spec == Init /\ [][Next]_vars

(***************************************************************************)
(* Queries.                                                                *)
(***************************************************************************)
\* Run.files(names): a page of all there is; "after" is not looked at.
RunFiles(n, names) == {f \in files : f.run = n /\ (names # {} => f.name \in names)}

\* Run.inputArtifacts: of the usages, the artifacts that exist.
InputArtifacts(n) == {a \in Arts : <<n, a>> \in usages}

\* Artifact.usedBy.
UsedBy(a) == {n \in runs : <<n, a>> \in usages}

(***************************************************************************)
(* Properties.                                                             *)
(***************************************************************************)
\* Rows, arguments and program counters have their types.
TypeOK ==
    /\ runs \subseteq Range(Runs)
    /\ files \subseteq [run: Range(Runs), name: Files, by: Requests \X Nat]
    /\ usages \subseteq Range(Runs) \X (Arts \cup {Unknown})
    /\ pc \in [Requests -> Steps] /\ input \in [Requests -> Inputs \cup {None}]
    /\ run \in [Requests -> Range(Runs) \cup {None}] /\ at \in [Requests -> Nat]
    /\ result \in [Requests -> {None, "ok", "error"}]
    /\ meant \in [Requests -> SUBSET Range(Runs)] /\ seen \in [Requests -> SUBSET Requests]
    /\ faults \in 0..MaxFaults

Overlap(r, q)  == r # q /\ r \notin seen[q] /\ q \notin seen[r]
Asks(r, file)  == input[r] # None /\ input[r].op = "files" /\ file \in Range(input[r].files)

\* Without failing statements, what is asked for a run by its name goes to
\* that run if it was there when the request arrived, whatever other run
\* shows this name or appears meanwhile.  (A lookup by name that fails goes
\* on to another run that shows the name.)
RunMeant ==
    \A r \in Requests : faults = 0 /\ run[r] # None /\ meant[r] # {} => run[r] \in meant[r]

\* The files of an answered request are listed for its run, also when some
\* lookup failed on the way.
FilesListed ==
    \A r \in Ended :
        result[r] = "ok" /\ input[r].op = "files" =>
            \A file \in Range(input[r].files) : RunFiles(run[r], {file}) # {}

\* A file has one record in its run, however often it is asked for, unless
\* two requests for it overlapped or a statement failed.
OneRecord ==
    faults = 0 =>
        \A f, g \in files :
            f # g /\ f.run = g.run /\ f.name = g.name =>
                \E r, q \in Requests : Asks(r, f.name) /\ Asks(q, f.name) /\ run[r] = f.run /\ run[q] = f.run /\ Overlap(r, q)

\* Without failing statements, an artifact a run uses is found from the run
\* and the run from the artifact; one whose use was refused is unknown.
UsesListed ==
    \A r \in Ended :
        input[r].op = "use" /\ faults = 0 /\ run[r] # None =>
            /\ result[r] = "ok" => input[r].art \in InputArtifacts(run[r]) /\ run[r] \in UsedBy(input[r].art)
            /\ result[r] = "error" => input[r].art = Unknown

\* The files of an answered request are listed for its run, each once.
FilesRecorded == TypeOK /\ FilesListed /\ OneRecord
=============================================================================
