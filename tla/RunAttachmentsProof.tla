------------------------- MODULE RunAttachmentsProof -------------------------
(***************************************************************************)
(* Proofs about RunAttachments, for every set of requests, inputs, runs,   *)
(* files and artifacts, and any number of failing statements and deaths of *)
(* the server.                                                             *)
(***************************************************************************)
EXTENDS RunAttachments, FiniteSetTheorems, WellFoundedInduction, TLAPS

(***************************************************************************)
(* The row First takes.                                                    *)
(***************************************************************************)
\* A finite set of numbers has a least element: of its subsets without one
\* the smallest would be a set from which any element can be taken away.
LEMMA LeastNumber ==
    ASSUME NEW S, IsFiniteSet(S), S \subseteq Nat, S # {}
    PROVE  Min(S) \in S
  <1> DEFINE Least(X) == \E n \in X : \A m \in X : n <= m
             Bad      == {X \in SUBSET S : X # {} /\ ~Least(X)}
  <1>1. Bad = {}
    <2> SUFFICES ASSUME Bad # {} PROVE FALSE
      OBVIOUS
    <2>1. IsWellFoundedOn(StrictSubsetOrdering(S), SUBSET S)
      BY FS_StrictSubsetOrderingWellFounded, FS_FiniteSubsetsOfFinite
    <2>2. Bad \subseteq SUBSET S
      OBVIOUS
    <2> HIDE DEF Bad
    <2>3. PICK X \in Bad : \A Y \in Bad : <<Y, X>> \notin StrictSubsetOrdering(S)
      BY <2>1, <2>2, WFMin
    <2> USE DEF Bad
    <2>4. X \subseteq S /\ X # {} /\ ~Least(X)
      OBVIOUS
    <2>5. PICK x \in X : TRUE
      BY <2>4
    <2>6. x \in Nat
      BY <2>4
    <2>7. CASE X = {x}
      BY <2>4, <2>6, <2>7
    <2>8. CASE X # {x}
      <3>1. X \ {x} # {} /\ X \ {x} \subseteq S /\ X \ {x} # X
        BY <2>4, <2>8
      <3>2. <<X \ {x}, X>> \in StrictSubsetOrdering(S)
        BY <2>4, <3>1 DEF StrictSubsetOrdering
      <3>3. Least(X \ {x})
        BY <2>3, <3>1, <3>2
      <3>4. PICK n \in X \ {x} : \A m \in X \ {x} : n <= m
        BY <3>3
      <3>5. n \in Nat /\ \A m \in X : m \in Nat
        BY <2>4, <3>4
      <3>6. CASE n <= x
        BY <2>4, <3>4, <3>6
      <3>7. CASE ~(n <= x)
        <4>1. x <= n /\ x <= x
          BY <2>6, <3>5, <3>7
        <4>2. \A m \in X \ {x} : x <= m
          BY <2>6, <3>4, <3>5, <4>1
        <4> QED BY <2>4, <2>5, <4>1, <4>2
      <3> QED BY <3>6, <3>7
    <2> QED BY <2>7, <2>8
  <1>2. Least(S)
    BY <1>1
  <1> QED BY <1>2 DEF Min

LEMMA SmallestFound ==
    ASSUME NEW set \in SUBSET Range(Runs), set # {}
    PROVE  Smallest(set) \in set
  <1> DEFINE I == {i \in DOMAIN Runs : Runs[i] \in set}
  <1>1. PICK s \in Seq(Range(Runs)) : s = Runs
    BY AttachmentsAssumption DEF AttachmentsAssumption
  <1>2. DOMAIN Runs = 1..Len(s) /\ Len(s) \in Nat
    BY <1>1
  <1>3. IsFiniteSet(1..Len(s)) /\ I \subseteq 1..Len(s)
    BY <1>2, FS_Interval
  <1>4. IsFiniteSet(I) /\ I \subseteq Nat
    BY <1>3, FS_Subset
  <1>5. I # {}
    BY DEF Range
  <1>6. Min(I) \in I
    BY <1>4, <1>5, LeastNumber
  <1> QED BY <1>6 DEF Smallest

(***************************************************************************)
(* The invariants.                                                         *)
(***************************************************************************)
\* What the program counter of a request says of its locals.
Knows(r) ==
    /\ pc[r] \in {"idle", "name", "display"} => run[r] = None /\ at[r] = 0
    /\ pc[r] # "idle" => input[r] \in Inputs
    /\ pc[r] \in {"find", "create"} => input[r].op = "files" /\ run[r] # None /\ at[r] < Len(input[r].files)
    /\ pc[r] \in {"use", "artifact"} => input[r].op = "use" /\ run[r] # None
    /\ run[r] # None => run[r] \in runs
    /\ result[r] # None => pc[r] = "done"
    /\ seen[r] \subseteq Ended

Control == \A r \in Requests : Knows(r)

TypeInv == TypeOK /\ Control

\* The run that had the name has it still, and is the one that is found.
Meets(r) ==
    pc[r] # "idle" /\ meant[r] # {} =>
        /\ meant[r] \subseteq WithName(input[r].run)
        /\ pc[r] # "display"
        /\ run[r] # None => run[r] \in meant[r]

MeantInv == faults = 0 => \A r \in Requests : Meets(r)

\* The files a request is done with are listed.
HasRow(n, file) == \E f \in files : f.run = n /\ f.name = file

Lists(r) ==
    /\ pc[r] \in {"find", "create"} => \A i \in 1..at[r] : HasRow(run[r], input[r].files[i])
    /\ pc[r] = "done" /\ result[r] = "ok" /\ input[r].op = "files" =>
          \A file \in Range(input[r].files) : HasRow(run[r], file)

FilesInv == \A r \in Requests : Lists(r)

\* A row is the work of a request that asked for it.
ByInv ==
    \A f \in files : \E r \in Requests :
        /\ f.by[1] = r /\ pc[r] # "idle" /\ run[r] = f.run
        /\ input[r] \in Inputs /\ input[r].op = "files" /\ f.name \in Range(input[r].files)

\* Rows of one file are of requests that overlapped; so are, when a request
\* inserts a row, the requests whose rows of the file are there already.
OneInv ==
    faults = 0 =>
        /\ \A f, g \in files : f # g /\ f.run = g.run /\ f.name = g.name => Overlap(f.by[1], g.by[1])
        /\ \A r \in Requests : pc[r] = "create" => \A f \in RowsOf(run[r], File(r)) : Overlap(f.by[1], r)

\* A usage is there before its artifact is looked up.
UseInv ==
    faults = 0 =>
        \A r \in Requests :
            /\ pc[r] = "artifact" => input[r].art = Unknown \/ <<run[r], input[r].art>> \in usages
            /\ pc[r] = "done" /\ input[r].op = "use" /\ run[r] # None =>
                  /\ result[r] = "ok" => input[r].art \in Arts /\ <<run[r], input[r].art>> \in usages
                  /\ result[r] = "error" => input[r].art = Unknown

IInv == TypeInv /\ MeantInv /\ FilesInv /\ ByInv /\ OneInv /\ UseInv

(***************************************************************************)
(* What each action does to the request that takes it.                     *)
(***************************************************************************)
LEMMA InputFacts ==
    ASSUME TypeInv, NEW r \in Requests, pc[r] # "idle"
    PROVE  /\ input[r] \in Inputs
           /\ \/ input[r].op = "files" /\ input[r].files \in Seq(Files) /\ Len(input[r].files) \in Nat
              \/ input[r].op = "use" /\ input[r].art \in Arts \cup {Unknown}
  <1>1. input[r] \in Inputs
    BY DEF TypeInv, Control, Knows
  <1>2. input[r] \in Input
    BY <1>1, AttachmentsAssumption DEF AttachmentsAssumption
  <1> QED BY <1>1, <1>2 DEF Input

\* Of the requests only r moves.
Turn(r, step, res) ==
    /\ pc'[r] = step /\ result'[r] = res
    /\ \A q \in Requests \ {r} : pc'[q] = pc[q] /\ result'[q] = result[q]
    /\ pc' \in [Requests -> Steps] /\ result' \in [Requests -> {None, "ok", "error"}]

LEMMA TurnFacts ==
    ASSUME TypeInv, NEW r \in Requests
    PROVE  /\ \A step \in Steps : Goto(r, step) => Turn(r, step, result[r])
           /\ \A res \in {"ok", "error"} : Reply(r, res) => Turn(r, "done", res)
  <1>1. pc \in [Requests -> Steps] /\ result \in [Requests -> {None, "ok", "error"}]
    BY DEF TypeInv, TypeOK
  <1>2. ASSUME NEW step \in Steps, Goto(r, step) PROVE Turn(r, step, result[r])
    BY <1>1, <1>2 DEF Goto, Turn
  <1>3. ASSUME NEW res \in {"ok", "error"}, Reply(r, res) PROVE Turn(r, "done", res)
    BY <1>1, <1>3 DEF Reply, Turn, Steps
  <1> QED BY <1>2, <1>3

LEMMA FaultsFacts ==
    ASSUME faults \in 0..MaxFaults, Succeeds \/ Fails
    PROVE  faults' \in 0..MaxFaults /\ (faults' = 0 => faults = 0 /\ ~Fails)
  <1>1. MaxFaults \in Nat
    BY AttachmentsAssumption DEF AttachmentsAssumption
  <1> QED BY <1>1 DEF Succeeds, Fails

\* What the steps leave alone.
Frame(r) ==
    /\ runs' = runs /\ input' = input /\ meant' = meant /\ seen' = seen
    /\ faults' \in 0..MaxFaults /\ (faults' = 0 => faults = 0 /\ ~Fails)
    /\ \A q \in Requests \ {r} : run'[q] = run[q] /\ at'[q] = at[q]

LEMMA FrameFacts ==
    ASSUME TypeInv, NEW r \in Requests, Step(r)
    PROVE  Frame(r)
  <1>1. at \in [Requests -> Nat] /\ run \in [Requests -> Range(Runs) \cup {None}] /\ faults \in 0..MaxFaults
    BY DEF TypeInv, TypeOK
  <1>2. runs' = runs /\ input' = input /\ meant' = meant /\ seen' = seen
    BY DEF Step, ByName, ByDisplay, Find, Create, Use, Artifact, tables, history
  <1>3. Succeeds \/ Fails
    BY DEF Step, ByName, ByDisplay, Find, Create, Use, Artifact
  <1>4. at' = at \/ at' = [at EXCEPT ![r] = @ + 1]
    BY DEF Step, ByName, ByDisplay, Find, Create, Use, Artifact, Loop
  <1>5. run' = run \/ \E n : run' = [run EXCEPT ![r] = n]
    BY DEF Step, ByName, ByDisplay, Find, Create, Use, Artifact, Found
  <1>6. \A q \in Requests \ {r} : at'[q] = at[q]
    BY <1>1, <1>4
  <1>7. \A q \in Requests \ {r} : run'[q] = run[q]
    BY <1>1, <1>5
  <1> QED BY <1>1, <1>2, <1>3, <1>6, <1>7, FaultsFacts DEF Frame

\* The request has found its run and goes on with what it was sent for.
Finds(r, n) ==
    /\ run' = [run EXCEPT ![r] = n]
    /\ \/ input[r].op = "use" /\ Turn(r, "use", None)
       \/ input[r].op = "files" /\ input[r].files = <<>> /\ Turn(r, "done", "ok")
       \/ input[r].op = "files" /\ input[r].files # <<>> /\ Turn(r, "find", None)

LEMMA FoundFacts ==
    ASSUME TypeInv, NEW r \in Requests, pc[r] \in {"name", "display"}, NEW n, Found(r, n)
    PROVE  Finds(r, n)
  <1>1. result[r] = None /\ {"use", "find"} \subseteq Steps /\ pc[r] # "idle"
    BY DEF TypeInv, Control, Knows, Steps, Working
  <1>2. input[r].op \in {"files", "use"}
    BY <1>1, InputFacts
  <1> QED BY <1>1, <1>2, TurnFacts DEF Found, Finds

LEMMA ByNameFacts ==
    ASSUME TypeInv, NEW r \in Requests, ByName(r)
    PROVE  /\ pc[r] = "name" /\ files' = files /\ usages' = usages /\ at' = at
           /\ \/ WithName(input[r].run) # {} /\ Finds(r, Smallest(WithName(input[r].run)))
              \/ WithName(input[r].run) = {} /\ Turn(r, "display", None) /\ run' = run
              \/ Fails /\ Turn(r, "display", None) /\ run' = run
  <1>1. result[r] = None /\ "display" \in Steps
    BY DEF ByName, TypeInv, Control, Knows, Steps, Working
  <1> QED BY <1>1, FoundFacts, TurnFacts DEF ByName, tables

LEMMA ByDisplayFacts ==
    ASSUME TypeInv, NEW r \in Requests, ByDisplay(r)
    PROVE  /\ pc[r] = "display" /\ files' = files /\ usages' = usages /\ at' = at
           /\ \/ WithDisplay(input[r].run) # {} /\ Finds(r, Smallest(WithDisplay(input[r].run)))
              \/ Turn(r, "done", "error") /\ run' = run
  BY FoundFacts, TurnFacts DEF ByDisplay, tables

\* After a file: the next one, or the answer.
Looped(r) ==
    /\ at' = [at EXCEPT ![r] = @ + 1]
    /\ \/ at[r] + 1 < Len(input[r].files) /\ Turn(r, "find", None)
       \/ ~(at[r] + 1 < Len(input[r].files)) /\ Turn(r, "done", "ok")

LEMMA LoopFacts ==
    ASSUME TypeInv, NEW r \in Requests, pc[r] # "done", Loop(r)
    PROVE  Looped(r)
  <1>1. result[r] = None /\ "find" \in Steps
    BY DEF TypeInv, Control, Knows, Steps, Working
  <1> QED BY <1>1, TurnFacts DEF Loop, Looped

LEMMA FindFacts ==
    ASSUME TypeInv, NEW r \in Requests, Find(r)
    PROVE  /\ pc[r] = "find" /\ files' = files /\ usages' = usages /\ run' = run
           /\ \/ RowsOf(run[r], File(r)) # {} /\ Looped(r)
              \/ RowsOf(run[r], File(r)) = {} /\ Turn(r, "create", None) /\ at' = at
              \/ Fails /\ Turn(r, "create", None) /\ at' = at
  <1>1. result[r] = None /\ "create" \in Steps
    BY DEF Find, TypeInv, Control, Knows, Steps, Working
  <1> QED BY <1>1, LoopFacts, TurnFacts DEF Find, tables

LEMMA CreateFacts ==
    ASSUME TypeInv, NEW r \in Requests, Create(r)
    PROVE  /\ pc[r] = "create" /\ usages' = usages /\ run' = run
           /\ \/ files' = files \cup {[run |-> run[r], name |-> File(r), by |-> <<r, at[r]>>]} /\ Looped(r)
              \/ files' = files /\ at' = at /\ Turn(r, "done", "error")
  BY LoopFacts, TurnFacts DEF Create

LEMMA UseFacts ==
    ASSUME TypeInv, NEW r \in Requests, Use(r)
    PROVE  /\ pc[r] = "use" /\ files' = files /\ run' = run /\ at' = at /\ Turn(r, "artifact", None)
           /\ \/ usages' = usages \cup {<<run[r], input[r].art>>}
              \/ (input[r].art = Unknown \/ Fails) /\ usages' = usages
  <1>1. result[r] = None /\ "artifact" \in Steps
    BY DEF Use, TypeInv, Control, Knows, Steps, Working
  <1> QED BY <1>1, TurnFacts DEF Use

LEMMA ArtifactFacts ==
    ASSUME TypeInv, NEW r \in Requests, Artifact(r)
    PROVE  /\ pc[r] = "artifact" /\ files' = files /\ usages' = usages /\ run' = run /\ at' = at
           /\ \/ input[r].art \in Arts /\ Turn(r, "done", "ok")
              \/ (input[r].art \notin Arts \/ Fails) /\ Turn(r, "done", "error")
  BY TurnFacts DEF Artifact, tables

LEMMA ReceiveFacts ==
    ASSUME TypeInv, NEW r \in Requests, Receive(r)
    PROVE  /\ pc[r] = "idle" /\ runs' = runs /\ files' = files /\ usages' = usages /\ run' = run /\ at' = at
           /\ input'[r] \in Inputs /\ input' \in [Requests -> Inputs \cup {None}]
           /\ meant'[r] = WithName(input'[r].run) /\ meant' \in [Requests -> SUBSET Range(Runs)]
           /\ seen'[r] = Ended /\ seen' \in [Requests -> SUBSET Requests]
           /\ \A q \in Requests \ {r} : input'[q] = input[q] /\ meant'[q] = meant[q] /\ seen'[q] = seen[q]
           /\ faults' \in 0..MaxFaults /\ (faults' = 0 => faults = 0 /\ ~Fails)
           /\ Turn(r, "name", None) \/ (Fails /\ Turn(r, "done", "error"))
  <1>1. /\ input \in [Requests -> Inputs \cup {None}] /\ seen \in [Requests -> SUBSET Requests]
        /\ meant \in [Requests -> SUBSET Range(Runs)] /\ pc[r] = "idle" /\ runs \subseteq Range(Runs)
        /\ faults \in 0..MaxFaults
    BY DEF TypeInv, TypeOK, Receive
  <1>2. result[r] = None /\ "name" \in Steps
    BY <1>1 DEF TypeInv, Control, Knows, Steps, Working
  <1>3. PICK i \in Inputs : input' = [input EXCEPT ![r] = i] /\ meant' = [meant EXCEPT ![r] = WithName(i.run)]
    BY DEF Receive
  <1>4. /\ runs' = runs /\ files' = files /\ usages' = usages /\ run' = run /\ at' = at
        /\ seen' = [seen EXCEPT ![r] = Ended]
        /\ (Succeeds /\ Goto(r, "name")) \/ (Fails /\ Reply(r, "error"))
    BY DEF Receive, tables
  <1>5. /\ input'[r] = i /\ input' \in [Requests -> Inputs \cup {None}]
        /\ \A q \in Requests \ {r} : input'[q] = input[q]
    BY <1>1, <1>3
  <1>6. Ended \subseteq Requests /\ WithName(i.run) \subseteq Range(Runs)
    BY <1>1 DEF Ended, WithName
  <1>7. /\ meant'[r] = WithName(i.run) /\ meant' \in [Requests -> SUBSET Range(Runs)]
        /\ \A q \in Requests \ {r} : meant'[q] = meant[q]
    BY <1>1, <1>3, <1>6
  <1>8. /\ seen'[r] = Ended /\ seen' \in [Requests -> SUBSET Requests]
        /\ \A q \in Requests \ {r} : seen'[q] = seen[q]
    BY <1>1, <1>4, <1>6
  <1>9. faults' \in 0..MaxFaults /\ (faults' = 0 => faults = 0 /\ ~Fails)
    BY <1>1, <1>4, FaultsFacts
  <1>10. Turn(r, "name", None) \/ (Fails /\ Turn(r, "done", "error"))
    BY <1>2, <1>4, TurnFacts
  <1> QED BY <1>1, <1>4, <1>5, <1>7, <1>8, <1>9, <1>10

LEMMA CrashFacts ==
    ASSUME TypeInv, Crash
    PROVE  /\ runs' = runs /\ files' = files /\ usages' = usages /\ input' = input /\ run' = run /\ at' = at
           /\ result' = result /\ meant' = meant /\ seen' = seen
           /\ faults' \in 0..MaxFaults /\ faults' # 0
           /\ pc' \in [Requests -> Steps]
           /\ \A q \in Requests : pc'[q] = (IF pc[q] \in Working THEN "done" ELSE pc[q])
  <1>1. pc \in [Requests -> Steps] /\ "done" \in Steps /\ faults \in 0..MaxFaults
    BY DEF TypeInv, TypeOK, Steps
  <1>2. pc' = [r \in Requests |-> IF pc[r] \in Working THEN "done" ELSE pc[r]]
    BY DEF Crash
  <1>3. faults' \in 0..MaxFaults /\ faults' # 0
    BY <1>1, FaultsFacts DEF Crash
  <1> QED BY <1>1, <1>2, <1>3 DEF Crash, tables, history

(***************************************************************************)
(* Types and control.                                                      *)
(***************************************************************************)
\* The file a request works on is one of those it asks for.
LEMMA FileTyped ==
    ASSUME TypeInv, NEW r \in Requests, pc[r] \in {"find", "create"}
    PROVE  /\ File(r) \in Files /\ File(r) \in Range(input[r].files)
           /\ at[r] \in Nat /\ at[r] < Len(input[r].files) /\ input[r].files \in Seq(Files)
  <1>1. input[r].op = "files" /\ at[r] < Len(input[r].files) /\ pc[r] # "idle"
    BY DEF TypeInv, Control, Knows
  <1>2. PICK s \in Seq(Files) : s = input[r].files
    BY <1>1, InputFacts
  <1>3. PICK n \in Nat : n = at[r]
    BY DEF TypeInv, TypeOK
  <1>4. n < Len(s)
    BY <1>1, <1>2, <1>3
  <1>5. Len(s) \in Nat /\ DOMAIN s = 1..Len(s)
    BY <1>2
  <1>6. n + 1 \in DOMAIN s
    BY <1>4, <1>5
  <1>7. s[n + 1] \in Files /\ s[n + 1] \in {s[i] : i \in DOMAIN s}
    BY <1>5, <1>6
  <1>8. File(r) = s[n + 1] /\ Range(input[r].files) = {s[i] : i \in DOMAIN s}
    BY <1>2, <1>3 DEF File, Range
  <1> QED BY <1>1, <1>2, <1>3, <1>7, <1>8

\* The run a lookup finds exists.
LEMMA FoundExists ==
    ASSUME TypeInv, NEW name
    PROVE  /\ WithName(name) # {} => Smallest(WithName(name)) \in WithName(name)
           /\ WithDisplay(name) # {} => Smallest(WithDisplay(name)) \in WithDisplay(name)
           /\ WithName(name) \subseteq runs /\ WithDisplay(name) \subseteq runs
  <1>1. runs \subseteq Range(Runs)
    BY DEF TypeInv, TypeOK
  <1>2. WithName(name) \subseteq runs /\ WithDisplay(name) \subseteq runs
    BY DEF WithName, WithDisplay
  <1> QED BY <1>1, <1>2, SmallestFound

LEMMA RunNotNone == ASSUME TypeInv PROVE None \notin runs
  BY AttachmentsAssumption DEF AttachmentsAssumption, TypeInv, TypeOK

\* Where a step takes r.
LEMMA StepTurns ==
    ASSUME TypeInv, NEW r \in Requests, Step(r)
    PROVE  /\ pc[r] \in Working
           /\ pc' \in [Requests -> Steps] /\ result' \in [Requests -> {None, "ok", "error"}]
           /\ \A q \in Requests \ {r} : pc'[q] = pc[q] /\ result'[q] = result[q]
           /\ pc'[r] \notin {"idle", "name"} /\ (result'[r] # None => pc'[r] = "done")
  <1>1. CASE ByName(r)
    BY <1>1, ByNameFacts DEF Turn, Finds, Working
  <1>2. CASE ByDisplay(r)
    BY <1>2, ByDisplayFacts DEF Turn, Finds, Working
  <1>3. CASE Find(r)
    BY <1>3, FindFacts DEF Turn, Looped, Working
  <1>4. CASE Create(r)
    BY <1>4, CreateFacts DEF Turn, Looped, Working
  <1>5. CASE Use(r)
    BY <1>5, UseFacts DEF Turn, Working
  <1>6. CASE Artifact(r)
    BY <1>6, ArtifactFacts DEF Turn, Working
  <1> QED BY <1>1, <1>2, <1>3, <1>4, <1>5, <1>6 DEF Step

\* A run is found by the lookups and kept.
LEMMA RunStep ==
    ASSUME TypeInv, NEW r \in Requests, Step(r)
    PROVE  /\ run' \in [Requests -> Range(Runs) \cup {None}]
           /\ \/ run' = run /\ at' = at /\ pc'[r] \in {"display", "done"}
              \/ run' = run /\ pc[r] \in {"find", "create", "use", "artifact"}
              \/ run'[r] \in runs /\ at' = at /\ pc[r] \in {"name", "display"}
  <1>1. run \in [Requests -> Range(Runs) \cup {None}] /\ runs \subseteq Range(Runs)
    BY DEF TypeInv, TypeOK
  <1>2. ASSUME NEW n \in runs, Finds(r, n) PROVE run' \in [Requests -> Range(Runs) \cup {None}] /\ run'[r] \in runs
    BY <1>1, <1>2 DEF Finds
  <1>3. CASE ByName(r)
    BY <1>1, <1>2, <1>3, ByNameFacts, FoundExists DEF Turn
  <1>4. CASE ByDisplay(r)
    BY <1>1, <1>2, <1>4, ByDisplayFacts, FoundExists DEF Turn
  <1>5. CASE Find(r) \/ Create(r) \/ Use(r) \/ Artifact(r)
    BY <1>1, <1>5, FindFacts, CreateFacts, UseFacts, ArtifactFacts
  <1> QED BY <1>3, <1>4, <1>5 DEF Step

LEMMA StepKnows ==
    ASSUME TypeInv, NEW r \in Requests, Step(r)
    PROVE  Knows(r)'
  <1>1. pc[r] \in Working /\ Frame(r) /\ pc[r] # "idle"
    BY StepTurns, FrameFacts DEF Working
  <1>2. input[r] \in Inputs /\ input' = input /\ seen' = seen /\ runs' = runs
    BY <1>1 DEF Frame, TypeInv, Control, Knows
  <1>3. pc'[r] \notin {"idle", "name"} /\ (result'[r] # None => pc'[r] = "done")
    BY StepTurns
  <1>4. seen[r] \subseteq Ended'
    <2>1. seen[r] \subseteq Ended
      BY DEF TypeInv, Control, Knows
    <2>2. \A q \in Ended : q # r /\ pc'[q] = "done"
      BY <1>1, StepTurns DEF Ended, Working
    <2> QED BY <2>1, <2>2 DEF Ended
  <1>5. run'[r] # None => run'[r] \in runs
    BY RunStep DEF TypeInv, Control, Knows
  <1> DEFINE Rest == /\ pc'[r] = "display" => run'[r] = None /\ at'[r] = 0
                     /\ pc'[r] \in {"find", "create"} =>
                           input[r].op = "files" /\ run'[r] # None /\ at'[r] < Len(input[r].files)
                     /\ pc'[r] \in {"use", "artifact"} => input[r].op = "use" /\ run'[r] # None
  <1>6. ASSUME NEW n \in runs, pc[r] \in {"name", "display"}, at' = at, Finds(r, n) PROVE Rest
    <2>1. run'[r] = n /\ n # None
      BY <1>6, RunNotNone DEF Finds, TypeInv, TypeOK
    <2>2. input[r].op = "files" /\ input[r].files # <<>> => 0 < Len(input[r].files)
      <3> SUFFICES ASSUME input[r].op = "files", input[r].files # <<>> PROVE 0 < Len(input[r].files)
        OBVIOUS
      <3>1. PICK s \in Seq(Files) : s = input[r].files
        BY <1>1, InputFacts
      <3>2. s # <<>> /\ Len(s) \in Nat
        BY <3>1
      <3> QED BY <3>1, <3>2
    <2>3. at'[r] = 0
      BY <1>6 DEF TypeInv, Control, Knows
    <2> QED BY <1>6, <2>1, <2>2, <2>3 DEF Finds, Turn
  <1>7. Rest
    <2>1. CASE ByName(r)
      <3>1. CASE WithName(input[r].run) # {} /\ Finds(r, Smallest(WithName(input[r].run)))
        BY <1>6, <2>1, <3>1, ByNameFacts, FoundExists
      <3>2. CASE Turn(r, "display", None) /\ run' = run
        BY <2>1, <3>2, ByNameFacts DEF Turn, TypeInv, Control, Knows
      <3> QED BY <2>1, <3>1, <3>2, ByNameFacts
    <2>2. CASE ByDisplay(r)
      <3>1. CASE WithDisplay(input[r].run) # {} /\ Finds(r, Smallest(WithDisplay(input[r].run)))
        BY <1>6, <2>2, <3>1, ByDisplayFacts, FoundExists
      <3>2. CASE Turn(r, "done", "error")
        BY <3>2 DEF Turn
      <3> QED BY <2>2, <3>1, <3>2, ByDisplayFacts
    <2>3. ASSUME pc[r] \in {"find", "create"}, Looped(r), run' = run PROVE Rest
      <3>1. at'[r] = at[r] + 1
        BY <2>3 DEF Looped, TypeInv, TypeOK
      <3>2. (at'[r] < Len(input[r].files) /\ pc'[r] = "find") \/ pc'[r] = "done"
        BY <2>3, <3>1 DEF Looped, Turn
      <3> QED BY <2>3, <3>2 DEF TypeInv, Control, Knows
    <2>4. CASE Find(r)
      <3>1. CASE Turn(r, "create", None) /\ at' = at
        BY <2>4, <3>1, FindFacts DEF Turn, TypeInv, Control, Knows
      <3> QED BY <2>3, <2>4, <3>1, FindFacts
    <2>5. CASE Create(r)
      <3>1. CASE Turn(r, "done", "error")
        BY <3>1 DEF Turn
      <3> QED BY <2>3, <2>5, <3>1, CreateFacts
    <2>6. CASE Use(r)
      BY <2>6, UseFacts DEF Turn, TypeInv, Control, Knows
    <2>7. CASE Artifact(r)
      BY <2>7, ArtifactFacts DEF Turn
    <2> QED BY <2>1, <2>2, <2>4, <2>5, <2>6, <2>7 DEF Step
  <1> QED BY <1>2, <1>3, <1>4, <1>5, <1>7 DEF Knows

\* What the steps do to the tables keeps their types.
LEMMA TablesTyped ==
    ASSUME TypeInv, NEW r \in Requests, Step(r)
    PROVE  /\ files' \subseteq [run: Range(Runs), name: Files, by: Requests \X Nat]
           /\ usages' \subseteq Range(Runs) \X (Arts \cup {Unknown}) /\ at' \in [Requests -> Nat]
  <1>1. /\ files \subseteq [run: Range(Runs), name: Files, by: Requests \X Nat] /\ runs \subseteq Range(Runs)
        /\ usages \subseteq Range(Runs) \X (Arts \cup {Unknown}) /\ at \in [Requests -> Nat]
    BY DEF TypeInv, TypeOK
  <1>2. Looped(r) => at' \in [Requests -> Nat]
    BY <1>1 DEF Looped
  <1>3. pc[r] # "idle"
    BY StepTurns DEF Working
  <1>4. CASE ByName(r)
    BY <1>1, <1>4, ByNameFacts
  <1>5. CASE ByDisplay(r)
    BY <1>1, <1>5, ByDisplayFacts
  <1>6. CASE Find(r)
    BY <1>1, <1>2, <1>6, FindFacts
  <1>7. CASE Create(r)
    <2>1. pc[r] = "create" /\ run[r] \in Range(Runs)
      BY <1>1, <1>7, CreateFacts DEF TypeInv, Control, Knows
    <2>2. File(r) \in Files /\ at[r] \in Nat
      BY <2>1, FileTyped
    <2>3. [run |-> run[r], name |-> File(r), by |-> <<r, at[r]>>] \in [run: Range(Runs), name: Files, by: Requests \X Nat]
      BY <2>1, <2>2
    <2> QED BY <1>1, <1>2, <1>7, <2>3, CreateFacts
  <1>8. CASE Use(r)
    <2>1. run[r] \in Range(Runs) /\ input[r].op = "use"
      BY <1>1, <1>8, UseFacts DEF TypeInv, Control, Knows
    <2>2. input[r].art \in Arts \cup {Unknown}
      BY <1>3, <2>1, InputFacts
    <2>3. <<run[r], input[r].art>> \in Range(Runs) \X (Arts \cup {Unknown})
      BY <2>1, <2>2
    <2> QED BY <1>1, <1>8, <2>3, UseFacts
  <1>9. CASE Artifact(r)
    BY <1>1, <1>9, ArtifactFacts
  <1> QED BY <1>4, <1>5, <1>6, <1>7, <1>8, <1>9 DEF Step

LEMMA TypeStep == ASSUME TypeInv, NEW r \in Requests, Step(r) PROVE TypeInv'
  <1>1. Frame(r)
    BY FrameFacts
  <1>2. TypeOK'
    BY <1>1, TablesTyped, StepTurns, RunStep DEF TypeInv, TypeOK, Frame
  <1>3. ASSUME NEW q \in Requests, q # r PROVE Knows(q)'
    <2>1. /\ pc'[q] = pc[q] /\ input'[q] = input[q] /\ run'[q] = run[q] /\ at'[q] = at[q] /\ runs' = runs
          /\ result'[q] = result[q] /\ seen'[q] = seen[q]
      BY <1>1, <1>3, StepTurns DEF Frame
    <2>2. Knows(q)
      BY DEF TypeInv, Control
    <2>3. Ended \subseteq Ended'
      BY StepTurns DEF Ended, Working
    <2> QED BY <2>1, <2>2, <2>3 DEF Knows
  <1> QED BY <1>2, <1>3, StepKnows DEF TypeInv, Control

LEMMA TypeReceive == ASSUME TypeInv, NEW r \in Requests, Receive(r) PROVE TypeInv'
  <1>1. /\ pc[r] = "idle" /\ runs' = runs /\ files' = files /\ usages' = usages /\ run' = run /\ at' = at
        /\ input'[r] \in Inputs /\ input' \in [Requests -> Inputs \cup {None}]
        /\ meant' \in [Requests -> SUBSET Range(Runs)]
        /\ seen'[r] = Ended /\ seen' \in [Requests -> SUBSET Requests]
        /\ \A q \in Requests \ {r} : input'[q] = input[q] /\ seen'[q] = seen[q]
        /\ faults' \in 0..MaxFaults
    BY ReceiveFacts
  <1>2. /\ pc' \in [Requests -> Steps] /\ result' \in [Requests -> {None, "ok", "error"}]
        /\ \A q \in Requests \ {r} : pc'[q] = pc[q] /\ result'[q] = result[q]
        /\ pc'[r] \in {"name", "done"} /\ (result'[r] # None => pc'[r] = "done")
    BY ReceiveFacts DEF Turn
  <1>3. TypeOK'
    BY <1>1, <1>2 DEF TypeInv, TypeOK
  <1>4. Ended \subseteq Ended'
    BY <1>1, <1>2 DEF Ended
  <1>5. ASSUME NEW q \in Requests PROVE Knows(q)'
    <2>1. Knows(q)
      BY DEF TypeInv, Control
    <2>2. CASE q = r
      BY <1>1, <1>2, <1>4, <2>1, <2>2 DEF Knows
    <2>3. CASE q # r
      BY <1>1, <1>2, <1>4, <2>1, <2>3 DEF Knows
    <2> QED BY <2>2, <2>3
  <1> QED BY <1>3, <1>5 DEF TypeInv, Control

LEMMA TypeCrash == ASSUME TypeInv, Crash PROVE TypeInv'
  <1>1. TypeOK'
    BY CrashFacts DEF TypeInv, TypeOK
  <1>2. ASSUME NEW q \in Requests PROVE Knows(q)'
    <2>1. Knows(q)
      BY DEF TypeInv, Control
    <2>2. Ended \subseteq Ended'
      BY CrashFacts DEF Ended, Working
    <2>3. pc'[q] = pc[q] \/ (pc'[q] = "done" /\ pc[q] # "idle")
      BY CrashFacts DEF Working
    <2> QED BY <2>1, <2>2, <2>3, CrashFacts DEF Knows
  <1> QED BY <1>1, <1>2 DEF TypeInv, Control

\* A new run changes nothing but the table of runs.
LEMMA NewRunFacts ==
    ASSUME NewRun
    PROVE  /\ runs \subseteq runs' /\ runs' \subseteq runs \cup Range(Runs)
           /\ files' = files /\ usages' = usages /\ pc' = pc /\ input' = input /\ run' = run /\ at' = at
           /\ result' = result /\ meant' = meant /\ seen' = seen /\ faults' = faults
  BY DEF NewRun, history

LEMMA TypeNewRun == ASSUME TypeInv, NewRun PROVE TypeInv'
  <1>1. TypeOK'
    BY NewRunFacts DEF TypeInv, TypeOK
  <1>2. Ended' = Ended
    BY NewRunFacts DEF Ended
  <1>3. Control'
    BY <1>2, NewRunFacts DEF TypeInv, Control, Knows
  <1> QED BY <1>1, <1>3 DEF TypeInv

(***************************************************************************)
(* The run that is meant.                                                  *)
(***************************************************************************)
\* Names of runs are unique.
LEMMA OneName == ASSUME TypeInv, NEW name, NEW n \in WithName(name), NEW m \in WithName(name) PROVE n = m
  <1>1. n \in DOMAIN NameOf /\ m \in DOMAIN NameOf /\ NameOf[n] = NameOf[m]
    BY AttachmentsAssumption DEF AttachmentsAssumption, TypeInv, TypeOK, WithName
  <1> QED BY <1>1, AttachmentsAssumption DEF AttachmentsAssumption, IsInjective

LEMMA MeantStep == ASSUME TypeInv, MeantInv, NEW r \in Requests, Step(r) PROVE MeantInv'
  <1> SUFFICES ASSUME faults' = 0, NEW q \in Requests, pc'[q] # "idle", meant'[q] # {}
               PROVE  Meets(q)'
    BY DEF MeantInv, Meets
  <1>1. /\ runs' = runs /\ input' = input /\ meant' = meant /\ faults = 0 /\ ~Fails
        /\ \A x \in Requests \ {r} : run'[x] = run[x] /\ pc'[x] = pc[x]
        /\ pc[r] \in Working
    BY FrameFacts, StepTurns DEF Frame
  <1>2. pc[q] # "idle"
    BY <1>1 DEF Working
  <1>3. /\ meant[q] \subseteq WithName(input[q].run) /\ pc[q] # "display"
        /\ run[q] # None => run[q] \in meant[q]
    BY <1>1, <1>2 DEF MeantInv, Meets
  <1>4. ASSUME pc'[q] # "display", run'[q] # None => run'[q] \in meant[q] PROVE Meets(q)'
    BY <1>1, <1>3, <1>4 DEF Meets, WithName
  <1>5. CASE q # r
    BY <1>1, <1>3, <1>4, <1>5
  <1>6. CASE q = r
    <2>1. CASE ByName(r)
      <3>1. Finds(r, Smallest(WithName(input[r].run)))
        BY <1>1, <1>3, <1>6, <2>1, ByNameFacts
      <3>2. PICK n : n = Smallest(WithName(input[r].run))
        OBVIOUS
      <3>3. n \in WithName(input[r].run)
        BY <1>1, <1>3, <1>6, <3>2, FoundExists
      <3>4. n \in meant[r]
        BY <1>1, <1>3, <1>6, <3>3, OneName
      <3>5. run'[r] = n /\ pc'[r] # "display"
        BY <3>1, <3>2 DEF Finds, Turn, TypeInv, TypeOK
      <3> QED BY <1>1, <1>4, <1>6, <3>4, <3>5
    <2>2. CASE ByDisplay(r)
      BY <1>3, <1>6, <2>2, ByDisplayFacts
    <2>3. CASE Find(r) \/ Create(r) \/ Use(r) \/ Artifact(r)
      <3>1. run' = run /\ pc'[r] # "display"
        BY <2>3, FindFacts, CreateFacts, UseFacts, ArtifactFacts DEF Turn, Looped
      <3> QED BY <1>1, <1>3, <1>4, <1>6, <3>1
    <2> QED BY <2>1, <2>2, <2>3 DEF Step
  <1> QED BY <1>5, <1>6

LEMMA MeantReceive == ASSUME TypeInv, MeantInv, NEW r \in Requests, Receive(r) PROVE MeantInv'
  <1> SUFFICES ASSUME faults' = 0, NEW q \in Requests, pc'[q] # "idle", meant'[q] # {}
               PROVE  Meets(q)'
    BY DEF MeantInv, Meets
  <1>1. /\ pc[r] = "idle" /\ runs' = runs /\ run' = run /\ faults = 0 /\ ~Fails
        /\ meant'[r] = WithName(input'[r].run)
        /\ \A x \in Requests \ {r} : input'[x] = input[x] /\ meant'[x] = meant[x] /\ pc'[x] = pc[x]
    BY ReceiveFacts DEF Turn
  <1>2. CASE q = r
    <2>1. pc'[r] = "name" /\ run[r] = None
      BY <1>1, ReceiveFacts DEF Turn, TypeInv, Control, Knows
    <2> QED BY <1>1, <1>2, <2>1 DEF Meets, WithName
  <1>3. CASE q # r
    BY <1>1, <1>3 DEF MeantInv, Meets, WithName
  <1> QED BY <1>2, <1>3

LEMMA MeantNewRun == ASSUME TypeInv, MeantInv, NewRun PROVE MeantInv'
  <1>1. \A name : WithName(name) \subseteq WithName(name)'
    BY NewRunFacts DEF WithName
  <1>2. ASSUME NEW r \in Requests, Meets(r) PROVE Meets(r)'
    BY <1>1, <1>2, NewRunFacts DEF Meets, WithName
  <1> QED BY <1>2, NewRunFacts DEF MeantInv

(***************************************************************************)
(* The files that are listed.                                              *)
(***************************************************************************)
LEMMA FilesStep == ASSUME TypeInv, FilesInv, NEW r \in Requests, Step(r) PROVE FilesInv'
  <1>1. /\ input' = input /\ \A x \in Requests \ {r} : run'[x] = run[x] /\ at'[x] = at[x] /\ pc'[x] = pc[x] /\ result'[x] = result[x]
        /\ pc[r] # "idle" /\ at \in [Requests -> Nat] /\ run \in [Requests -> Range(Runs) \cup {None}]
    BY FrameFacts, StepTurns DEF Frame, Working, TypeInv, TypeOK
  <1>2. files \subseteq files'
    BY ByNameFacts, ByDisplayFacts, FindFacts, CreateFacts, UseFacts, ArtifactFacts DEF Step
  <1>3. \A n, file : HasRow(n, file) => HasRow(n, file)'
    BY <1>2 DEF HasRow
  <1>4. ASSUME NEW q \in Requests, q # r PROVE Lists(q)'
    <2>1. Lists(q)
      BY DEF FilesInv
    <2> QED BY <1>1, <1>2, <1>4, <2>1 DEF Lists, HasRow
  <1>5. "ok" # "error" /\ None # "ok"
    BY AttachmentsAssumption DEF AttachmentsAssumption
  <1>6. ASSUME NEW n, Finds(r, n), at' = at, pc[r] \in {"name", "display"} PROVE Lists(r)'
    <2>1. at'[r] = 0 /\ 1..0 = {}
      BY <1>6 DEF TypeInv, Control, Knows
    <2>2. CASE input[r].op = "files" /\ input[r].files = <<>> /\ Turn(r, "done", "ok")
      <3>1. Range(input'[r].files) = {}
        BY <1>1, <2>2 DEF Range
      <3> QED BY <2>2, <3>1 DEF Turn, Lists
    <2>3. CASE Turn(r, "find", None)
      BY <2>1, <2>3 DEF Turn, Lists
    <2>4. CASE input[r].op # "files"
      BY <1>1, <1>6, <2>1, <2>4 DEF Finds, Turn, Lists
    <2> QED BY <1>6, <2>2, <2>3, <2>4 DEF Finds
  <1>7. ASSUME pc[r] \in {"find", "create"}, Looped(r), run' = run,
               \E f \in files' : f.run = run[r] /\ f.name = File(r)
        PROVE  Lists(r)'
    <2>1. PICK s \in Seq(Files) : s = input[r].files
      BY <1>7, FileTyped
    <2>2. PICK n \in Nat : n = at[r]
      BY <1>1
    <2>3. n < Len(s)
      BY <1>7, <2>1, <2>2, FileTyped
    <2>4. at'[r] = n + 1
      BY <1>1, <1>7, <2>2 DEF Looped
    <2>5. PICK m : m = run[r]
      OBVIOUS
    <2>6. \A i \in 1..(n + 1) : HasRow(m, s[i])'
      <3>1. \A i \in 1..(n + 1) : i \in 1..n \/ i = n + 1
        OBVIOUS
      <3>2. HasRow(m, s[n + 1])'
        BY <1>7, <2>1, <2>2, <2>5 DEF File, HasRow
      <3>3. \A i \in 1..n : HasRow(m, s[i])
        BY <1>7, <2>1, <2>2, <2>5 DEF FilesInv, Lists
      <3> QED BY <1>3, <3>1, <3>2, <3>3
    <2>7. ~(n + 1 < Len(s)) => \A file \in Range(s) : HasRow(m, file)'
      <3>1. PICK k \in Nat : k = Len(s) /\ DOMAIN s = 1..k
        BY <2>1
      <3>2. ~(n + 1 < k) => k = n + 1
        BY <2>3, <3>1
      <3> QED BY <2>6, <3>1, <3>2 DEF Range
    <2>8. pc'[r] = "find" \/ (pc'[r] = "done" /\ ~(n + 1 < Len(s)))
      BY <1>7, <2>1, <2>2 DEF Looped, Turn
    <2>9. run'[r] = m /\ input'[r].files = s
      BY <1>1, <1>7, <2>1, <2>5
    <2> QED BY <2>4, <2>6, <2>7, <2>8, <2>9 DEF Lists
  <1>8. Lists(r)'
    <2>1. CASE ByName(r)
      <3>1. CASE Finds(r, Smallest(WithName(input[r].run)))
        BY <1>6, <2>1, <3>1, ByNameFacts
      <3>2. CASE Turn(r, "display", None)
        BY <3>2 DEF Turn, Lists
      <3> QED BY <2>1, <3>1, <3>2, ByNameFacts
    <2>2. CASE ByDisplay(r)
      <3>1. CASE Finds(r, Smallest(WithDisplay(input[r].run)))
        BY <1>6, <2>2, <3>1, ByDisplayFacts
      <3>2. CASE Turn(r, "done", "error")
        BY <1>5, <3>2 DEF Turn, Lists
      <3> QED BY <2>2, <3>1, <3>2, ByDisplayFacts
    <2>3. CASE Find(r)
      <3>1. pc[r] = "find" /\ run' = run /\ files' = files
        BY <2>3, FindFacts
      <3>2. CASE RowsOf(run[r], File(r)) # {} /\ Looped(r)
        BY <1>7, <3>1, <3>2 DEF RowsOf
      <3>3. CASE Turn(r, "create", None) /\ at' = at
        <4>1. \A i \in 1..at[r] : HasRow(run[r], input[r].files[i])
          BY <3>1 DEF FilesInv, Lists
        <4> QED BY <1>1, <3>1, <3>3, <4>1 DEF Turn, Lists, HasRow
      <3> QED BY <2>3, <3>2, <3>3, FindFacts
    <2>4. CASE Create(r)
      <3>1. CASE files' = files \cup {[run |-> run[r], name |-> File(r), by |-> <<r, at[r]>>]} /\ Looped(r)
        <4>1. \E f \in files' : f.run = run[r] /\ f.name = File(r)
          <5>1. PICK row : row = [run |-> run[r], name |-> File(r), by |-> <<r, at[r]>>]
            OBVIOUS
          <5>2. row \in files' /\ row.run = run[r] /\ row.name = File(r)
            BY <3>1, <5>1
          <5> QED BY <5>2
        <4> QED BY <1>7, <2>4, <3>1, <4>1, CreateFacts
      <3>2. CASE Turn(r, "done", "error")
        BY <1>5, <3>2 DEF Turn, Lists
      <3> QED BY <2>4, <3>1, <3>2, CreateFacts
    <2>5. CASE Use(r)
      BY <2>5, UseFacts DEF Turn, Lists
    <2>6. CASE Artifact(r)
      BY <1>1, <2>6, ArtifactFacts DEF Turn, TypeInv, Control, Knows, Lists
    <2> QED BY <2>1, <2>2, <2>3, <2>4, <2>5, <2>6 DEF Step
  <1> QED BY <1>4, <1>8 DEF FilesInv

LEMMA FilesReceive == ASSUME TypeInv, FilesInv, NEW r \in Requests, Receive(r) PROVE FilesInv'
  <1>1. /\ files' = files /\ run' = run /\ at' = at
        /\ \A q \in Requests \ {r} : input'[q] = input[q] /\ pc'[q] = pc[q] /\ result'[q] = result[q]
        /\ pc'[r] = "name" \/ result'[r] = "error"
        /\ pc'[r] \in {"name", "done"}
    BY ReceiveFacts DEF Turn
  <1>2. "ok" # "error"
    OBVIOUS
  <1>3. ASSUME NEW q \in Requests PROVE Lists(q)'
    <2>1. CASE q = r
      BY <1>1, <1>2, <2>1 DEF Lists
    <2>2. CASE q # r
      BY <1>1, <2>2 DEF FilesInv, Lists, HasRow
    <2> QED BY <2>1, <2>2
  <1> QED BY <1>3 DEF FilesInv

LEMMA FilesCrash == ASSUME TypeInv, FilesInv, Crash PROVE FilesInv'
  <1>1. ASSUME NEW q \in Requests PROVE Lists(q)'
    <2>1. pc'[q] \notin {"find", "create"}
      BY CrashFacts DEF Working
    <2>2. result'[q] = "ok" => pc[q] = "done"
      BY CrashFacts, AttachmentsAssumption DEF AttachmentsAssumption, TypeInv, Control, Knows
    <2>3. Lists(q)
      BY DEF FilesInv
    <2> QED BY <2>1, <2>2, <2>3, CrashFacts DEF Lists, HasRow
  <1> QED BY <1>1 DEF FilesInv

LEMMA FilesNewRun == ASSUME TypeInv, FilesInv, NewRun PROVE FilesInv'
  BY NewRunFacts DEF FilesInv, Lists, HasRow

(***************************************************************************)
(* One record per file.                                                    *)
(***************************************************************************)
LEMMA ByStep == ASSUME TypeInv, ByInv, NEW r \in Requests, Step(r) PROVE ByInv'
  <1> DEFINE Of(f, q) == /\ f.by[1] = q /\ pc'[q] # "idle" /\ run'[q] = f.run
                         /\ input'[q] \in Inputs /\ input'[q].op = "files" /\ f.name \in Range(input'[q].files)
  <1>1. /\ input' = input /\ pc[r] # "idle" /\ pc'[r] # "idle" /\ files \subseteq [run: Range(Runs), name: Files, by: Requests \X Nat]
        /\ \A q \in Requests \ {r} : run'[q] = run[q] /\ pc'[q] = pc[q]
    BY FrameFacts, StepTurns DEF Frame, Working, TypeInv, TypeOK
  <1>2. run[r] # None => run'[r] = run[r]
    BY RunStep DEF TypeInv, Control, Knows
  <1>3. ASSUME NEW f \in files PROVE \E q \in Requests : Of(f, q)
    <2>1. PICK q \in Requests : /\ f.by[1] = q /\ pc[q] # "idle" /\ run[q] = f.run
                                /\ input[q] \in Inputs /\ input[q].op = "files" /\ f.name \in Range(input[q].files)
      BY DEF ByInv
    <2>2. run[q] # None
      BY <1>1, <2>1, AttachmentsAssumption DEF AttachmentsAssumption
    <2> QED BY <1>1, <1>2, <2>1, <2>2
  <1>4. ASSUME NEW f \in files', f \notin files PROVE \E q \in Requests : Of(f, q)
    <2>1. Create(r)
      BY <1>4 DEF Step, ByName, ByDisplay, Find, Use, Artifact, tables
    <2>2. f = [run |-> run[r], name |-> File(r), by |-> <<r, at[r]>>] /\ pc[r] = "create" /\ run' = run
      BY <1>4, <2>1, CreateFacts
    <2>3. f.run = run[r] /\ f.name = File(r) /\ f.by[1] = r
      BY <2>2
    <2>4. File(r) \in Range(input[r].files) /\ input[r].op = "files" /\ input[r] \in Inputs
      BY <1>1, <2>2, FileTyped, InputFacts DEF TypeInv, Control, Knows
    <2> QED BY <1>1, <2>2, <2>3, <2>4
  <1> QED BY <1>3, <1>4 DEF ByInv

LEMMA ByReceive == ASSUME TypeInv, ByInv, NEW r \in Requests, Receive(r) PROVE ByInv'
  <1>1. /\ files' = files /\ run' = run /\ pc[r] = "idle"
        /\ \A q \in Requests \ {r} : input'[q] = input[q] /\ pc'[q] = pc[q]
    BY ReceiveFacts DEF Turn
  <1> QED BY <1>1 DEF ByInv

LEMMA ByCrash == ASSUME TypeInv, ByInv, Crash PROVE ByInv'
  <1>1. \A q \in Requests : pc[q] # "idle" => pc'[q] # "idle"
    BY CrashFacts
  <1> QED BY <1>1, CrashFacts DEF ByInv

LEMMA ByNewRun == ASSUME TypeInv, ByInv, NewRun PROVE ByInv'
  BY NewRunFacts DEF ByInv

LEMMA WorkingOverlap ==
    ASSUME TypeInv, NEW r \in Requests, NEW q \in Requests, r # q, pc[r] \in Working, pc[q] \in Working
    PROVE  Overlap(r, q)
  BY DEF Overlap, TypeInv, Control, Knows, Ended, Working

LEMMA OneStep == ASSUME TypeInv, ByInv, OneInv, NEW r \in Requests, Step(r) PROVE OneInv'
  <1> SUFFICES ASSUME faults' = 0
               PROVE  /\ \A f, g \in files' : f # g /\ f.run = g.run /\ f.name = g.name => Overlap(f.by[1], g.by[1])'
                      /\ \A q \in Requests : pc'[q] = "create" => \A f \in RowsOf(run[q], File(q))' : Overlap(f.by[1], q)'
    BY DEF OneInv
  <1>1. /\ input' = input /\ seen' = seen /\ faults = 0 /\ ~Fails /\ pc[r] \in Working
        /\ \A q \in Requests \ {r} : run'[q] = run[q] /\ pc'[q] = pc[q] /\ at'[q] = at[q]
    BY FrameFacts, StepTurns DEF Frame
  <1>2. \A x, y : Overlap(x, y)' <=> Overlap(x, y)
    BY <1>1 DEF Overlap
  <1>3. ASSUME files' # files
        PROVE  /\ pc[r] = "create" /\ run' = run
               /\ \E new : /\ files' = files \cup {new}
                           /\ new.run = run[r] /\ new.name = File(r) /\ new.by[1] = r
    <2>1. Create(r)
      BY <1>3 DEF Step, ByName, ByDisplay, Find, Use, Artifact, tables
    <2>2. PICK new : new = [run |-> run[r], name |-> File(r), by |-> <<r, at[r]>>]
      OBVIOUS
    <2>3. new.run = run[r] /\ new.name = File(r) /\ new.by[1] = r
      BY <2>2
    <2>4. files' = files \cup {new}
      BY <1>3, <2>1, <2>2, CreateFacts
    <2>5. pc[r] = "create" /\ run' = run
      BY <2>1, CreateFacts
    <2> QED BY <2>3, <2>4, <2>5
  <1>4. ASSUME NEW f \in files', NEW g \in files', f # g, f.run = g.run, f.name = g.name
        PROVE  Overlap(f.by[1], g.by[1])
    <2>1. CASE f \in files /\ g \in files
      BY <1>1, <1>4, <2>1 DEF OneInv
    <2>2. CASE ~(f \in files /\ g \in files)
      <3>1. files' # files
        BY <2>2
      <3>2. PICK new : /\ files' = files \cup {new}
                       /\ new.run = run[r] /\ new.name = File(r) /\ new.by[1] = r
        BY <1>3, <3>1
      <3>3. PICK old \in files : {f, g} = {old, new}
        BY <1>4, <2>2, <3>2
      <3>4. old.run = run[r] /\ old.name = File(r)
        BY <1>4, <3>2, <3>3
      <3>5. Overlap(old.by[1], r)
        BY <1>1, <1>3, <3>1, <3>4 DEF OneInv, RowsOf
      <3> QED BY <3>2, <3>3, <3>5 DEF Overlap
    <2> QED BY <2>1, <2>2
  <1>5. ASSUME NEW q \in Requests, pc'[q] = "create", NEW f \in files', f.run = run'[q], f.name = File(q)'
        PROVE  Overlap(f.by[1], q)
    <2>1. CASE q = r
      <3>1. Find(r)
        <4>1. ~(ByName(r) \/ ByDisplay(r) \/ Create(r) \/ Use(r) \/ Artifact(r))
          BY <1>5, <2>1, ByNameFacts, ByDisplayFacts, CreateFacts, UseFacts, ArtifactFacts DEF Turn, Finds, Looped
        <4> QED BY <4>1 DEF Step
      <3>2. RowsOf(run[r], File(r)) = {} /\ files' = files /\ run' = run /\ at' = at
        BY <1>1, <1>5, <2>1, <3>1, FindFacts DEF Turn, Looped
      <3>3. File(q)' = File(r)
        BY <1>1, <2>1, <3>2 DEF File
      <3> QED BY <1>5, <2>1, <3>2, <3>3 DEF RowsOf
    <2>2. CASE q # r
      <3>1. pc[q] = "create" /\ run'[q] = run[q] /\ File(q)' = File(q)
        BY <1>1, <1>5, <2>2 DEF File
      <3>2. CASE f \in files
        BY <1>1, <1>5, <3>1, <3>2 DEF OneInv, RowsOf
      <3>3. CASE f \notin files
        <4>1. f.by[1] = r
          BY <1>3, <3>3
        <4> QED BY <1>1, <2>2, <3>1, <4>1, WorkingOverlap DEF Working
      <3> QED BY <3>2, <3>3
    <2> QED BY <2>1, <2>2
  <1> QED BY <1>2, <1>4, <1>5 DEF RowsOf

LEMMA OneReceive == ASSUME TypeInv, ByInv, OneInv, NEW r \in Requests, Receive(r) PROVE OneInv'
  <1> SUFFICES ASSUME faults' = 0
               PROVE  /\ \A f, g \in files' : f # g /\ f.run = g.run /\ f.name = g.name => Overlap(f.by[1], g.by[1])'
                      /\ \A q \in Requests : pc'[q] = "create" => \A f \in RowsOf(run[q], File(q))' : Overlap(f.by[1], q)'
    BY DEF OneInv
  <1>1. /\ files' = files /\ run' = run /\ at' = at /\ faults = 0 /\ pc[r] = "idle" /\ pc'[r] # "create"
        /\ \A q \in Requests \ {r} : input'[q] = input[q] /\ pc'[q] = pc[q] /\ seen'[q] = seen[q]
    BY ReceiveFacts DEF Turn
  <1>2. \A f \in files : f.by[1] \in Requests \ {r}
    BY <1>1 DEF ByInv
  <1>3. \A x, y \in Requests \ {r} : Overlap(x, y) => Overlap(x, y)'
    BY <1>1 DEF Overlap
  <1>4. \A q \in Requests : pc'[q] = "create" => q # r /\ pc[q] = "create" /\ RowsOf(run[q], File(q))' = RowsOf(run[q], File(q))
    BY <1>1 DEF RowsOf, File
  <1>5. \A q \in Requests : RowsOf(run[q], File(q)) \subseteq files
    BY DEF RowsOf
  <1>6. \A f, g \in files' : f # g /\ f.run = g.run /\ f.name = g.name => Overlap(f.by[1], g.by[1])'
    BY <1>1, <1>2, <1>3 DEF OneInv
  <1>7. \A q \in Requests : pc'[q] = "create" => \A f \in RowsOf(run[q], File(q))' : Overlap(f.by[1], q)'
    BY <1>1, <1>2, <1>3, <1>4, <1>5 DEF OneInv
  <1> QED BY <1>6, <1>7

LEMMA OneNewRun == ASSUME OneInv, NewRun PROVE OneInv'
  BY NewRunFacts DEF OneInv, Overlap, RowsOf, File

(***************************************************************************)
(* Usages.                                                                 *)
(***************************************************************************)
LEMMA UseStep == ASSUME TypeInv, UseInv, NEW r \in Requests, Step(r) PROVE UseInv'
  <1> SUFFICES ASSUME faults' = 0, NEW q \in Requests
               PROVE  /\ pc'[q] = "artifact" => input'[q].art = Unknown \/ <<run'[q], input'[q].art>> \in usages'
                      /\ pc'[q] = "done" /\ input'[q].op = "use" /\ run'[q] # None =>
                            /\ result'[q] = "ok" => input'[q].art \in Arts /\ <<run'[q], input'[q].art>> \in usages'
                            /\ result'[q] = "error" => input'[q].art = Unknown
    BY DEF UseInv
  <1>1. /\ input' = input /\ faults = 0 /\ ~Fails /\ pc[r] # "idle"
        /\ \A x \in Requests \ {r} : run'[x] = run[x] /\ pc'[x] = pc[x] /\ result'[x] = result[x]
    BY FrameFacts, StepTurns DEF Frame, Working
  <1>2. usages \subseteq usages'
    BY ByNameFacts, ByDisplayFacts, FindFacts, CreateFacts, UseFacts, ArtifactFacts DEF Step
  <1>3. Unknown \notin Arts /\ "ok" # "error"
    BY AttachmentsAssumption DEF AttachmentsAssumption
  <1>4. CASE q # r
    BY <1>1, <1>2, <1>4 DEF UseInv
  <1>5. CASE q = r
    <2>1. CASE ByName(r)
      BY <1>1, <1>5, <2>1, ByNameFacts DEF Turn, Finds
    <2>2. CASE ByDisplay(r)
      <3>1. run[r] = None
        BY <2>2, ByDisplayFacts DEF TypeInv, Control, Knows
      <3> QED BY <1>1, <1>5, <2>2, <3>1, ByDisplayFacts DEF Turn, Finds
    <2>3. CASE Find(r) \/ Create(r)
      <3>1. input[r].op = "files" /\ pc'[r] # "artifact"
        BY <2>3, FindFacts, CreateFacts DEF Turn, Looped, TypeInv, Control, Knows
      <3> QED BY <1>1, <1>5, <3>1
    <2>4. CASE Use(r)
      BY <1>1, <1>5, <2>4, UseFacts DEF Turn
    <2>5. CASE Artifact(r)
      <3>1. input[r].op = "use"
        BY <2>5, ArtifactFacts DEF TypeInv, Control, Knows
      <3>2. input[r].art \in Arts \cup {Unknown}
        BY <1>1, <3>1, InputFacts
      <3>3. input[r].art = Unknown \/ <<run[r], input[r].art>> \in usages
        BY <1>1, <2>5, ArtifactFacts DEF UseInv
      <3> QED BY <1>1, <1>3, <1>5, <2>5, <3>2, <3>3, ArtifactFacts DEF Turn
    <2> QED BY <2>1, <2>2, <2>3, <2>4, <2>5 DEF Step
  <1> QED BY <1>4, <1>5

LEMMA UseReceive == ASSUME TypeInv, UseInv, NEW r \in Requests, Receive(r) PROVE UseInv'
  <1>1. /\ usages' = usages /\ run' = run
        /\ \A q \in Requests \ {r} : input'[q] = input[q] /\ pc'[q] = pc[q] /\ result'[q] = result[q]
        /\ faults' = 0 => faults = 0 /\ pc'[r] = "name"
    BY ReceiveFacts DEF Turn
  <1> QED BY <1>1 DEF UseInv

LEMMA UseNewRun == ASSUME UseInv, NewRun PROVE UseInv'
  BY NewRunFacts DEF UseInv

(***************************************************************************)
(* The theorems.                                                           *)
(***************************************************************************)
LEMMA IInit == Init => IInv
  <1> SUFFICES ASSUME Init PROVE IInv
    OBVIOUS
  <1>1. \A r \in Requests : pc[r] = "idle" /\ result[r] = None /\ run[r] = None /\ at[r] = 0 /\ seen[r] = {}
    BY DEF Init
  <1>2. 0 \in 0..MaxFaults
    BY AttachmentsAssumption DEF AttachmentsAssumption
  <1>3. TypeOK
    BY <1>2, AttachmentsAssumption DEF AttachmentsAssumption, Init, TypeOK, Steps
  <1>4. Control
    BY <1>1 DEF Control, Knows
  <1>5. MeantInv /\ FilesInv /\ UseInv
    BY <1>1 DEF MeantInv, Meets, FilesInv, Lists, UseInv
  <1>6. ByInv /\ OneInv
    BY <1>1 DEF Init, ByInv, OneInv
  <1> QED BY <1>3, <1>4, <1>5, <1>6 DEF IInv, TypeInv

LEMMA INext == IInv /\ [Next]_vars => IInv'
  <1> SUFFICES ASSUME IInv, [Next]_vars PROVE IInv'
    OBVIOUS
  <1>1. TypeInv /\ MeantInv /\ FilesInv /\ ByInv /\ OneInv /\ UseInv
    BY DEF IInv
  <1>2. CASE Crash
    <2>1. MeantInv' /\ OneInv' /\ UseInv'
      BY <1>1, <1>2, CrashFacts DEF MeantInv, OneInv, UseInv
    <2> QED BY <1>1, <1>2, <2>1, TypeCrash, FilesCrash, ByCrash DEF IInv
  <1>3. CASE NewRun
    BY <1>1, <1>3, TypeNewRun, MeantNewRun, FilesNewRun, ByNewRun, OneNewRun, UseNewRun DEF IInv
  <1>4. ASSUME NEW r \in Requests, Receive(r) PROVE IInv'
    BY <1>1, <1>4, TypeReceive, MeantReceive, FilesReceive, ByReceive, OneReceive, UseReceive DEF IInv
  <1>5. ASSUME NEW r \in Requests, Step(r) PROVE IInv'
    BY <1>1, <1>5, TypeStep, MeantStep, FilesStep, ByStep, OneStep, UseStep DEF IInv
  <1>6. CASE UNCHANGED vars
    <2>1. /\ runs' = runs /\ files' = files /\ usages' = usages /\ pc' = pc /\ input' = input /\ run' = run
          /\ at' = at /\ result' = result /\ meant' = meant /\ seen' = seen /\ faults' = faults
      BY <1>6 DEF vars, tables, history
    <2>2. Ended' = Ended
      BY <2>1 DEF Ended
    <2>3. TypeInv'
      BY <1>1, <2>1, <2>2 DEF TypeInv, TypeOK, Control, Knows
    <2>4. MeantInv' /\ FilesInv'
      BY <1>1, <2>1 DEF MeantInv, Meets, WithName, FilesInv, Lists, HasRow
    <2>5. ByInv' /\ OneInv' /\ UseInv'
      BY <1>1, <2>1 DEF ByInv, OneInv, UseInv, Overlap, RowsOf, File
    <2> QED BY <2>3, <2>4, <2>5 DEF IInv
  <1> QED BY <1>2, <1>3, <1>4, <1>5, <1>6 DEF Next

\* Whatever requests run next to each other, fail half-way or die: the parts
\* of the invariant above hold in every reachable state.
THEOREM Inductive == Spec => []IInv
  BY IInit, INext, PTL DEF Spec

\* GetRunByName: while no statement fails, a request goes to the run that had
\* the name it gives when it arrived, whatever other run shows that name.
THEOREM Meant == Spec => []RunMeant
  <1>1. IInv => RunMeant
    <2> SUFFICES ASSUME IInv, NEW r \in Requests, faults = 0, run[r] # None, meant[r] # {} PROVE run[r] \in meant[r]
      BY DEF RunMeant
    <2>1. CASE pc[r] # "idle"
      BY <2>1 DEF IInv, MeantInv, Meets
    <2>2. CASE pc[r] = "idle"
      BY <2>2 DEF IInv, TypeInv, Control, Knows
    <2> QED BY <2>1, <2>2
  <1> QED BY <1>1, Inductive, PTL

\* createRunFiles: the files of an answered request are listed, and a file has
\* two records only if two requests for it overlapped or a statement failed.
THEOREM Recorded == Spec => []FilesRecorded
  <1>1. IInv => FilesRecorded
    <2> SUFFICES ASSUME IInv PROVE FilesRecorded
      OBVIOUS
    <2>1. TypeOK
      BY DEF IInv, TypeInv
    <2>2. FilesListed
      <3> SUFFICES ASSUME NEW r \in Ended, result[r] = "ok", input[r].op = "files", NEW file \in Range(input[r].files)
                   PROVE  RunFiles(run[r], {file}) # {}
        BY DEF FilesListed
      <3>1. r \in Requests /\ pc[r] = "done"
        BY DEF Ended
      <3>2. PICK f \in files : f.run = run[r] /\ f.name = file
        BY <3>1 DEF IInv, FilesInv, Lists, HasRow
      <3> QED BY <3>2 DEF RunFiles
    <2>3. OneRecord
      <3> SUFFICES ASSUME faults = 0, NEW f \in files, NEW g \in files, f # g, f.run = g.run, f.name = g.name
                   PROVE  \E r, q \in Requests : /\ Asks(r, f.name) /\ Asks(q, f.name)
                                                 /\ run[r] = f.run /\ run[q] = f.run /\ Overlap(r, q)
        BY DEF OneRecord
      <3>1. Overlap(f.by[1], g.by[1])
        BY DEF IInv, OneInv
      <3>2. PICK r \in Requests : /\ f.by[1] = r /\ run[r] = f.run
                                  /\ input[r] \in Inputs /\ input[r].op = "files" /\ f.name \in Range(input[r].files)
        BY DEF IInv, ByInv
      <3>3. PICK q \in Requests : /\ g.by[1] = q /\ run[q] = g.run
                                  /\ input[q] \in Inputs /\ input[q].op = "files" /\ g.name \in Range(input[q].files)
        BY DEF IInv, ByInv
      <3>4. None \notin Inputs
        BY AttachmentsAssumption DEF AttachmentsAssumption
      <3> QED BY <3>1, <3>2, <3>3, <3>4 DEF Asks
    <2> QED BY <2>1, <2>2, <2>3 DEF FilesRecorded
  <1> QED BY <1>1, Inductive, PTL

\* useArtifact: while no statement fails, an artifact a run uses is found
\* from the run and the run from the artifact; a refused one is unknown.
THEOREM Listed == Spec => []UsesListed
  <1>1. IInv => UsesListed
    <2> SUFFICES ASSUME IInv, NEW r \in Ended, input[r].op = "use", faults = 0, run[r] # None
                 PROVE  /\ result[r] = "ok" => input[r].art \in InputArtifacts(run[r]) /\ run[r] \in UsedBy(input[r].art)
                        /\ result[r] = "error" => input[r].art = Unknown
      BY DEF UsesListed
    <2>1. r \in Requests /\ pc[r] = "done"
      BY DEF Ended
    <2>2. /\ result[r] = "ok" => input[r].art \in Arts /\ <<run[r], input[r].art>> \in usages
          /\ result[r] = "error" => input[r].art = Unknown
      BY <2>1 DEF IInv, UseInv
    <2>3. run[r] \in runs
      BY <2>1 DEF IInv, TypeInv, Control, Knows
    <2> QED BY <2>2, <2>3 DEF InputArtifacts, UsedBy
  <1> QED BY <1>1, Inductive, PTL

=============================================================================
