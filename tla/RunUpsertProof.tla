--------------------------- MODULE RunUpsertProof ---------------------------
(***************************************************************************)
(* Proofs about upsertBucket for every set of requests, names and projects,*)
(* every number of handlers, repetitions, deaths and failing statements.   *)
(***************************************************************************)
EXTENDS RunUpsert, FiniteSetTheorems, TLAPS

Projects == Entities \X Models
Outcome == Success \cup {Failed}

Named == {"run", "insert", "update", "reread"}
Found == {"update", "reread"}
Busy  == {"entity", "project", "createProject", "byId"} \cup Named

\* What a handler knows at each of its statements.
KnowsOK(p) ==
    /\ pc[p] \in Busy => req[p] \in Requests
    /\ pc[p] \in Busy \ {"entity"} => EntityOf(p) \in Entities
    /\ pc[p] \in Named \cup {"byId"} => project[p] \in Projects
    /\ pc[p] \in Named => name[p] \in Names \cup Nat
    /\ pc[p] \in Found => row[p] \in Row

TablesOK ==
    /\ projects \subseteq Projects
    /\ runs \subseteq Row
    /\ IsFiniteSet(runs)

HandlersOK ==
    /\ pc \in [Slots -> Busy \cup {"idle"}]
    /\ req \in [Slots -> Requests \cup {None}]
    /\ project \in [Slots -> Projects \cup {None}]
    /\ name \in [Slots -> Names \cup Nat \cup {None}]
    /\ row \in [Slots -> Row \cup {None}]
    /\ \A p \in Slots : KnowsOK(p)

ClientsOK ==
    /\ target \in [Requests -> Nat]
    /\ over \in [Requests -> (SUBSET Requests) \cup {None}]
    /\ awaited \in [Requests -> Slots \cup {None}]
    /\ reply \in [Requests -> Outcome \cup {None}]

BoundsOK ==
    /\ retries \in 0..MaxRetries /\ crashes \in 0..MaxCrashes /\ faults \in 0..MaxFaults

\* TypeOK is inductive together with what a handler knows at each statement,
\* and with runs being finite, so that the next id is a number.
TypeInv == TablesOK /\ HandlersOK /\ ClientsOK /\ BoundsOK

LEMMA Inputs1 ==
  ASSUME NEW r \in Requests
  PROVE  Input[r] \in Inputs
  BY UpsertAssumption DEF UpsertAssumption

LEMMA BoundsNat == MaxRetries \in Nat /\ MaxCrashes \in Nat /\ MaxFaults \in Nat
  BY UpsertAssumption DEF UpsertAssumption

LEMMA FaultsBounded ==
  ASSUME faults \in 0..MaxFaults, Succeeds \/ Fails
  PROVE  faults' \in 0..MaxFaults /\ (faults' = 0 => faults = 0)
  BY BoundsNat DEF Succeeds, Fails

\* Answering ends the handler and leaves every other one alone.
LEMMA AnswerType ==
  ASSUME HandlersOK, ClientsOK, NEW p \in Slots, pc[p] \in Busy,
         NEW a \in Outcome, Answer(p, a)
  PROVE  HandlersOK' /\ ClientsOK'
<1>1. req[p] \in Requests
  BY DEF HandlersOK, KnowsOK
<1>2. \A q \in Slots : KnowsOK(q)'
  <2> SUFFICES ASSUME NEW q \in Slots PROVE KnowsOK(q)'
    OBVIOUS
  <2>1. CASE q = p
    BY <2>1 DEF HandlersOK, Answer, Goto, KnowsOK, Busy, Named, Found
  <2>2. CASE q # p
    BY <2>2 DEF HandlersOK, Answer, Goto, KnowsOK, EntityOf
  <2> QED BY <2>1, <2>2
<1>3. HandlersOK'
  BY <1>2 DEF HandlersOK, Answer, Goto
<1>4. ClientsOK'
  BY <1>1 DEF ClientsOK, Answer
<1> QED BY <1>3, <1>4

\* Going on to a next statement of which the handler knows enough.
LEMMA GotoType ==
  ASSUME HandlersOK, NEW p \in Slots, NEW s \in Busy, Goto(p, s),
         req' = req,
         project' \in [Slots -> Projects \cup {None}],
         name' \in [Slots -> Names \cup Nat \cup {None}],
         row' \in [Slots -> Row \cup {None}],
         \A q \in Slots \ {p} : project'[q] = project[q] /\ name'[q] = name[q] /\ row'[q] = row[q],
         KnowsOK(p)'
  PROVE  HandlersOK'
<1>1. \A q \in Slots : KnowsOK(q)'
  <2> SUFFICES ASSUME NEW q \in Slots, q # p PROVE KnowsOK(q)'
    OBVIOUS
  <2> QED BY DEF HandlersOK, Goto, KnowsOK, EntityOf
<1> QED BY <1>1 DEF HandlersOK, Goto

LEMMA DeliverType ==
  ASSUME HandlersOK, ClientsOK, NEW r \in Requests, NEW p \in Slots, Deliver(r, p),
         UNCHANGED <<project, name, row>>
  PROVE  /\ HandlersOK'
         /\ awaited' \in [Requests -> Slots \cup {None}]
<1>1. \A q \in Slots : KnowsOK(q)'
  <2> SUFFICES ASSUME NEW q \in Slots PROVE KnowsOK(q)'
    OBVIOUS
  <2>1. CASE q = p
    BY <2>1 DEF HandlersOK, Deliver, KnowsOK, Busy, Named, Found
  <2>2. CASE q # p
    BY <2>2 DEF HandlersOK, Deliver, KnowsOK, EntityOf
  <2> QED BY <2>1, <2>2
<1> QED BY <1>1 DEF HandlersOK, ClientsOK, Deliver, Busy

\* A new run has the types of a row, and its id follows all others.
LEMMA NewRunType ==
  ASSUME TablesOK, HandlersOK, NEW p \in Slots, pc[p] = "insert"
  PROVE  /\ NewRun(p) \in Row
         /\ IsFiniteSet(runs \cup {NewRun(p)})
<1>1. Cardinality(runs) \in Nat
  BY FS_CardinalityType DEF TablesOK
<1>2. /\ req[p] \in Requests /\ project[p] \in Projects /\ name[p] \in Names \cup Nat
  BY DEF HandlersOK, KnowsOK, Busy, Named
<1>3. NewRun(p).cols \in [Columns -> Requests \cup {"running", None}]
  BY <1>2 DEF NewRun
<1>4. NewRun(p) \in Row
  BY <1>1, <1>2, <1>3 DEF NewRun, Row, Projects
<1>5. IsFiniteSet(runs \cup {NewRun(p)})
  BY FS_AddElement DEF TablesOK
<1> QED BY <1>4, <1>5

LEMMA WithType ==
  ASSUME NEW x \in Row, NEW p \in Slots, req[p] \in Requests
  PROVE  /\ With(x, p) \in Row
         /\ With(x, p).id = x.id /\ With(x, p).project = x.project /\ With(x, p).name = x.name
         /\ \A c \in Columns : With(x, p).cols[c] =
               IF c \in Writes(p, OnUpdate) THEN req[p] ELSE x.cols[c]
  BY DEF With, Row

\* An update keeps ids, keys and the number of rows when ids are unique.
Updated(p) == {IF x.id = row[p].id THEN With(x, p) ELSE x : x \in runs}

LEMMA UpdatedType ==
  ASSUME TablesOK, NEW p \in Slots, req[p] \in Requests
  PROVE  Updated(p) \subseteq Row /\ IsFiniteSet(Updated(p))
<1>1. Updated(p) \subseteq Row
  BY WithType DEF Updated, TablesOK
<1>2. IsFiniteSet(Updated(p))
  <2> DEFINE f == [x \in runs |-> IF x.id = row[p].id THEN With(x, p) ELSE x]
  <2>1. f \in Surjection(runs, Updated(p))
    BY DEF Surjection, Updated
  <2> HIDE DEF f
  <2> QED BY <2>1, FS_Surjection DEF TablesOK
<1> QED BY <1>1, <1>2

LEMMA TypeInvInit == Init => TypeInv
  BY BoundsNat, FS_EmptySet DEF Init, TypeInv, TablesOK, HandlersOK, KnowsOK, ClientsOK, BoundsOK,
     Busy, Named, Found

LEMMA ProjectOfType ==
  ASSUME TypeInv, NEW p \in Slots, pc[p] \in Busy \ {"entity"}
  PROVE  ProjectOf(p) \in Projects
<1>1. req[p] \in Requests /\ EntityOf(p) \in Entities
  BY DEF TypeInv, HandlersOK, KnowsOK
<1> QED BY <1>1, Inputs1 DEF ProjectOf, Projects, Inputs

LEMMA ProjectKnownType ==
  ASSUME TypeInv, NEW p \in Slots, pc[p] \in {"project", "createProject"}, ProjectKnown(p)
  PROVE  HandlersOK' /\ ClientsOK'
<1>1. ProjectOf(p) \in Projects
  BY ProjectOfType DEF Busy
<1>2. req[p] \in Requests /\ Input[req[p]].name \in Names
  <2>1. req[p] \in Requests
    BY DEF TypeInv, HandlersOK, KnowsOK, Busy
  <2> QED BY <2>1, Inputs1 DEF Inputs
<1>3. ClientsOK'
  BY DEF TypeInv, ClientsOK, ProjectKnown, client
<1>4. KnowsOK(p)'
  BY <1>1, <1>2 DEF TypeInv, HandlersOK, KnowsOK, ProjectKnown, Goto, EntityOf, Busy, Named, Found
<1>5. \E s \in Busy : Goto(p, s)
  BY DEF ProjectKnown, Busy, Named
<1>6. HandlersOK'
  BY <1>1, <1>2, <1>4, <1>5, GotoType DEF TypeInv, HandlersOK, ProjectKnown
<1> QED BY <1>3, <1>6

\* Handlers whose statement writes no table.
LEMMA FindType ==
  ASSUME TypeInv, NEW p \in Slots,
         FindEntity(p) \/ FindProject(p) \/ FindById(p) \/ FindRun(p) \/ ReadAgain(p)
  PROVE  TypeInv'
<1> USE DEF TypeInv
<1>a. TablesOK' /\ BoundsOK'
  BY FaultsBounded DEF TablesOK, BoundsOK, FindEntity, FindProject, FindById, FindRun, ReadAgain
<1>f. Failed \in Outcome
  BY DEF Outcome
<1>1. CASE FindEntity(p)
  <2>1. CASE Goto(p, "project") /\ UNCHANGED <<locals, client>> /\ EntityOf(p) \in Entities
    <3>1. KnowsOK(p)'
      BY <1>1, <2>1 DEF FindEntity, Goto, KnowsOK, HandlersOK, EntityOf, locals, Busy, Named, Found
    <3> QED BY <1>a, <2>1, <3>1, GotoType DEF HandlersOK, ClientsOK, locals, client, Busy
  <2>2. CASE Answer(p, Failed)
    BY <1>1, <1>a, <1>f, <2>2, AnswerType DEF FindEntity, Busy
  <2> QED BY <1>1, <2>1, <2>2 DEF FindEntity
<1>2. CASE FindProject(p)
  <2>1. CASE ProjectOf(p) \in projects /\ ProjectKnown(p)
    BY <1>2, <1>a, <2>1, ProjectKnownType DEF FindProject
  <2>2. CASE Goto(p, "createProject") /\ UNCHANGED <<locals, client>>
    <3>1. KnowsOK(p)'
      BY <1>2, <2>2 DEF FindProject, Goto, KnowsOK, HandlersOK, EntityOf, locals, Busy, Named, Found
    <3> QED BY <1>a, <2>2, <3>1, GotoType DEF HandlersOK, ClientsOK, locals, client, Busy
  <2>3. CASE Answer(p, Failed)
    BY <1>2, <1>a, <1>f, <2>3, AnswerType DEF FindProject, Busy
  <2> QED BY <1>2, <2>1, <2>2, <2>3 DEF FindProject
<1>3. CASE FindById(p)
  <2>1. ASSUME NEW j \in Projects, NEW n \in Names \cup Nat, NamedById(p, j, n)
        PROVE  TypeInv'
    <3>1. KnowsOK(p)'
      BY <1>3, <2>1 DEF FindById, NamedById, Goto, KnowsOK, HandlersOK, EntityOf, Busy, Named, Found
    <3> QED BY <1>a, <2>1, <3>1, GotoType DEF NamedById, HandlersOK, ClientsOK, client, Busy, Named
  <2>2. CASE Answer(p, Failed)
    BY <1>3, <1>a, <1>f, <2>2, AnswerType DEF FindById, Busy
  <2>3. /\ project[p] \in Projects /\ target[req[p]] \in Nat
        /\ \A x \in runs : x.project \in Projects /\ x.name \in Names \cup Nat
    BY <1>3 DEF FindById, HandlersOK, ClientsOK, TablesOK, KnowsOK, Busy, Row, Projects
  <2> QED BY <1>3, <2>1, <2>2, <2>3 DEF FindById, WithId
<1>4. CASE FindRun(p)
  <2>1. ASSUME NEW x \in runs, row' = [row EXCEPT ![p] = x],
               Goto(p, IF Writes(p, OnUpdate) = {} THEN "reread" ELSE "update"),
               UNCHANGED <<req, project, name, client>>
        PROVE  TypeInv'
    <3>1. x \in Row
      BY DEF TablesOK
    <3>2. KnowsOK(p)'
      BY <1>4, <2>1, <3>1 DEF FindRun, Goto, KnowsOK, HandlersOK, EntityOf, Busy, Named, Found
    <3> QED BY <1>a, <2>1, <3>1, <3>2, GotoType DEF HandlersOK, ClientsOK, client, Busy, Named
  <2>2. CASE Goto(p, "insert") /\ UNCHANGED <<locals, client>>
    <3>1. KnowsOK(p)'
      BY <1>4, <2>2 DEF FindRun, Goto, KnowsOK, HandlersOK, EntityOf, locals, Busy, Named, Found
    <3> QED BY <1>a, <2>2, <3>1, GotoType DEF HandlersOK, ClientsOK, locals, client, Busy, Named
  <2>3. CASE Answer(p, Failed)
    BY <1>4, <1>a, <1>f, <2>3, AnswerType DEF FindRun, Busy, Named
  <2> QED BY <1>4, <2>1, <2>2, <2>3 DEF FindRun, Keyed
<1>5. CASE ReadAgain(p)
  <2>1. ASSUME NEW x \in Row, Answer(p, [ok |-> TRUE, inserted |-> FALSE, row |-> x])
        PROVE  TypeInv'
    <3>1. [ok |-> TRUE, inserted |-> FALSE, row |-> x] \in Outcome
      BY DEF Outcome, Success
    <3> QED BY <1>5, <1>a, <2>1, <3>1, AnswerType DEF ReadAgain, Busy, Named
  <2>2. row[p] \in Row /\ runs \subseteq Row
    BY <1>5 DEF ReadAgain, HandlersOK, TablesOK, KnowsOK, Found
  <2> QED BY <1>5, <2>1, <2>2 DEF ReadAgain, WithId
<1> QED BY <1>1, <1>2, <1>3, <1>4, <1>5

\* Handlers that write a table.
LEMMA WriteType ==
  ASSUME TypeInv, NEW p \in Slots, CreateProject(p) \/ InsertRun(p) \/ UpdateRun(p)
  PROVE  TypeInv'
<1> USE DEF TypeInv
<1>a. BoundsOK'
  BY FaultsBounded DEF BoundsOK, CreateProject, InsertRun, UpdateRun
<1>f. Failed \in Outcome
  BY DEF Outcome
<1>1. CASE CreateProject(p)
  <2>1. CASE projects' = projects \cup {ProjectOf(p)} /\ ProjectKnown(p)
    <3>1. ProjectOf(p) \in Projects
      BY <1>1, ProjectOfType DEF CreateProject, Busy
    <3>2. TablesOK'
      BY <1>1, <2>1, <3>1 DEF CreateProject, TablesOK
    <3> QED BY <1>1, <1>a, <2>1, <3>2, ProjectKnownType DEF CreateProject
  <2>2. CASE Answer(p, Failed) /\ UNCHANGED projects
    BY <1>1, <1>a, <1>f, <2>2, AnswerType DEF CreateProject, TablesOK, Busy
  <2> QED BY <1>1, <2>1, <2>2 DEF CreateProject
<1>2. CASE InsertRun(p)
  <2>1. CASE /\ runs' = runs \cup {NewRun(p)}
             /\ Answer(p, [ok |-> TRUE, inserted |-> TRUE, row |-> NewRun(p)])
    <3>1. NewRun(p) \in Row /\ IsFiniteSet(runs')
      BY <1>2, <2>1, NewRunType DEF InsertRun
    <3>2. [ok |-> TRUE, inserted |-> TRUE, row |-> NewRun(p)] \in Outcome
      BY <3>1 DEF Outcome, Success
    <3>3. TablesOK'
      BY <1>2, <2>1, <3>1 DEF InsertRun, TablesOK
    <3> QED BY <1>2, <1>a, <2>1, <3>2, <3>3, AnswerType DEF InsertRun, Busy, Named
  <2>2. CASE Answer(p, Failed) /\ UNCHANGED runs
    BY <1>2, <1>a, <1>f, <2>2, AnswerType DEF InsertRun, TablesOK, Busy, Named
  <2> QED BY <1>2, <2>1, <2>2 DEF InsertRun
<1>3. CASE UpdateRun(p)
  <2>1. CASE /\ runs' = Updated(p)
             /\ row' = [row EXCEPT ![p] = With(@, p)]
             /\ Goto(p, "reread")
             /\ UNCHANGED <<req, project, name, client>>
    <3>1. req[p] \in Requests /\ row[p] \in Row
      BY <1>3 DEF UpdateRun, HandlersOK, KnowsOK, Busy, Named, Found
    <3>2. With(row[p], p) \in Row
      BY <3>1, WithType
    <3>3. TablesOK'
      BY <1>3, <2>1, <3>1, UpdatedType DEF UpdateRun, TablesOK
    <3>4. KnowsOK(p)'
      BY <1>3, <2>1, <3>2 DEF UpdateRun, Goto, KnowsOK, HandlersOK, EntityOf, Busy, Named, Found
    <3> QED BY <1>a, <2>1, <3>2, <3>3, <3>4, GotoType DEF HandlersOK, ClientsOK, client, Busy, Named
  <2>2. CASE Answer(p, Failed) /\ UNCHANGED runs
    BY <1>3, <1>a, <1>f, <2>2, AnswerType DEF UpdateRun, TablesOK, Busy, Named
  <2> QED BY <1>3, <2>1, <2>2 DEF UpdateRun, Updated
<1> QED BY <1>1, <1>2, <1>3

LEMMA ClientType ==
  ASSUME TypeInv, NEW r \in Requests,
         Timeout(r) \/ \E p \in Slots : Post(r, p) \/ PostAgain(r, p)
  PROVE  TypeInv'
<1> USE DEF TypeInv
<1>1. CASE Timeout(r)
  <2>1. HandlersOK'
    BY <1>1 DEF Timeout, locals, HandlersOK, KnowsOK, EntityOf
  <2> QED BY <1>1, <2>1, BoundsNat DEF Timeout, TablesOK, ClientsOK, BoundsOK
<1>2. ASSUME NEW p \in Slots, PostAgain(r, p) PROVE TypeInv'
  BY <1>2, DeliverType DEF PostAgain, bounds, TablesOK, ClientsOK, BoundsOK
<1>3. ASSUME NEW p \in Slots, Post(r, p) PROVE TypeInv'
  <2>1. Ids \subseteq Nat
    BY FS_CardinalityType DEF Ids, TablesOK
  <2>2. target' \in [Requests -> Nat]
    <3>1. PICK i \in {0} \cup Ids : target' = [target EXCEPT ![r] = i]
      BY <1>3 DEF Post
    <3> QED BY <2>1, <3>1 DEF ClientsOK
  <2>3. over' \in [Requests -> (SUBSET Requests) \cup {None}]
    BY <1>3 DEF Post, ClientsOK, DoneWith
  <2> QED BY <1>3, <2>2, <2>3, DeliverType DEF Post, bounds, TablesOK, ClientsOK, BoundsOK
<1> QED BY <1>1, <1>2, <1>3

LEMMA CrashType ==
  ASSUME TypeInv, Crash
  PROVE  TypeInv'
<1>1. HandlersOK'
  BY DEF Crash, HandlersOK, KnowsOK, Busy, Named, Found
<1> QED BY <1>1, BoundsNat DEF TypeInv, Crash, TablesOK, ClientsOK, BoundsOK

LEMMA TypeInvNext == TypeInv /\ [Next]_vars => TypeInv'
<1> SUFFICES ASSUME TypeInv, [Next]_vars PROVE TypeInv'
  OBVIOUS
<1>1. CASE Next
  BY <1>1, FindType, WriteType, ClientType, CrashType DEF Next, Handler
<1>2. CASE UNCHANGED vars
  BY <1>2 DEF vars, locals, client, bounds, TypeInv, TablesOK, HandlersOK, KnowsOK, EntityOf,
     ClientsOK, BoundsOK
<1> QED BY <1>1, <1>2

LEMMA TypeInvImplies == TypeInv => TypeOK
  BY DEF TypeInv, TypeOK, TablesOK, HandlersOK, ClientsOK, BoundsOK, Busy, Named, Outcome, Success,
     Projects

\* Rows, locals and answers keep their types whatever happens (upsert_bucket.go,
\* run.go).
THEOREM TypeCorrect == Spec => []TypeOK
<1>1. TypeInv /\ [Next]_vars => TypeInv'
  BY TypeInvNext
<1> QED BY <1>1, TypeInvInit, TypeInvImplies, PTL DEF Spec

(***************************************************************************)
(* The rows of runs.  Ids are 1, 2, ... without gaps; rows are never taken *)
(* away and keep their id and key, and only a request in a handler writes a*)
(* column.                                                                 *)
(***************************************************************************)
IdsOK ==
    /\ \A x \in runs : x.id <= Cardinality(runs)
    /\ \A i \in 1..Cardinality(runs) : \E x \in runs : x.id = i
    /\ \A x, y \in runs : x.id = y.id => x = y

SameKey(x, y) == x.id = y.id /\ x.project = y.project /\ x.name = y.name

WrittenFrom(y, x) ==
    \A c \in Columns : \/ y.cols[c] = x.cols[c]
                       \/ \E p \in Slots : req[p] \in Requests /\ y.cols[c] = req[p]

Grows ==
    /\ Cardinality(runs) <= Cardinality(runs')
    /\ \A x \in runs : \E y \in runs' : SameKey(x, y)
    /\ \A y \in runs' : y.id <= Cardinality(runs) =>
          \E x \in runs : SameKey(x, y) /\ WrittenFrom(y, x)

LEMMA CardinalityNat ==
  ASSUME TablesOK
  PROVE  Cardinality(runs) \in Nat /\ \A x \in runs : x.id \in Nat \ {0}
  BY FS_CardinalityType DEF TablesOK, Row

LEMMA UnchangedRows ==
  ASSUME TypeInv, IdsOK, OneRunPerName, UNCHANGED runs
  PROVE  Grows /\ IdsOK' /\ OneRunPerName'
  BY CardinalityNat DEF TypeInv, Grows, SameKey, WrittenFrom, IdsOK, OneRunPerName

LEMMA InsertedRow ==
  ASSUME TypeInv, IdsOK, OneRunPerName, NEW p \in Slots, pc[p] = "insert",
         Keyed(project[p], name[p]) = {}, runs' = runs \cup {NewRun(p)}
  PROVE  /\ Grows /\ IdsOK' /\ OneRunPerName'
         /\ Cardinality(runs') = Cardinality(runs) + 1
         /\ NewRun(p).id = Cardinality(runs) + 1
<1> DEFINE n == Cardinality(runs)
<1>1. n \in Nat /\ \A x \in runs : x.id \in Nat \ {0}
  BY CardinalityNat DEF TypeInv
<1>2. NewRun(p).id = n + 1 /\ NewRun(p).project = project[p] /\ NewRun(p).name = name[p]
  BY DEF NewRun
<1>3. NewRun(p) \notin runs
  BY <1>1, <1>2 DEF IdsOK
<1>4. Cardinality(runs') = n + 1
  BY <1>3, FS_AddElement DEF TypeInv, TablesOK
<1>5. IdsOK'
  <2> HIDE DEF n
  <2>1. \A x \in runs : x.id \in Nat /\ x.id <= n
    BY <1>1 DEF IdsOK, n
  <2>2. \A x \in runs' : x.id <= n + 1
    BY <2>1, <1>1, <1>2
  <2>3. ASSUME NEW i \in 1..(n + 1) PROVE \E x \in runs' : x.id = i
    <3>1. CASE i = n + 1
      BY <3>1, <1>2
    <3>2. CASE i # n + 1
      <4>1. i \in 1..n
        BY <3>2, <1>1
      <4> QED BY <4>1 DEF IdsOK, n
    <3> QED BY <3>1, <3>2
  <2>4. ASSUME NEW x \in runs', NEW y \in runs', x.id = y.id PROVE x = y
    BY <2>1, <2>4, <1>1, <1>2 DEF IdsOK
  <2>5. Cardinality(runs') = n + 1
    BY <1>4 DEF n
  <2>6. \A x \in runs' : x.id <= Cardinality(runs')
    BY <2>2, <2>5
  <2>7. \A i \in 1..Cardinality(runs') : \E x \in runs' : x.id = i
    BY <2>3, <2>5
  <2>8. \A x, y \in runs' : x.id = y.id => x = y
    BY <2>4
  <2> QED BY <2>6, <2>7, <2>8 DEF IdsOK
<1>6. Grows
  BY <1>1, <1>2, <1>4 DEF Grows, SameKey, WrittenFrom, IdsOK
<1>7. OneRunPerName'
  BY <1>2 DEF OneRunPerName, Keyed
<1> QED BY <1>2, <1>4, <1>5, <1>6, <1>7

LEMMA UpdatedRows ==
  ASSUME TypeInv, IdsOK, OneRunPerName, NEW p \in Slots, req[p] \in Requests,
         runs' = Updated(p)
  PROVE  Grows /\ IdsOK' /\ OneRunPerName'
<1> DEFINE f == [x \in runs |-> IF x.id = row[p].id THEN With(x, p) ELSE x]
<1>1. \A x \in runs : /\ x \in Row /\ SameKey(x, f[x]) /\ WrittenFrom(f[x], x)
  BY WithType DEF TypeInv, TablesOK, SameKey, WrittenFrom
<1>2. runs' = {f[x] : x \in runs}
  BY DEF Updated
<1>3. f \in Surjection(runs, runs') /\ f \in Injection(runs, runs')
  BY <1>1, <1>2 DEF Surjection, Injection, IsInjective, IdsOK, SameKey
<1> HIDE DEF f
<1>4. Cardinality(runs') = Cardinality(runs)
  BY <1>3, FS_Surjection DEF TypeInv, TablesOK
<1>5. Cardinality(runs) \in Nat /\ \A x \in runs : x.id \in Nat \ {0}
  BY CardinalityNat DEF TypeInv
<1>6. Grows
  BY <1>1, <1>2, <1>4, <1>5 DEF Grows
<1>7. IdsOK'
  <2>1. \A x \in runs' : x.id <= Cardinality(runs')
    BY <1>1, <1>2, <1>4 DEF IdsOK, SameKey
  <2>2. \A i \in 1..Cardinality(runs') : \E x \in runs' : x.id = i
    BY <1>1, <1>2, <1>4 DEF IdsOK, SameKey
  <2>3. \A x, y \in runs' : x.id = y.id => x = y
    BY <1>1, <1>2 DEF IdsOK, SameKey
  <2> QED BY <2>1, <2>2, <2>3 DEF IdsOK
<1>8. OneRunPerName'
  BY <1>1, <1>2 DEF OneRunPerName, SameKey
<1> QED BY <1>6, <1>7, <1>8

LEMMA RowsNext ==
  ASSUME TypeInv, IdsOK, OneRunPerName, [Next]_vars
  PROVE  Grows /\ IdsOK' /\ OneRunPerName'
<1>1. ASSUME NEW p \in Slots, InsertRun(p)
      PROVE  Grows /\ IdsOK' /\ OneRunPerName'
  BY <1>1, InsertedRow, UnchangedRows DEF InsertRun
<1>2. ASSUME NEW p \in Slots, UpdateRun(p)
      PROVE  Grows /\ IdsOK' /\ OneRunPerName'
  <2>1. req[p] \in Requests
    BY <1>2 DEF UpdateRun, TypeInv, HandlersOK, KnowsOK, Busy, Named
  <2>2. runs' = Updated(p) \/ UNCHANGED runs
    BY <1>2 DEF UpdateRun, Updated
  <2> QED BY <2>1, <2>2, UpdatedRows, UnchangedRows
<1>3. \/ UNCHANGED runs
      \/ \E p \in Slots : InsertRun(p) \/ UpdateRun(p)
  BY DEF Next, Handler, vars, Post, PostAgain, Timeout, Crash, FindEntity, FindProject,
     CreateProject, FindById, FindRun, ReadAgain
<1> QED BY <1>1, <1>2, <1>3, UnchangedRows

LEMMA RowsInit == Init => IdsOK /\ OneRunPerName
  BY FS_EmptySet DEF Init, IdsOK, OneRunPerName

RowsInv == TypeInv /\ IdsOK /\ OneRunPerName

(***************************************************************************)
(* Handlers, answers and the order of requests.                            *)
(***************************************************************************)
HasReply(r) == reply[r] # None

\* Ids of rows a handler or a client knows are ids of rows there are.
KnownOK ==
    /\ \A p \in Slots : pc[p] \in Found => row[p].id <= Cardinality(runs)
    /\ \A r \in Answers : reply[r].row.id <= Cardinality(runs)
    /\ \A r \in Requests : target[r] <= Cardinality(runs)

\* A request with a handler or an answer has come, and no handler is left of
\* one that was done with when another came.
OrderOK ==
    /\ \A p \in Slots : pc[p] = "idle" => req[p] = None
    /\ \A p \in Slots : pc[p] # "idle" => over[req[p]] # None
    /\ \A r \in Requests : HasReply(r) => over[r] # None
    /\ \A r \in Requests : over[r] # None =>
          \A q \in over[r] : HasReply(q) /\ \A p \in Slots : req[p] # q

\* What a step of a handler leaves alone.
LEMMA HandlerShape ==
  ASSUME TypeInv, NEW p \in Slots, Handler(p)
  PROVE  /\ pc[p] \in Busy /\ req[p] \in Requests
         /\ UNCHANGED <<target, over>>
         /\ \A q \in Slots \ {p} : /\ pc'[q] = pc[q] /\ req'[q] = req[q] /\ row'[q] = row[q]
                                   /\ project'[q] = project[q] /\ name'[q] = name[q]
         /\ \/ pc'[p] \in Busy /\ req'[p] = req[p] /\ UNCHANGED reply
            \/ pc'[p] = "idle" /\ req'[p] = None
<1>1. pc[p] \in Busy
  BY DEF Handler, FindEntity, FindProject, CreateProject, FindById, FindRun, InsertRun, UpdateRun,
     ReadAgain, Busy, Named
<1>2. req[p] \in Requests
  BY <1>1 DEF TypeInv, HandlersOK, KnowsOK
<1> DEFINE Kept == /\ UNCHANGED <<target, over>>
                   /\ \A q \in Slots \ {p} : /\ pc'[q] = pc[q] /\ req'[q] = req[q] /\ row'[q] = row[q]
                                             /\ project'[q] = project[q] /\ name'[q] = name[q]
           Stays == pc'[p] \in Busy /\ req'[p] = req[p] /\ UNCHANGED reply
           Leaves == pc'[p] = "idle" /\ req'[p] = None
<1>3. ASSUME NEW a, Answer(p, a) PROVE Kept /\ Leaves
  BY <1>3 DEF Answer, Goto, TypeInv, HandlersOK
<1>4. ASSUME NEW s \in Busy, Goto(p, s), UNCHANGED <<req, client>>,
             \A q \in Slots \ {p} : row'[q] = row[q] /\ project'[q] = project[q] /\ name'[q] = name[q]
      PROVE  Kept /\ Stays
  BY <1>4 DEF Goto, client, TypeInv, HandlersOK
<1> HIDE DEF Kept, Stays, Leaves
<1> USE DEF TypeInv, HandlersOK, locals, client, Busy, Named
<1>5. ASSUME FindEntity(p) PROVE Kept /\ (Stays \/ Leaves)
  BY <1>3, <1>4, <1>5 DEF FindEntity
<1>6. ASSUME ProjectKnown(p) PROVE Kept /\ Stays
  BY <1>4, <1>6 DEF ProjectKnown
<1>7. ASSUME FindProject(p) PROVE Kept /\ (Stays \/ Leaves)
  BY <1>3, <1>4, <1>6, <1>7 DEF FindProject
<1>8. ASSUME CreateProject(p) PROVE Kept /\ (Stays \/ Leaves)
  BY <1>3, <1>6, <1>8 DEF CreateProject
<1>9. ASSUME FindById(p) PROVE Kept /\ (Stays \/ Leaves)
  <2>1. ASSUME NEW j, NEW n, NamedById(p, j, n) PROVE Kept /\ Stays
    BY <1>4, <2>1 DEF NamedById
  <2> QED BY <1>3, <1>9, <2>1 DEF FindById
<1>10. ASSUME FindRun(p) PROVE Kept /\ (Stays \/ Leaves)
  BY <1>3, <1>4, <1>10 DEF FindRun
<1>11. ASSUME InsertRun(p) PROVE Kept /\ (Stays \/ Leaves)
  BY <1>3, <1>11 DEF InsertRun
<1>12. ASSUME UpdateRun(p) PROVE Kept /\ (Stays \/ Leaves)
  BY <1>3, <1>4, <1>12 DEF UpdateRun
<1>13. ASSUME ReadAgain(p) PROVE Kept /\ (Stays \/ Leaves)
  BY <1>3, <1>13 DEF ReadAgain
<1>14. Kept /\ (Stays \/ Leaves)
  BY <1>5, <1>7, <1>8, <1>9, <1>10, <1>11, <1>12, <1>13 DEF Handler
<1> QED BY <1>1, <1>2, <1>14 DEF Kept, Stays, Leaves

\* The client gets no answer but one of these: an error, the row that was
\* inserted, the row that was read, and the row in hand.
Told(p, a) ==
    \/ a = Failed
    \/ /\ pc[p] = "insert" /\ Keyed(project[p], name[p]) = {}
       /\ runs' = runs \cup {NewRun(p)}
       /\ a = [ok |-> TRUE, inserted |-> TRUE, row |-> NewRun(p)]
    \/ /\ pc[p] = "reread" /\ UNCHANGED runs
       /\ \E x \in WithId(row[p].id) \cup {row[p]} :
             a = [ok |-> TRUE, inserted |-> FALSE, row |-> x]

Inserts(p, a) ==
    /\ pc[p] = "insert" /\ Keyed(project[p], name[p]) = {}
    /\ runs' = runs \cup {NewRun(p)}
    /\ a.inserted = TRUE /\ a.row = NewRun(p)

Finds(p, a) ==
    /\ pc[p] = "reread" /\ UNCHANGED runs
    /\ a.inserted = FALSE /\ a.row \in WithId(row[p].id) \cup {row[p]}

LEMMA ToldRow ==
  ASSUME NEW p \in Slots, NEW a, Told(p, a), a # Failed
  PROVE  Inserts(p, a) \/ Finds(p, a)
<1>1. CASE \E x \in WithId(row[p].id) \cup {row[p]} :
              a = [ok |-> TRUE, inserted |-> FALSE, row |-> x]
  BY <1>1 DEF Told, Inserts, Finds
<1>2. CASE a = [ok |-> TRUE, inserted |-> TRUE, row |-> NewRun(p)]
  BY <1>2 DEF Told, Inserts, Finds
<1> QED BY <1>1, <1>2 DEF Told

LEMMA AnswerShape ==
  ASSUME TypeInv, NEW p \in Slots, Handler(p), NEW r \in Requests, reply'[r] # reply[r]
  PROVE  r = req[p] /\ Told(p, reply'[r])
<1>1. ASSUME NEW a, Answer(p, a) PROVE r = req[p] /\ reply'[r] = a
  BY <1>1 DEF Answer, TypeInv, ClientsOK
<1> USE DEF client
<1>2. CASE FindEntity(p)
  BY <1>1, <1>2 DEF FindEntity, Told
<1>3. CASE FindProject(p)
  BY <1>1, <1>3 DEF FindProject, ProjectKnown, Told
<1>4. CASE CreateProject(p)
  BY <1>1, <1>4 DEF CreateProject, ProjectKnown, Told
<1>5. CASE FindById(p)
  BY <1>1, <1>5 DEF FindById, NamedById, Told
<1>6. CASE FindRun(p)
  BY <1>1, <1>6 DEF FindRun, Told
<1>7. CASE InsertRun(p)
  BY <1>1, <1>7 DEF InsertRun, Told
<1>8. CASE UpdateRun(p)
  BY <1>1, <1>8 DEF UpdateRun, Told
<1>9. CASE ReadAgain(p)
  BY <1>1, <1>9 DEF ReadAgain, Told
<1> QED BY <1>2, <1>3, <1>4, <1>5, <1>6, <1>7, <1>8, <1>9 DEF Handler

ClientStep(r, p) == Timeout(r) \/ Post(r, p) \/ PostAgain(r, p)

\* What a step of a client leaves alone.
LEMMA ClientShape ==
  ASSUME TypeInv, NEW r \in Requests, NEW p \in Slots,
         ClientStep(r, p)
  PROVE  /\ UNCHANGED <<runs, reply, row, project, name, faults>>
         /\ \/ UNCHANGED <<pc, req>>
            \/ /\ pc[p] = "idle" /\ pc'[p] = "entity" /\ req'[p] = r
               /\ over'[r] # None /\ (over[r] = None \/ ~HasReply(r))
               /\ \A q \in Slots \ {p} : pc'[q] = pc[q] /\ req'[q] = req[q]
         /\ \/ UNCHANGED <<target, over>>
            \/ /\ over[r] = None /\ over'[r] = DoneWith
               /\ \A q \in Requests \ {r} : over'[q] = over[q] /\ target'[q] = target[q]
               /\ target'[r] \in IF Input[r].by = "id" THEN {0} \cup Ids ELSE {0}
<1>1. CASE Timeout(r)
  BY <1>1 DEF Timeout, locals
<1>2. CASE PostAgain(r, p)
  BY <1>2 DEF PostAgain, Deliver, bounds, HasReply, TypeInv, HandlersOK
<1>3. CASE Post(r, p)
  <2>1. PICK i \in IF Input[r].by = "id" THEN {0} \cup Ids ELSE {0} :
           target' = [target EXCEPT ![r] = i]
    BY <1>3 DEF Post
  <2>2. DoneWith # None
    BY UpsertAssumption DEF UpsertAssumption, DoneWith
  <2> QED BY <1>3, <2>1, <2>2 DEF Post, Deliver, bounds, TypeInv, HandlersOK, ClientsOK
<1> QED BY <1>1, <1>2, <1>3 DEF ClientStep

LEMMA StepCases ==
  ASSUME TypeInv, [Next]_vars
  PROVE  \/ \E p \in Slots : Handler(p)
         \/ \E r \in Requests, p \in Slots : ClientStep(r, p)
         \/ Crash
         \/ UNCHANGED vars
<1>1. ASSUME NEW r \in Requests, Timeout(r)
      PROVE  \E p \in Slots : ClientStep(r, p)
  BY <1>1 DEF Timeout, ClientStep, TypeInv, ClientsOK
<1>2. ASSUME NEW r \in Requests, NEW p \in Slots, Post(r, p) \/ PostAgain(r, p)
      PROVE  ClientStep(r, p)
  BY <1>2 DEF ClientStep
<1> QED BY <1>1, <1>2 DEF Next

\* How a handler comes to have a row in hand.
LEMMA FoundShape ==
  ASSUME TypeInv, NEW p \in Slots, Handler(p), pc'[p] \in Found
  PROVE  \/ /\ pc[p] = "run" /\ UNCHANGED runs
            /\ row'[p] \in Keyed(project[p], name[p])
            /\ pc'[p] = "reread" => Writes(p, OnUpdate) = {}
         \/ /\ pc[p] = "update" /\ pc'[p] = "reread"
            /\ runs' = Updated(p) /\ row'[p] = With(row[p], p)
<1> USE DEF TypeInv, HandlersOK, Found, Goto
<1>1. ASSUME NEW a, Answer(p, a) PROVE FALSE
  BY <1>1 DEF Answer
<1>2. ~ProjectKnown(p) /\ \A j, n : ~NamedById(p, j, n)
  BY DEF ProjectKnown, NamedById
<1>3. ~FindEntity(p) /\ ~FindProject(p) /\ ~CreateProject(p) /\ ~FindById(p) /\ ~InsertRun(p)
      /\ ~ReadAgain(p)
  BY <1>1, <1>2 DEF FindEntity, FindProject, CreateProject, FindById, InsertRun, ReadAgain
<1>4. CASE FindRun(p)
  BY <1>1, <1>4 DEF FindRun
<1>5. CASE UpdateRun(p)
  BY <1>1, <1>5 DEF UpdateRun, Updated
<1> QED BY <1>3, <1>4, <1>5 DEF Handler

LEMMA OutcomeNotNone ==
  ASSUME TypeInv, NEW p \in Slots, NEW a, Told(p, a)
  PROVE  a # None
<1>1. a \in Outcome
  <2>1. CASE a = Failed
    BY <2>1 DEF Outcome
  <2>2. CASE pc[p] = "insert" /\ a = [ok |-> TRUE, inserted |-> TRUE, row |-> NewRun(p)]
    BY <2>2, NewRunType DEF TypeInv, Outcome, Success
  <2>3. ASSUME pc[p] = "reread", NEW x \in WithId(row[p].id) \cup {row[p]},
               a = [ok |-> TRUE, inserted |-> FALSE, row |-> x]
        PROVE  a \in Outcome
    BY <2>3 DEF TypeInv, TablesOK, HandlersOK, KnowsOK, Found, WithId, Outcome, Success
  <2> QED BY <2>1, <2>2, <2>3 DEF Told
<1> QED BY <1>1, UpsertAssumption DEF Outcome, UpsertAssumption

LEMMA OrderNext ==
  ASSUME TypeInv, OrderOK, [Next]_vars
  PROVE  OrderOK'
<1>1. ASSUME NEW p \in Slots, Handler(p) PROVE OrderOK'
  <2>1. \A r \in Requests : HasReply(r) => HasReply(r)'
    BY <1>1, AnswerShape, OutcomeNotNone DEF HasReply
  <2>2. \A r \in Requests : HasReply(r)' => HasReply(r) \/ r = req[p]
    BY <1>1, AnswerShape DEF HasReply
  <2> HIDE DEF HasReply
  <2>3. \A q \in Slots : req'[q] \in {req[q], None} /\ (pc'[q] # "idle" => pc[q] # "idle" /\ req'[q] = req[q])
    BY <1>1, HandlerShape DEF Busy, Named
  <2>4. None \notin Requests
    BY UpsertAssumption DEF UpsertAssumption
  <2>5. pc[p] # "idle" /\ req[p] \in Requests /\ UNCHANGED over
    BY <1>1, HandlerShape DEF Busy, Named
  <2>6. \A q \in Slots : pc'[q] = "idle" => req'[q] = None
    BY <1>1, HandlerShape DEF OrderOK, Busy, Named
  <2>7. \A r \in Requests : over[r] # None => over[r] \subseteq Requests
    BY DEF TypeInv, ClientsOK
  <2> QED BY <2>1, <2>2, <2>3, <2>4, <2>5, <2>6, <2>7 DEF OrderOK
<1>2. ASSUME NEW r \in Requests, NEW p \in Slots, ClientStep(r, p)
      PROVE  OrderOK'
  <2>1. \A q \in Requests : HasReply(q)' <=> HasReply(q)
    BY <1>2, ClientShape DEF HasReply
  <2>2. DoneWith # None /\ DoneWith \subseteq Requests
    BY UpsertAssumption DEF UpsertAssumption, DoneWith
  <2>3. \A q \in Requests : over'[q] = over[q] \/ (q = r /\ over[q] = None /\ over'[q] = DoneWith)
    BY <1>2, ClientShape
  <2>4. \A q \in Slots : \/ pc'[q] = pc[q] /\ req'[q] = req[q]
                         \/ /\ pc'[q] # "idle" /\ req'[q] = r /\ over'[r] # None
                            /\ over[r] = None \/ ~HasReply(r)
    BY <1>2, ClientShape
  <2>5. ~HasReply(r) \/ \A q \in Slots : pc'[q] = pc[q] /\ req'[q] = req[q]
    BY <2>4 DEF OrderOK
  <2>6. \A q \in DoneWith : HasReply(q) /\ \A t \in Slots : req[t] # q
    BY DEF DoneWith, HasReply
  <2>7. \A q \in Requests : over[q] # None => over[q] \subseteq Requests
    BY DEF TypeInv, ClientsOK
  <2>8. \A q \in Slots : pc[q] # "idle" => req[q] \in Requests
    BY DEF TypeInv, HandlersOK, KnowsOK
  <2>9. \A q \in Slots : /\ pc'[q] = "idle" => req'[q] = None
                         /\ pc'[q] # "idle" => over'[req'[q]] # None
    BY <2>2, <2>3, <2>4, <2>8 DEF OrderOK
  <2>10. \A q \in Requests : HasReply(q)' => over'[q] # None
    BY <2>1, <2>2, <2>3 DEF OrderOK
  <2>11. \A t \in Requests : over'[t] # None =>
            \A q \in over'[t] : q \in Requests /\ HasReply(q) /\ \A u \in Slots : req[u] # q
    BY <2>2, <2>3, <2>6, <2>7 DEF OrderOK
  <2>12. \A t \in Requests : over'[t] # None =>
            \A q \in over'[t] : HasReply(q)' /\ \A u \in Slots : req'[u] # q
    BY <2>1, <2>4, <2>5, <2>11
  <2> QED BY <2>9, <2>10, <2>12 DEF OrderOK
<1>3. CASE Crash
  BY <1>3, UpsertAssumption DEF Crash, OrderOK, HasReply, TypeInv, ClientsOK, UpsertAssumption
<1>4. CASE UNCHANGED vars
  BY <1>4 DEF vars, locals, client, OrderOK, HasReply
<1> QED BY <1>1, <1>2, <1>3, <1>4, StepCases

\* The rows before and after a step, as the lemmas below use them.
LEMMA RowsStep ==
  ASSUME RowsInv, [Next]_vars
  PROVE  /\ TypeInv /\ TypeInv' /\ IdsOK /\ IdsOK' /\ OneRunPerName /\ Grows
         /\ Cardinality(runs) \in Nat /\ Cardinality(runs') \in Nat
         /\ Cardinality(runs) <= Cardinality(runs')
         /\ \A x \in runs : x \in Row /\ x.id \in Nat /\ x.id <= Cardinality(runs)
         /\ \A x \in runs' : x \in Row /\ x.id \in Nat /\ x.id <= Cardinality(runs')
<1>1. TypeInv /\ TypeInv' /\ IdsOK /\ IdsOK' /\ OneRunPerName /\ Grows
  BY RowsNext, TypeInvNext DEF RowsInv
<1>2. IsFiniteSet(runs) /\ IsFiniteSet(runs') /\ runs \subseteq Row /\ runs' \subseteq Row
  BY <1>1 DEF TypeInv, TablesOK
<1>3. Cardinality(runs) \in Nat /\ Cardinality(runs') \in Nat
  BY <1>2, FS_CardinalityType
<1>4. \A x \in Row : x.id \in Nat
  BY DEF Row
<1> QED BY <1>1, <1>2, <1>3, <1>4 DEF Grows, IdsOK

LEMMA KnownNext ==
  ASSUME RowsInv, KnownOK, [Next]_vars
  PROVE  KnownOK'
<1> DEFINE n == Cardinality(runs)
           m == Cardinality(runs')
<1>1. /\ TypeInv /\ TypeInv' /\ n \in Nat /\ m \in Nat /\ n <= m
      /\ \A x \in runs : x.id \in Nat /\ x.id <= n
      /\ \A x \in runs' : x.id \in Nat /\ x.id <= m
  BY RowsStep
<1>2. \A r \in Requests : target[r] \in Nat /\ target'[r] \in Nat
  BY <1>1 DEF TypeInv, ClientsOK
<1>3. \A r \in Answers : reply[r].row.id \in Nat
  BY <1>1 DEF TypeInv, ClientsOK, Answers, Outcome, Success, Row
<1>4. \A p \in Slots : pc[p] \in Found => row[p] \in Row /\ row[p].id \in Nat
  BY <1>1 DEF TypeInv, HandlersOK, KnowsOK, Row
<1>5. /\ \A p \in Slots : pc[p] \in Found => row[p].id <= n
      /\ \A r \in Answers : reply[r].row.id <= n
      /\ \A r \in Requests : target[r] <= n
  BY DEF KnownOK
<1>6. ASSUME NEW p \in Slots, Handler(p) PROVE KnownOK'
  <2>1. ASSUME NEW r \in Answers' PROVE reply'[r].row.id <= m
    <3>1. CASE reply'[r] = reply[r]
      BY <1>1, <1>3, <1>5, <3>1 DEF Answers
    <3>2. CASE reply'[r] # reply[r]
      <4>1. Inserts(p, reply'[r]) \/ Finds(p, reply'[r])
        BY <1>1, <1>6, <2>1, <3>2, AnswerShape, ToldRow DEF Answers
      <4>2. CASE Inserts(p, reply'[r])
        BY <1>1, <4>2 DEF Inserts
      <4>3. CASE Finds(p, reply'[r])
        BY <1>1, <1>4, <1>5, <4>3 DEF Finds, WithId, Found
      <4> QED BY <4>1, <4>2, <4>3
    <3> QED BY <3>1, <3>2
  <2>2. ASSUME NEW q \in Slots, pc'[q] \in Found PROVE row'[q].id <= m
    <3>1. CASE q # p
      BY <1>1, <1>4, <1>5, <1>6, <2>2, <3>1, HandlerShape
    <3>2. CASE q = p /\ pc[p] = "run" /\ row'[p] \in Keyed(project[p], name[p])
      BY <1>1, <3>2 DEF Keyed
    <3>3. CASE q = p /\ pc[p] = "update" /\ row'[p] = With(row[p], p)
      <4>1. row[p] \in Row /\ req[p] \in Requests
        BY <1>1, <1>4, <3>3 DEF TypeInv, HandlersOK, KnowsOK, Found, Busy, Named
      <4>2. row'[p].id = row[p].id
        BY <3>3, <4>1, WithType
      <4> QED BY <1>1, <1>4, <1>5, <3>3, <4>2 DEF Found
    <3> QED BY <1>1, <1>6, <2>2, <3>1, <3>2, <3>3, FoundShape
  <2>3. \A r \in Requests : target'[r] <= m
    BY <1>1, <1>2, <1>5, <1>6, HandlerShape
  <2> QED BY <2>1, <2>2, <2>3 DEF KnownOK
<1>7. ASSUME NEW r \in Requests, NEW p \in Slots, ClientStep(r, p) PROVE KnownOK'
  <2>1. UNCHANGED <<runs, reply, row>>
    BY <1>1, <1>7, ClientShape
  <2>2. \A q \in Slots : pc'[q] \in Found => pc[q] \in Found
    BY <1>1, <1>7, ClientShape DEF Found
  <2>3. \A q \in Requests : target'[q] \in {target[q], 0} \cup Ids
    BY <1>1, <1>7, ClientShape
  <2>4. \A q \in Requests : target'[q] <= n
    BY <1>1, <1>5, <2>3 DEF Ids
  <2> QED BY <1>5, <2>1, <2>2, <2>4 DEF KnownOK, Answers
<1>8. CASE Crash
  BY <1>5, <1>8 DEF Crash, KnownOK, Answers, Found
<1>9. CASE UNCHANGED vars
  BY <1>9 DEF vars, locals, client, KnownOK, Answers
<1> QED BY <1>1, <1>6, <1>7, <1>8, <1>9, StepCases

\* A new row has an id no client has been told.
LEMMA InsertedNext ==
  ASSUME RowsInv, KnownOK, InsertedOnce, [Next]_vars
  PROVE  InsertedOnce'
<1>1. /\ TypeInv /\ Cardinality(runs) \in Nat
      /\ \A r \in Answers : reply[r].row.id \in Nat /\ reply[r].row.id <= Cardinality(runs)
  <2>1. TypeInv /\ Cardinality(runs) \in Nat
    BY RowsStep
  <2> QED BY <2>1 DEF KnownOK, TypeInv, ClientsOK, Answers, Outcome, Success, Row
<1>2. ASSUME UNCHANGED reply PROVE InsertedOnce'
  BY <1>2 DEF InsertedOnce, Answers
<1>3. ASSUME NEW p \in Slots, Handler(p) PROVE InsertedOnce'
  <2>1. \A r \in Requests : reply'[r] # reply[r] =>
            r = req[p] /\ (reply'[r] = Failed \/ Inserts(p, reply'[r]) \/ Finds(p, reply'[r]))
    BY <1>1, <1>3, AnswerShape, ToldRow
  <2>2. \A r \in Answers' :
            \/ reply'[r] = reply[r] /\ r \in Answers
            \/ r = req[p] /\ reply'[r].inserted = FALSE
            \/ r = req[p] /\ reply'[r].row.id = Cardinality(runs) + 1
    <3> SUFFICES ASSUME NEW r \in Requests, reply'[r] # reply[r], reply'[r] # Failed
                 PROVE  /\ r = req[p]
                        /\ reply'[r].inserted = FALSE \/ reply'[r].row.id = Cardinality(runs) + 1
      BY DEF Answers
    <3>1. NewRun(p).id = Cardinality(runs) + 1
      BY DEF NewRun
    <3> QED BY <2>1, <3>1 DEF Inserts, Finds
  <2> QED BY <1>1, <2>2 DEF InsertedOnce
<1> QED BY <1>1, <1>2, <1>3, StepCases, ClientShape DEF Crash, vars, client

(***************************************************************************)
(* Answered columns.                                                       *)
(***************************************************************************)
Shared(r) == Input[r].writes \cap OnInsert \cap OnUpdate

Holds(x, r, done) == \A c \in Shared(r) : x.cols[c] \in Requests \ done

\* What is told to a client is in the row, and what is about to be told is.
WrittenOK ==
    /\ \A r \in Answers : \A x \in {reply[r].row} \cup WithId(reply[r].row.id) : Holds(x, r, over[r])
    /\ \A p \in Slots : pc[p] = "reread" =>
          \A x \in {row[p]} \cup WithId(row[p].id) : Holds(x, req[p], over[req[p]])

LEMMA WrittenImplies == WrittenOK => AnsweredFieldsHold
  BY DEF WrittenOK, AnsweredFieldsHold, Holds, Shared

\* No handler is left to overwrite a column for a request done with before.
LEMMA HoldsOn ==
  ASSUME OrderOK, NEW r \in Requests, over[r] # None,
         NEW x, NEW y, Holds(x, r, over[r]), WrittenFrom(y, x)
  PROVE  Holds(y, r, over[r])
<1>1. \A p \in Slots : req[p] \notin over[r]
  BY DEF OrderOK
<1>2. Shared(r) \subseteq Columns
  BY DEF Shared, Columns
<1> QED BY <1>1, <1>2 DEF Holds, WrittenFrom

LEMMA WithHolds ==
  ASSUME TypeInv, OrderOK, NEW p \in Slots, pc[p] = "update", NEW x \in Row
  PROVE  Holds(With(x, p), req[p], over[req[p]])
<1>1. req[p] \in Requests /\ req[p] \notin over[req[p]]
  BY DEF OrderOK, TypeInv, HandlersOK, KnowsOK, Busy, Named
<1>2. \A c \in Shared(req[p]) : c \in Columns /\ c \in Writes(p, OnUpdate)
  BY DEF Shared, Columns, Writes
<1> QED BY <1>1, <1>2, WithType DEF Holds

LEMMA NewHolds ==
  ASSUME TypeInv, OrderOK, NEW p \in Slots, pc[p] = "insert"
  PROVE  Holds(NewRun(p), req[p], over[req[p]])
<1>1. req[p] \in Requests /\ req[p] \notin over[req[p]]
  BY DEF OrderOK, TypeInv, HandlersOK, KnowsOK, Busy, Named
<1>2. \A c \in Shared(req[p]) : c \in Columns /\ c \in Writes(p, OnInsert)
  BY DEF Shared, Columns, Writes
<1> QED BY <1>1, <1>2 DEF Holds, NewRun

LEMMA WrittenAnswers ==
  ASSUME RowsInv, KnownOK, OrderOK, WrittenOK, [Next]_vars, NEW p \in Slots, Handler(p),
         NEW r \in Answers', NEW y,
         y = reply'[r].row \/ (y \in runs' /\ y.id = reply'[r].row.id)
  PROVE  Holds(y, r, over[r])
<1>0. /\ TypeInv /\ Cardinality(runs) \in Nat
      /\ \A x \in runs : x.id \in Nat /\ x.id <= Cardinality(runs)
  BY RowsStep
<1>r. r \in Requests
  BY DEF Answers
<1>1. CASE reply'[r] = reply[r]
  <2>1. r \in Answers
    BY <1>1 DEF Answers
  <2>2. over[r] # None
    BY <2>1 DEF OrderOK, Answers, HasReply
  <2>3. reply[r].row.id \in Nat /\ reply[r].row.id <= Cardinality(runs)
    BY <1>0, <2>1 DEF KnownOK, TypeInv, ClientsOK, Answers, Outcome, Success, Row
  <2>4. \A x \in {reply[r].row} \cup WithId(reply[r].row.id) : Holds(x, r, over[r])
    BY <2>1 DEF WrittenOK
  <2> DEFINE i == reply[r].row.id
  <2>5. ASSUME NEW z \in runs', z.id = i PROVE Holds(z, r, over[r])
    <3>1. PICK x \in runs : SameKey(x, z) /\ WrittenFrom(z, x)
      BY <2>3, <2>5, RowsStep DEF Grows
    <3>2. Holds(x, r, over[r])
      BY <2>4, <2>5, <3>1 DEF SameKey, WithId
    <3> QED BY <1>r, <2>2, <3>1, <3>2, HoldsOn
  <2> QED BY <1>1, <2>4, <2>5 DEF WithId
<1>2. CASE reply'[r] # reply[r]
  <2>1. r = req[p] /\ (Inserts(p, reply'[r]) \/ Finds(p, reply'[r]))
    BY <1>0, <1>r, <1>2, AnswerShape, ToldRow DEF Answers
  <2>2. CASE Inserts(p, reply'[r])
    <3>1. NewRun(p).id = Cardinality(runs) + 1
      BY DEF NewRun
    <3>2. y = NewRun(p)
      BY <1>0, <2>2, <3>1 DEF Inserts, WithId
    <3> QED BY <1>0, <2>1, <2>2, <3>2, NewHolds DEF Inserts
  <2>3. CASE Finds(p, reply'[r])
    <3>1. reply'[r].row.id = row[p].id /\ UNCHANGED runs
      BY <2>3 DEF Finds, WithId
    <3>2. y \in {row[p]} \cup WithId(row[p].id)
      BY <2>3, <3>1 DEF Finds, WithId
    <3> QED BY <2>1, <2>3, <3>2 DEF Finds, WrittenOK
  <2> QED BY <2>1, <2>2, <2>3
<1> QED BY <1>1, <1>2

LEMMA WrittenHandlers ==
  ASSUME RowsInv, KnownOK, OrderOK, WrittenOK, [Next]_vars, NEW p \in Slots, Handler(p),
         NEW q \in Slots, pc'[q] = "reread", NEW y,
         y = row'[q] \/ (y \in runs' /\ y.id = row'[q].id)
  PROVE  Holds(y, req'[q], over[req'[q]])
<1>0. TypeInv
  BY DEF RowsInv
<1>1. req'[q] = req[q]
  BY <1>0, HandlerShape
<1>2. CASE q # p
  <2>1. pc[q] = "reread" /\ row'[q] = row[q]
    BY <1>0, <1>2, HandlerShape
  <2>2. req[q] \in Requests /\ over[req[q]] # None
    BY <1>0, <2>1 DEF OrderOK, TypeInv, HandlersOK, KnowsOK, Busy, Named
  <2>3. row[q].id \in Nat /\ row[q].id <= Cardinality(runs)
    BY <1>0, <2>1 DEF KnownOK, TypeInv, HandlersOK, KnowsOK, Found, Row
  <2>4. \A x \in {row[q]} \cup WithId(row[q].id) : Holds(x, req[q], over[req[q]])
    BY <2>1 DEF WrittenOK
  <2>5. ASSUME NEW z \in runs', z.id = row[q].id PROVE Holds(z, req[q], over[req[q]])
    <3>1. PICK x \in runs : SameKey(x, z) /\ WrittenFrom(z, x)
      BY <2>3, <2>5, RowsStep DEF Grows
    <3>2. Holds(x, req[q], over[req[q]])
      BY <2>4, <2>5, <3>1 DEF SameKey, WithId
    <3> QED BY <2>2, <3>1, <3>2, HoldsOn
  <2> QED BY <1>1, <2>1, <2>4, <2>5 DEF WithId
<1>3. CASE q = p /\ Writes(p, OnUpdate) = {}
  <2>1. Shared(req[p]) = {}
    BY <1>3 DEF Shared, Writes
  <2> QED BY <1>1, <1>3, <2>1 DEF Holds
<1>4. CASE /\ q = p /\ pc[p] = "update"
           /\ runs' = Updated(p) /\ row'[p] = With(row[p], p)
  <2>1. row[p] \in Row /\ req[p] \in Requests /\ runs \subseteq Row
    BY <1>0, <1>4 DEF TypeInv, TablesOK, HandlersOK, KnowsOK, Found, Busy, Named
  <2>2. row'[p].id = row[p].id
    BY <1>4, <2>1, WithType
  <2>3. ASSUME NEW z \in runs', z.id = row[p].id PROVE \E x \in Row : z = With(x, p)
    BY <1>4, <2>1, <2>3 DEF Updated
  <2>4. \E x \in Row : y = With(x, p)
    BY <1>4, <2>1, <2>2, <2>3 DEF WithId
  <2> QED BY <1>0, <1>1, <1>4, <2>4, WithHolds
<1> QED BY <1>0, <1>2, <1>3, <1>4, FoundShape DEF Found

LEMMA WrittenNext ==
  ASSUME RowsInv, KnownOK, OrderOK, WrittenOK, [Next]_vars
  PROVE  WrittenOK'
<1>0. TypeInv
  BY DEF RowsInv
<1>1. ASSUME NEW p \in Slots, Handler(p) PROVE WrittenOK'
  <2>1. UNCHANGED over
    BY <1>0, <1>1, HandlerShape
  <2>2. ASSUME NEW r \in Answers', NEW y \in {reply'[r].row} \cup {x \in runs' : x.id = reply'[r].row.id}
        PROVE  Holds(y, r, over'[r])
    BY <1>1, <2>1, <2>2, WrittenAnswers
  <2>3. ASSUME NEW q \in Slots, pc'[q] = "reread",
               NEW y \in {row'[q]} \cup {x \in runs' : x.id = row'[q].id}
        PROVE  Holds(y, req'[q], over'[req'[q]])
    BY <1>1, <2>1, <2>3, WrittenHandlers
  <2> QED BY <2>2, <2>3 DEF WrittenOK, WithId
<1>2. ASSUME NEW r \in Requests, NEW p \in Slots, ClientStep(r, p) PROVE WrittenOK'
  <2>1. /\ UNCHANGED <<runs, reply, row>>
        /\ \A q \in Requests : over'[q] = over[q] \/ over[q] = None
        /\ \A q \in Slots : pc'[q] = "reread" => pc[q] = "reread" /\ req'[q] = req[q]
    BY <1>0, <1>2, ClientShape
  <2>2. \A q \in Answers : over'[q] = over[q]
    BY <2>1 DEF OrderOK, Answers, HasReply
  <2>3. \A q \in Slots : pc[q] = "reread" => over'[req[q]] = over[req[q]]
    BY <1>0, <2>1 DEF OrderOK, TypeInv, HandlersOK, KnowsOK, Busy, Named
  <2> QED BY <2>1, <2>2, <2>3 DEF WrittenOK, Answers, WithId
<1>3. CASE Crash
  BY <1>3 DEF Crash, WrittenOK, Answers, WithId
<1>4. CASE UNCHANGED vars
  BY <1>4 DEF vars, locals, client, WrittenOK, Answers, WithId
<1> QED BY <1>0, <1>1, <1>2, <1>3, <1>4, StepCases

(***************************************************************************)
(* Updates by id.                                                          *)
(***************************************************************************)
\* Only a request by id means a row.
TargetOK == \A r \in Requests : target[r] # 0 => Input[r].by = "id"

\* A handler of a request by id that has looked the run up works on it.
MeantOK ==
    faults = 0 =>
        /\ \A p \in Slots : (pc[p] = "run" /\ target[req[p]] # 0) =>
              \E x \in WithId(target[req[p]]) : x.project = project[p] /\ x.name = name[p]
        /\ \A p \in Slots : pc[p] = "insert" => target[req[p]] = 0
        /\ \A p \in Slots : (pc[p] \in Found /\ target[req[p]] # 0) => row[p].id = target[req[p]]
        /\ \A r \in Answers : target[r] # 0 => reply[r].row.id = target[r] /\ ~reply[r].inserted

LEMMA TargetNext ==
  ASSUME TypeInv, TargetOK, [Next]_vars
  PROVE  TargetOK'
<1>1. ASSUME NEW r \in Requests, NEW p \in Slots, ClientStep(r, p) PROVE TargetOK'
  <2>1. \A q \in Requests : target'[q] = target[q] \/ (q = r /\ (target'[r] # 0 => Input[r].by = "id"))
    BY <1>1, ClientShape
  <2> QED BY <2>1 DEF TargetOK
<1> QED BY <1>1, StepCases, HandlerShape DEF TargetOK, Crash, vars, client

\* How a handler comes to know the name of the run.
LEMMA RunShape ==
  ASSUME TypeInv, TargetOK, NEW p \in Slots, Handler(p), pc'[p] = "run", target[req[p]] # 0
  PROVE  \/ faults' # 0
         \/ /\ UNCHANGED runs
            /\ \/ WithId(target[req[p]]) = {}
               \/ \E x \in WithId(target[req[p]]) : x.project = project'[p] /\ x.name = name'[p]
<1> USE DEF TypeInv, HandlersOK, Goto
<1>0. Input[req[p]].by = "id"
  BY HandlerShape DEF TargetOK
<1>1. ASSUME NEW a, Answer(p, a) PROVE FALSE
  BY <1>1 DEF Answer
<1>2. ~ProjectKnown(p)
  BY <1>0 DEF ProjectKnown
<1>3. ~FindEntity(p) /\ ~FindProject(p) /\ ~CreateProject(p) /\ ~FindRun(p) /\ ~InsertRun(p)
      /\ ~UpdateRun(p) /\ ~ReadAgain(p)
  BY <1>1, <1>2 DEF FindEntity, FindProject, CreateProject, FindRun, InsertRun, UpdateRun, ReadAgain
<1>4. FindById(p)
  BY <1>3 DEF Handler
<1>5. ASSUME NEW j, NEW n, NamedById(p, j, n) PROVE project'[p] = j /\ name'[p] = n
  BY <1>5 DEF NamedById
<1>6. Fails => faults' # 0
  BY BoundsNat DEF Fails, BoundsOK
<1> QED BY <1>1, <1>4, <1>5, <1>6 DEF FindById

LEMMA InsertShape ==
  ASSUME TypeInv, NEW p \in Slots, Handler(p), pc'[p] = "insert"
  PROVE  pc[p] = "run" /\ Keyed(project[p], name[p]) = {}
<1> USE DEF TypeInv, HandlersOK, Goto
<1>1. ASSUME NEW a, Answer(p, a) PROVE FALSE
  BY <1>1 DEF Answer
<1>2. ~ProjectKnown(p) /\ \A j, n : ~NamedById(p, j, n)
  BY DEF ProjectKnown, NamedById
<1>3. ~FindEntity(p) /\ ~FindProject(p) /\ ~CreateProject(p) /\ ~FindById(p) /\ ~InsertRun(p)
      /\ ~UpdateRun(p) /\ ~ReadAgain(p)
  BY <1>1, <1>2 DEF FindEntity, FindProject, CreateProject, FindById, InsertRun, UpdateRun, ReadAgain
<1>4. FindRun(p)
  BY <1>3 DEF Handler
<1> QED BY <1>1, <1>4 DEF FindRun

LEMMA MeantNext ==
  ASSUME RowsInv, KnownOK, OrderOK, TargetOK, MeantOK, [Next]_vars
  PROVE  MeantOK'
<1>0. /\ TypeInv /\ IdsOK /\ OneRunPerName /\ Grows /\ Cardinality(runs) \in Nat
      /\ \A x \in runs : x.id \in Nat
  BY RowsStep
<1>1. ASSUME NEW p \in Slots, Handler(p), faults' = 0 PROVE MeantOK'
  <2>1. faults = 0
    BY <1>0, <1>1 DEF TypeInv, BoundsOK, Succeeds, Fails, Handler, FindEntity, FindProject,
       CreateProject, FindById, FindRun, InsertRun, UpdateRun, ReadAgain
  <2>2. UNCHANGED target /\ \A q \in Slots : pc'[q] \in Named => req'[q] = req[q] /\ req[q] \in Requests
    BY <1>0, <1>1, HandlerShape DEF TypeInv, HandlersOK, KnowsOK, Busy, Named
  <2>3. ASSUME NEW q \in Slots, pc'[q] = "run", target[req[q]] # 0
        PROVE  \E y \in runs' : y.id = target[req[q]] /\ y.project = project'[q] /\ y.name = name'[q]
    <3>1. CASE q # p
      <4>1. PICK x \in WithId(target[req[q]]) : x.project = project[q] /\ x.name = name[q]
        BY <1>0, <1>1, <2>1, <2>3, <3>1, HandlerShape DEF MeantOK
      <4>2. PICK y \in runs' : SameKey(x, y)
        BY <1>0, <4>1 DEF Grows, WithId
      <4>3. project'[q] = project[q] /\ name'[q] = name[q]
        BY <1>0, <1>1, <3>1, HandlerShape
      <4>4. y.id = target[req[q]] /\ y.project = project[q] /\ y.name = name[q]
        BY <4>1, <4>2 DEF SameKey, WithId
      <4> QED BY <4>2, <4>3, <4>4
    <3>2. CASE q = p
      <4>1. target[req[p]] \in 1..Cardinality(runs)
        BY <1>0, <2>2, <2>3, <3>2 DEF KnownOK, TypeInv, ClientsOK, Named
      <4>2. WithId(target[req[p]]) # {}
        BY <1>0, <4>1 DEF IdsOK, WithId
      <4> QED BY <1>0, <1>1, <2>3, <3>2, <4>2, RunShape DEF WithId
    <3> QED BY <3>1, <3>2
  <2>4. ASSUME NEW q \in Slots, pc'[q] = "insert" PROVE target[req[q]] = 0
    <3>1. CASE q # p
      BY <1>0, <1>1, <2>1, <2>4, <3>1, HandlerShape DEF MeantOK
    <3>2. CASE q = p
      <4>1. pc[p] = "run" /\ Keyed(project[p], name[p]) = {}
        BY <1>0, <1>1, <2>4, <3>2, InsertShape
      <4> QED BY <2>1, <3>2, <4>1 DEF MeantOK, Keyed, WithId
    <3> QED BY <3>1, <3>2
  <2>5. ASSUME NEW q \in Slots, pc'[q] \in Found, target[req[q]] # 0 PROVE row'[q].id = target[req[q]]
    <3>1. CASE q # p
      BY <1>0, <1>1, <2>1, <2>5, <3>1, HandlerShape DEF MeantOK
    <3>2. CASE q = p /\ pc[p] = "run" /\ row'[p] \in Keyed(project[p], name[p])
      <4>1. PICK x \in WithId(target[req[p]]) : x.project = project[p] /\ x.name = name[p]
        BY <2>1, <2>5, <3>2 DEF MeantOK
      <4> QED BY <1>0, <3>2, <4>1 DEF OneRunPerName, Keyed, WithId
    <3>3. CASE q = p /\ pc[p] = "update" /\ row'[p] = With(row[p], p)
      <4>1. row[p] \in Row /\ req[p] \in Requests
        BY <1>0, <3>3 DEF TypeInv, HandlersOK, KnowsOK, Found, Busy, Named
      <4>2. row'[p].id = row[p].id
        BY <3>3, <4>1, WithType
      <4> QED BY <2>1, <2>5, <3>3, <4>2 DEF MeantOK, Found
    <3> QED BY <1>0, <1>1, <2>5, <3>1, <3>2, <3>3, FoundShape
  <2>6. ASSUME NEW r \in Answers', target[r] # 0
        PROVE  reply'[r].row.id = target[r] /\ ~reply'[r].inserted
    <3>1. CASE reply'[r] = reply[r]
      BY <2>1, <2>6, <3>1 DEF MeantOK, Answers
    <3>2. CASE reply'[r] # reply[r]
      <4>1. r = req[p] /\ (Inserts(p, reply'[r]) \/ Finds(p, reply'[r]))
        BY <1>0, <1>1, <3>2, AnswerShape, ToldRow DEF Answers
      <4> QED BY <2>1, <2>6, <4>1 DEF MeantOK, Inserts, Finds, WithId, Found
    <3> QED BY <3>1, <3>2
  <2>7. Found \subseteq Named /\ "run" \in Named /\ "insert" \in Named
    BY DEF Found, Named
  <2> QED BY <2>2, <2>3, <2>4, <2>5, <2>6, <2>7 DEF MeantOK, WithId
<1>2. ASSUME NEW r \in Requests, NEW p \in Slots, ClientStep(r, p) PROVE MeantOK'
  <2>1. /\ UNCHANGED <<runs, reply, row, project, name, faults>>
        /\ \A q \in Requests : target'[q] = target[q] \/ over[q] = None
        /\ \A q \in Slots : pc'[q] \in Named => pc'[q] = pc[q] /\ req'[q] = req[q]
    BY <1>0, <1>2, ClientShape DEF Named
  <2>2. \A q \in Answers : target'[q] = target[q]
    BY <2>1 DEF OrderOK, Answers, HasReply
  <2>3. \A q \in Slots : pc[q] \in Named => target'[req[q]] = target[req[q]]
    BY <1>0, <2>1 DEF OrderOK, TypeInv, HandlersOK, KnowsOK, Busy, Named
  <2> QED BY <2>1, <2>2, <2>3 DEF MeantOK, Answers, WithId, Named, Found
<1>3. CASE Crash
  BY <1>3 DEF Crash, MeantOK, Answers, Found
<1>4. CASE UNCHANGED vars
  BY <1>4 DEF vars, locals, client, bounds, MeantOK, Answers, WithId
<1>5. faults' # 0 => MeantOK'
  BY DEF MeantOK
<1> QED BY <1>0, <1>1, <1>2, <1>3, <1>4, <1>5, StepCases

(***************************************************************************)
(* The invariant, and what follows from it.                                *)
(***************************************************************************)
Inv == /\ RowsInv /\ KnownOK /\ OrderOK
       /\ InsertedOnce /\ WrittenOK /\ TargetOK /\ MeantOK

LEMMA InvInit == Init => Inv
<1> SUFFICES ASSUME Init PROVE Inv
  OBVIOUS
<1>1. RowsInv
  BY TypeInvInit, RowsInit DEF RowsInv
<1>2. Answers = {} /\ Cardinality(runs) = 0
  BY FS_EmptySet DEF Init, Answers
<1>3. KnownOK /\ OrderOK
  BY <1>2 DEF Init, KnownOK, OrderOK, HasReply, Found
<1>4. InsertedOnce /\ WrittenOK /\ TargetOK /\ MeantOK
  BY <1>2 DEF Init, InsertedOnce, WrittenOK, TargetOK, MeantOK, Found
<1> QED BY <1>1, <1>3, <1>4 DEF Inv

LEMMA InvNext == Inv /\ [Next]_vars => Inv'
<1> SUFFICES ASSUME Inv, [Next]_vars PROVE Inv'
  OBVIOUS
<1>1. RowsInv'
  BY RowsNext, TypeInvNext DEF Inv, RowsInv
<1>2. KnownOK' /\ OrderOK' /\ InsertedOnce'
  BY KnownNext, OrderNext, InsertedNext DEF Inv, RowsInv
<1>3. WrittenOK' /\ TargetOK' /\ MeantOK'
  BY WrittenNext, TargetNext, MeantNext DEF Inv, RowsInv
<1> QED BY <1>1, <1>2, <1>3 DEF Inv

LEMMA Invariance == Spec => []Inv
  BY InvInit, InvNext, PTL DEF Spec

\* However requests overlap, are repeated or die halfway, a project has one run
\* of a name (the unique index of models.go, UpsertRun in run.go).
THEOREM UniqueRuns == Spec => []OneRunPerName
<1>1. Inv => OneRunPerName
  BY DEF Inv, RowsInv
<1> QED BY <1>1, Invariance, PTL

\* Of all clients that ask for one run at most one is told that it is new: the
\* answer of the INSERT says so, and that of an update does not (run.go).
THEOREM NewIsToldOnce == Spec => []InsertedOnce
<1>1. Inv => InsertedOnce
  BY DEF Inv
<1> QED BY <1>1, Invariance, PTL

\* An answered write of a column stays until a request that was not done with
\* before it writes the column: an update sets only its own columns (run.go),
\* though the row was read before.
THEOREM NoAnsweredWriteIsLost == Spec => []AnsweredFieldsHold
<1>1. Inv => AnsweredFieldsHold
  BY WrittenImplies DEF Inv
<1> QED BY <1>1, Invariance, PTL

\* Without failing statements a request by id gets the row of that id, of
\* whatever project (upsert_bucket.go).
THEOREM IdsMeanTheirRuns == Spec => []IdMeansThatRun
<1>1. Inv => IdMeansThatRun
  BY DEF Inv, MeantOK, IdMeansThatRun
<1> QED BY <1>1, Invariance, PTL
=============================================================================
