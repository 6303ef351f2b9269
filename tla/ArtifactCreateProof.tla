------------------------ MODULE ArtifactCreateProof ------------------------
(***************************************************************************)
(* Proofs about createArtifact for every set of requests, client ids,      *)
(* collections, types and runs, every number of overlapping requests and   *)
(* every number of failing statements.                                     *)
(***************************************************************************)
EXTENDS ArtifactCreate, TLAPS

LEMMA MaxFaultsNat == MaxFaults \in Nat
  BY CreateAssumption DEF CreateAssumption

\* However a statement ends, the number of failures stays within its bound.
LEMMA FaultsBounded ==
  ASSUME faults \in 0..MaxFaults, Succeeds \/ Fails
  PROVE  faults' \in 0..MaxFaults /\ (faults' = 0 => faults = 0)
  BY MaxFaultsNat DEF Succeeds, Fails

\* The part of the type invariant about where the requests are.
ControlOK ==
  /\ pc \in [Requests -> Steps]
  /\ input \in [Requests -> Input \cup {None}]
  /\ \A r \in Requests : pc[r] \in Working => input[r] \in Input
  /\ \A r \in Requests : pc[r] = "usage" => creator[r] # None
  /\ result \in [Requests -> Requests \cup Errors \cup {None}]

\* The part of the type invariant about the rows.
RowsOK ==
  /\ project \in BOOLEAN
  /\ runs \in SUBSET Runs /\ display \in [Runs -> Displays \cup {None}]
  /\ types \in [Types -> Requests \cup {None}]
  /\ colls \in [Colls -> CollRow \cup {None}]
  /\ arts \in [Requests -> ArtRow \cup {None}]
  /\ usages \in SUBSET (Runs \X Requests)

LocalsOK ==
  /\ creator \in [Requests -> Runs \cup {None}]
  /\ next \in [Requests -> Nat]
  /\ seen \in [Requests -> SUBSET Requests]
  /\ known \in [Requests -> BOOLEAN]
  /\ faults \in 0..MaxFaults

\* TypeOK is inductive together with the fact that only a request that found
\* its run gets to record its lineage.
TypeInv == ControlOK /\ RowsOK /\ LocalsOK

\* The request that executes a statement goes on to another one or replies.
LEMMA GotoControl ==
  ASSUME ControlOK, NEW r \in Requests, pc[r] \in Working, UNCHANGED input,
         \A q \in Requests \ {r} : creator'[q] = creator[q],
         NEW s \in Steps \ {"usage"}, Goto(r, s)
  PROVE  ControlOK'
  BY DEF ControlOK, Goto, Steps, Working

LEMMA ReplyControl ==
  ASSUME ControlOK, NEW r \in Requests, pc[r] \in Working, UNCHANGED input,
         \A q \in Requests \ {r} : creator'[q] = creator[q],
         NEW x \in Requests \cup Errors, Reply(r, x)
  PROVE  ControlOK'
  BY DEF ControlOK, Reply, Steps, Working

LEMMA StepControl ==
  ASSUME ControlOK, NEW r \in Requests, pc[r] \in Working, UNCHANGED input,
         \A q \in Requests \ {r} : creator'[q] = creator[q],
         \/ \E s \in Steps \ {"usage"} : Goto(r, s)
         \/ \E x \in Requests \cup Errors : Reply(r, x)
  PROVE  ControlOK'
  BY GotoControl, ReplyControl

LEMMA TypeInvInit == Init => TypeInv
  BY MaxFaultsNat DEF Init, TypeInv, ControlOK, RowsOK, LocalsOK, Steps, Working

LEMMA TypeInvNext == TypeInv /\ [Next]_vars => TypeInv'
<1>0. SUFFICES ASSUME ControlOK, RowsOK, LocalsOK, [Next]_vars
               PROVE  ControlOK' /\ RowsOK' /\ LocalsOK'
  BY DEF TypeInv
<1> USE DEF dbVars, runVars, asked
<1>1. ASSUME NEW r \in Requests, Receive(r) PROVE ControlOK' /\ RowsOK' /\ LocalsOK'
  <2>0. Inputs \subseteq Input
    BY CreateAssumption DEF CreateAssumption
  <2>1. ControlOK'
    BY <1>0, <1>1, <2>0 DEF Receive, ControlOK, Goto, Steps, Working
  <2>2. RowsOK'
    BY <1>0, <1>1 DEF Receive, RowsOK
  <2>3. LocalsOK'
    BY <1>0, <1>1 DEF Receive, LocalsOK, Stored
  <2> QED
    BY <2>1, <2>2, <2>3
<1>2. ASSUME NEW r \in Requests, FindProject(r) PROVE ControlOK' /\ RowsOK' /\ LocalsOK'
  <2>1. ControlOK'
    BY <1>0, <1>2, StepControl DEF FindProject, AfterProject, Steps, Working
  <2>2. RowsOK'
    BY <1>0, <1>2 DEF FindProject, RowsOK
  <2>3. LocalsOK'
    BY <1>0, <1>2, FaultsBounded DEF FindProject, LocalsOK
  <2> QED
    BY <2>1, <2>2, <2>3
<1>3. ASSUME NEW r \in Requests, RereadProject(r) PROVE ControlOK' /\ RowsOK' /\ LocalsOK'
  <2>1. ControlOK'
    BY <1>0, <1>3, StepControl DEF RereadProject, AfterProject, Errors, Steps, Working
  <2>2. RowsOK'
    BY <1>0, <1>3 DEF RereadProject, RowsOK
  <2>3. LocalsOK'
    BY <1>0, <1>3, FaultsBounded DEF RereadProject, LocalsOK
  <2> QED
    BY <2>1, <2>2, <2>3
<1>4. ASSUME NEW r \in Requests, NewProject(r) PROVE ControlOK' /\ RowsOK' /\ LocalsOK'
  <2>1. ControlOK'
    BY <1>0, <1>4, StepControl DEF NewProject, AfterProject, Errors, Steps, Working
  <2>2. RowsOK'
    BY <1>0, <1>4 DEF NewProject, RowsOK
  <2>3. LocalsOK'
    BY <1>0, <1>4, FaultsBounded DEF NewProject, LocalsOK
  <2> QED
    BY <2>1, <2>2, <2>3
<1>5. ASSUME NEW r \in Requests, FindRun(r) PROVE ControlOK' /\ RowsOK' /\ LocalsOK'
  <2>1. input[r] \in Input /\ runs \subseteq Runs
    BY <1>0, <1>5 DEF FindRun, ControlOK, RowsOK, Working
  <2>2. ControlOK'
    BY <1>0, <1>5, StepControl DEF FindRun, Found, LocalsOK, Steps, Working
  <2>3. RowsOK'
    BY <1>0, <1>5 DEF FindRun, RowsOK
  <2>4. LocalsOK'
    BY <1>0, <1>5, <2>1, FaultsBounded DEF FindRun, Found, LocalsOK
  <2> QED
    BY <2>2, <2>3, <2>4
<1>18. ASSUME NEW r \in Requests, FindRunByDisplay(r) PROVE ControlOK' /\ RowsOK' /\ LocalsOK'
  <2>1. Showing(input[r].run) \subseteq Runs
    BY <1>0 DEF Showing, RowsOK
  <2>2. ControlOK'
    BY <1>0, <1>18, StepControl DEF FindRunByDisplay, Found, LocalsOK, Errors, Steps, Working
  <2>3. RowsOK'
    BY <1>0, <1>18 DEF FindRunByDisplay, RowsOK
  <2>4. LocalsOK'
    BY <1>0, <1>18, <2>1, FaultsBounded DEF FindRunByDisplay, Found, LocalsOK
  <2> QED
    BY <2>2, <2>3, <2>4
<1>6. ASSUME NEW r \in Requests, FindType(r) PROVE ControlOK' /\ RowsOK' /\ LocalsOK'
  <2>1. ControlOK'
    BY <1>0, <1>6, StepControl DEF FindType, Errors, Steps, Working
  <2>2. RowsOK'
    BY <1>0, <1>6 DEF FindType, RowsOK
  <2>3. LocalsOK'
    BY <1>0, <1>6, FaultsBounded DEF FindType, LocalsOK
  <2> QED
    BY <2>1, <2>2, <2>3
<1>7. ASSUME NEW r \in Requests, NewType(r) PROVE ControlOK' /\ RowsOK' /\ LocalsOK'
  <2>0. input[r] \in Input
    BY <1>0, <1>7 DEF NewType, ControlOK, Working
  <2>1. ControlOK'
    BY <1>0, <1>7, StepControl DEF NewType, Steps, Working
  <2>2. RowsOK'
    BY <1>0, <1>7, <2>0 DEF NewType, Input, Working, RowsOK
  <2>3. LocalsOK'
    BY <1>0, <1>7, FaultsBounded DEF NewType, LocalsOK
  <2> QED
    BY <2>1, <2>2, <2>3
<1>8. ASSUME NEW r \in Requests, RefetchType(r) PROVE ControlOK' /\ RowsOK' /\ LocalsOK'
  <2>1. ControlOK'
    BY <1>0, <1>8, StepControl DEF RefetchType, Errors, Steps, Working
  <2>2. RowsOK'
    BY <1>0, <1>8 DEF RefetchType, RowsOK
  <2>3. LocalsOK'
    BY <1>0, <1>8, MaxFaultsNat DEF RefetchType, LocalsOK
  <2> QED
    BY <2>1, <2>2, <2>3
<1>9. ASSUME NEW r \in Requests, FindColl(r) PROVE ControlOK' /\ RowsOK' /\ LocalsOK'
  <2>1. ControlOK'
    BY <1>0, <1>9, StepControl DEF FindColl, AfterColl, Errors, Steps, Working
  <2>2. RowsOK'
    BY <1>0, <1>9 DEF FindColl, RowsOK
  <2>3. LocalsOK'
    BY <1>0, <1>9, FaultsBounded DEF FindColl, LocalsOK
  <2> QED
    BY <2>1, <2>2, <2>3
<1>10. ASSUME NEW r \in Requests, NewColl(r) PROVE ControlOK' /\ RowsOK' /\ LocalsOK'
  <2>0. input[r] \in Input
    BY <1>0, <1>10 DEF NewColl, ControlOK, Working
  <2>1. ControlOK'
    BY <1>0, <1>10, StepControl DEF NewColl, AfterColl, Steps, Working
  <2>2. RowsOK'
    <3>1. [id |-> r, type |-> input[r].type] \in CollRow /\ input[r].coll \in Colls
      BY <2>0 DEF Input, CollRow
    <3> QED
      BY <1>0, <1>10, <3>1 DEF NewColl, RowsOK
  <2>3. LocalsOK'
    BY <1>0, <1>10, FaultsBounded DEF NewColl, LocalsOK
  <2> QED
    BY <2>1, <2>2, <2>3
<1>11. ASSUME NEW r \in Requests, RefetchColl(r) PROVE ControlOK' /\ RowsOK' /\ LocalsOK'
  <2>1. ControlOK'
    BY <1>0, <1>11, StepControl DEF RefetchColl, AfterColl, Errors, Steps, Working
  <2>2. RowsOK'
    BY <1>0, <1>11 DEF RefetchColl, RowsOK
  <2>3. LocalsOK'
    BY <1>0, <1>11, MaxFaultsNat DEF RefetchColl, LocalsOK
  <2> QED
    BY <2>1, <2>2, <2>3
<1>12. ASSUME NEW r \in Requests, Dedup(r) PROVE ControlOK' /\ RowsOK' /\ LocalsOK'
  <2>1. ControlOK'
    BY <1>0, <1>12, StepControl DEF Dedup, SameClient, Stored, Steps, Working
  <2>2. RowsOK'
    BY <1>0, <1>12 DEF Dedup, RowsOK
  <2>3. LocalsOK'
    BY <1>0, <1>12, FaultsBounded DEF Dedup, LocalsOK
  <2> QED
    BY <2>1, <2>2, <2>3
<1>13. ASSUME NEW r \in Requests, ReadMax(r) PROVE ControlOK' /\ RowsOK' /\ LocalsOK'
  <2>0. \A m \in InColl(input[r].coll) : arts[m].version + 1 \in Nat
    BY <1>0 DEF RowsOK, InColl, Stored, ArtRow
  <2>1. ControlOK'
    BY <1>0, <1>13, StepControl DEF ReadMax, Steps, Working
  <2>2. RowsOK'
    BY <1>0, <1>13 DEF ReadMax, RowsOK
  <2>3. LocalsOK'
    BY <1>0, <1>13, FaultsBounded, <2>0 DEF ReadMax, LocalsOK
  <2> QED
    BY <2>1, <2>2, <2>3
<1>14. ASSUME NEW r \in Requests, Insert(r) PROVE ControlOK' /\ RowsOK' /\ LocalsOK'
  <2>0. input[r] \in Input /\ next[r] \in Nat
    BY <1>0, <1>14 DEF Insert, ControlOK, LocalsOK, Working
  <2>1. ControlOK'
    <3>1. CASE Goto(r, "usage") /\ creator[r] # None
      BY <1>0, <1>14, <3>1 DEF Insert, ControlOK, Goto, Steps, Working
    <3>2. CASE Reply(r, r) \/ Reply(r, "artifact")
      BY <1>0, <1>14, <3>2, StepControl DEF Insert, Errors, Working
    <3> QED
      BY <1>14, <3>1, <3>2 DEF Insert
  <2>2. RowsOK'
    BY <1>0, <1>14, <2>0 DEF Insert, Input, ArtRow, RowsOK, LocalsOK
  <2>3. LocalsOK'
    BY <1>0, <1>14, FaultsBounded DEF Insert, LocalsOK
  <2> QED
    BY <2>1, <2>2, <2>3
<1>15. ASSUME NEW r \in Requests, RecordUsage(r) PROVE ControlOK' /\ RowsOK' /\ LocalsOK'
  <2>0. creator[r] \in Runs
    BY <1>0, <1>15 DEF RecordUsage, ControlOK, LocalsOK, Working
  <2>1. ControlOK'
    BY <1>0, <1>15, StepControl DEF RecordUsage, Steps, Working
  <2>2. RowsOK'
    BY <1>0, <1>15, <2>0 DEF RecordUsage, RowsOK
  <2>3. LocalsOK'
    BY <1>0, <1>15, FaultsBounded DEF RecordUsage, LocalsOK
  <2> QED
    BY <2>1, <2>2, <2>3
<1>16. ASSUME Crash PROVE ControlOK' /\ RowsOK' /\ LocalsOK'
  BY <1>0, <1>16 DEF Crash, ControlOK, RowsOK, LocalsOK, Steps, Working
<1>19. ASSUME UpsertRun PROVE ControlOK' /\ RowsOK' /\ LocalsOK'
  BY <1>0, <1>19, CreateAssumption DEF UpsertRun, CreateAssumption, ControlOK, RowsOK, LocalsOK
<1>17. ASSUME UNCHANGED vars PROVE ControlOK' /\ RowsOK' /\ LocalsOK'
  BY <1>0, <1>17 DEF vars, asked, ControlOK, RowsOK, LocalsOK
<1> QED
  BY <1>0, <1>1, <1>2, <1>3, <1>4, <1>5, <1>6, <1>7, <1>8, <1>9, <1>10, <1>11,
     <1>12, <1>13, <1>14, <1>15, <1>16, <1>17, <1>18, <1>19 DEF Next

\* Every row, argument and program counter stays in its type whatever
\* statement of the handler runs, fails or is cut off.
THEOREM TypeCorrect == Spec => []TypeOK
<1>1. TypeInv => TypeOK
  BY DEF TypeInv, ControlOK, RowsOK, LocalsOK, TypeOK
<1> QED
  BY <1>1, TypeInvInit, TypeInvNext, PTL DEF Spec
-----------------------------------------------------------------------------
(***************************************************************************)
(* The safety invariant.  Each request carries what it has established so  *)
(* far (ReqInv); rows are only ever added (Grows), so what a request has   *)
(* read stays true while others run.                                       *)
(***************************************************************************)
NotInserted == (Working \ {"usage"}) \cup {"idle"}
PastProject == {"run", "run by display", "type", "new type", "refetch type", "coll", "new coll",
                "refetch coll", "dedup", "max", "insert", "usage"}
PastType    == {"coll", "new coll", "refetch coll", "dedup", "max", "insert", "usage"}
PastColl    == {"dedup", "max", "insert", "usage"}

\* The row r would insert continues the collection.
Continues(r) ==
  \/ next[r] = 0
  \/ \E b \in InColl(input[r].coll) : arts[b].version + 1 = next[r]

\* ... and is later than what was there when r arrived.
IsLater(r) ==
  \A b \in seen[r] : arts[b].coll = input[r].coll => arts[b].version < next[r]

ReqInv(r) ==
  /\ seen[r] \subseteq Stored
  /\ pc[r] \in NotInserted => arts[r] = None
  /\ pc[r] \in PastProject => project
  /\ pc[r] \in PastType => types[input[r].type] # None
  /\ pc[r] \in PastColl => colls[input[r].coll] # None
  /\ pc[r] = "insert" => Continues(r)
  /\ pc[r] = "insert" /\ faults = 0 => IsLater(r)
  /\ pc[r] \in {"max", "insert", "usage"} /\ faults = 0 => ~IsRetry(r)
  /\ pc[r] = "usage" => arts[r] # None /\ arts[r].run = creator[r]
  /\ pc[r] # "done" => result[r] = None

\* The references of RowsReferToRows other than those to runs.
RowsLinked ==
  /\ \A a \in Stored : colls[arts[a].coll] # None
  /\ \A c \in Colls : colls[c] # None => types[colls[c].type] # None
  /\ \A t \in Types : types[t] # None => project
  /\ \A u \in usages : u[2] \in Stored /\ arts[u[2]].run = u[1]
  /\ \A r \in Requests : result[r] \in Requests => result[r] \in Stored

Inv ==
  /\ \A r \in Requests : ReqInv(r)
  /\ VersionsContiguous
  /\ LaterCallsGetLaterVersions
  /\ RetryIsDeduplicated
  /\ RowsLinked

\* Stored rows stay as they are, and failures are not forgotten.
Grows ==
  /\ project => project'
  /\ \A t \in Types : types[t] # None => types'[t] # None
  /\ \A c \in Colls : colls[c] # None => colls'[c] = colls[c]
  /\ \A a \in Stored : arts'[a] = arts[a]
  /\ faults' = 0 => faults = 0

\* A statement of request r leaves the locals of the other requests alone.
OnlyOf(r) ==
  \A q \in Requests \ {r} :
    /\ pc'[q] = pc[q] \/ (pc'[q] = "killed" /\ pc[q] \in Working)
    /\ input'[q] = input[q]
    /\ next'[q] = next[q]
    /\ creator'[q] = creator[q]
    /\ result'[q] = result[q]
    /\ seen'[q] = seen[q]
    /\ arts'[q] = arts[q]

\* What a request has established outlives the steps of the others.
LEMMA OthersKeep ==
  ASSUME TypeInv, TypeInv', Grows, NEW q \in Requests, ReqInv(q),
         pc'[q] = pc[q] \/ (pc'[q] = "killed" /\ pc[q] \in Working),
         input'[q] = input[q], next'[q] = next[q], result'[q] = result[q], creator'[q] = creator[q],
         seen'[q] = seen[q], arts'[q] = arts[q]
  PROVE  ReqInv(q)'
<1>1. \A a \in Stored : a \in Stored' /\ arts'[a] = arts[a]
  BY DEF Grows, Stored
<1>2. seen[q] \subseteq Stored
  BY DEF ReqInv
<1>3. (seen[q] \subseteq Stored)'
  BY <1>1, <1>2
<1>4. ASSUME pc[q] \in Working PROVE input[q].type \in Types /\ input[q].coll \in Colls
  BY <1>4 DEF TypeInv, ControlOK, Input
<1>5. (pc[q] \in NotInserted => arts[q] = None)'
  BY DEF ReqInv, NotInserted, Working
<1>6. (pc[q] \in PastProject => project)'
  BY DEF ReqInv, Grows, PastProject
<1>7. (pc[q] \in PastType => types[input[q].type] # None)'
  BY <1>4 DEF ReqInv, Grows, PastType, Working
<1>8. (pc[q] \in PastColl => colls[input[q].coll] # None)'
  BY <1>4 DEF ReqInv, Grows, PastColl, Working
<1>9. (pc[q] = "insert" => Continues(q))'
  BY <1>1 DEF ReqInv, Continues, InColl
<1>10. (pc[q] = "insert" /\ faults = 0 => IsLater(q))'
  BY <1>1, <1>2 DEF ReqInv, IsLater, Grows
<1>11. (pc[q] \in {"max", "insert", "usage"} /\ faults = 0 => ~IsRetry(q))'
  BY <1>1, <1>2 DEF ReqInv, IsRetry, Grows, Working
<1>12. (pc[q] = "usage" => arts[q] # None /\ arts[q].run = creator[q])'
  BY DEF ReqInv
<1>13. (pc[q] # "done" => result[q] = None)'
  BY DEF ReqInv, Working
<1> QED
  BY <1>3, <1>5, <1>6, <1>7, <1>8, <1>9, <1>10, <1>11, <1>12, <1>13 DEF ReqInv

\* RetryIsDeduplicated for one request.
RetryOK(r) ==
  IsRetry(r) =>
    /\ arts[r] = None
    /\ result[r] \in Requests => arts[result[r]].client = input[r].client

LEMMA OthersRetryOK ==
  ASSUME TypeInv, Grows, Inv, NEW r \in Requests, OnlyOf(r),
         NEW q \in Requests \ {r}, faults' = 0
  PROVE  RetryOK(q)'
<1>1. RetryOK(q) /\ seen[q] \subseteq Stored
  BY DEF Inv, RetryIsDeduplicated, RetryOK, ReqInv, Grows
<1>2. \A a \in Stored : arts'[a] = arts[a]
  BY DEF Grows
<1>3. IsRetry(q)' => IsRetry(q)
  BY <1>1, <1>2 DEF IsRetry, OnlyOf, Working
<1>4. result[q] \in Requests => result[q] \in Stored
  BY DEF Inv, RowsLinked
<1> QED
  BY <1>1, <1>2, <1>3, <1>4 DEF RetryOK, OnlyOf

\* A statement that writes no artifact and no lineage preserves the invariant
\* if the request itself has established what it needs.
LEMMA QuietStep ==
  ASSUME TypeInv, TypeInv', Inv, NEW r \in Requests, Grows, OnlyOf(r),
         UNCHANGED <<arts, usages>>,
         seen'[r] = seen[r] \/ arts[r] = None,
         \A c \in Colls : colls'[c] # None => types'[colls'[c].type] # None,
         \A t \in Types : types'[t] # None => project',
         result'[r] \in Requests => result'[r] \in Stored,
         ReqInv(r)',
         faults' = 0 => RetryOK(r)'
  PROVE  Inv'
<1>1. \A q \in Requests : ReqInv(q)'
  BY OthersKeep DEF Inv, OnlyOf
<1>2. VersionsContiguous'
  BY DEF Inv, VersionsContiguous, Stored, InColl
<1>3. LaterCallsGetLaterVersions'
  BY DEF Inv, LaterCallsGetLaterVersions, Stored, OnlyOf, Grows
<1>4. RetryIsDeduplicated'
  BY OthersRetryOK DEF RetryIsDeduplicated, RetryOK
<1>5. RowsLinked'
  <2>1. Stored' = Stored /\ \A a \in Stored : arts'[a] = arts[a]
    BY DEF Stored
  <2>2. \A a \in Stored : arts[a].coll \in Colls
    BY DEF TypeInv, RowsOK, Stored, ArtRow
  <2>3. \A q \in Requests : result'[q] \in Requests => result'[q] \in Stored
    BY DEF Inv, RowsLinked, OnlyOf
  <2>4. \A a \in Stored : colls'[arts[a].coll] # None
    BY <2>2 DEF Inv, RowsLinked, Grows
  <2>5. \A u \in usages : u[2] \in Stored /\ arts[u[2]].run = u[1]
    BY DEF Inv, RowsLinked
  <2> QED
    BY <2>1, <2>3, <2>4, <2>5 DEF RowsLinked
<1> QED
  BY <1>1, <1>2, <1>3, <1>4, <1>5 DEF Inv

\* A request that has stored nothing and is not answered with an artifact has
\* nothing to answer for.
LEMMA UnansweredOK ==
  ASSUME NEW r \in Requests, UNCHANGED arts, arts[r] = None,
         result'[r] \in Errors \cup {None}
  PROVE  RetryOK(r)' /\ (result'[r] \in Requests => result'[r] \in Stored)
<1>1. result'[r] \notin Requests
  BY CreateAssumption DEF CreateAssumption
<1> QED
  BY <1>1 DEF RetryOK

\* What a request needs to have established when it moves on before the
\* artifact is inserted.
LEMMA EarlyReq ==
  ASSUME TypeInv, NEW r \in Requests, ReqInv(r), pc[r] \in NotInserted, Grows,
         UNCHANGED <<input, arts, seen>>,
         pc'[r] \in (NotInserted \ {"idle", "insert"}) \cup {"done"},
         pc'[r] = "max" => ~IsRetry(r)',
         pc'[r] # "done" => result'[r] = None,
         pc'[r] \in PastProject => project',
         pc'[r] \in PastType => types'[input[r].type] # None,
         pc'[r] \in PastColl => colls'[input[r].coll] # None
  PROVE  ReqInv(r)'
<1>1. Stored' = Stored
  BY DEF Stored
<1>2. seen[r] \subseteq Stored /\ arts[r] = None
  BY DEF ReqInv
<1> QED
  BY <1>1, <1>2 DEF ReqInv, NotInserted, Working

\* Where a statement leaves its own request, and that it leaves the others.
OthersStay(r) ==
  \A q \in Requests \ {r} : pc'[q] = pc[q] /\ result'[q] = result[q]

LEMMA GotoMoves ==
  ASSUME ControlOK, NEW r \in Requests, NEW s \in Steps, Goto(r, s)
  PROVE  pc'[r] = s /\ result'[r] = result[r] /\ OthersStay(r)
  BY DEF ControlOK, Goto, OthersStay

LEMMA ReplyMoves ==
  ASSUME ControlOK, NEW r \in Requests, NEW x, Reply(r, x)
  PROVE  pc'[r] = "done" /\ result'[r] = x /\ OthersStay(r)
  BY DEF ControlOK, Reply, OthersStay

LEMMA AfterCollMoves ==
  ASSUME ControlOK, NEW r \in Requests, Goto(r, AfterColl(r)), UNCHANGED input
  PROVE  /\ pc'[r] \in {"dedup", "max"} /\ result'[r] = result[r] /\ OthersStay(r)
         /\ pc'[r] = "max" => ~IsRetry(r)'
<1>1. AfterColl(r) \in {"dedup", "max"} /\ (AfterColl(r) = "max" => input[r].client = None)
  BY DEF AfterColl
<1>2. pc'[r] = AfterColl(r) /\ result'[r] = result[r] /\ OthersStay(r)
  BY <1>1, GotoMoves DEF Steps, Working
<1> QED
  BY <1>1, <1>2 DEF IsRetry

\* A row of the type or the collection is there once it has been inserted.
LEMMA NewTypeRow ==
  ASSUME ControlOK, RowsOK, NEW r \in Requests, NewType(r)
  PROVE  /\ \A t \in Types : types[t] # None => types'[t] # None
         /\ pc'[r] = "coll" => types'[input[r].type] # None
         /\ \A t \in Types : types'[t] # None => types[t] # None \/ project' = project
<1>1. input[r].type \in Types /\ r # None
  BY CreateAssumption DEF CreateAssumption, NewType, ControlOK, Input, Working
<1>2. CASE types[input[r].type] = None /\ types' = [types EXCEPT ![input[r].type] = r]
  BY <1>1, <1>2 DEF RowsOK, NewType
<1>3. CASE UNCHANGED types /\ Goto(r, "refetch type")
  BY <1>3, GotoMoves DEF NewType, Steps, Working
<1> QED
  BY <1>2, <1>3 DEF NewType

LEMMA NewCollRow ==
  ASSUME ControlOK, RowsOK, NEW r \in Requests, NewColl(r)
  PROVE  /\ \A c \in Colls : colls[c] # None => colls'[c] = colls[c]
         /\ pc'[r] # "refetch coll" => colls'[input[r].coll] # None
         /\ \A c \in Colls : colls'[c] \notin {None, colls[c]} =>
               colls'[c].type = input[r].type
<1>1. input[r].coll \in Colls /\ input[r].type \in Types
  BY DEF NewColl, ControlOK, Input, Working
<1> DEFINE row == [id |-> r, type |-> input[r].type]
<1>2. row # None
  <2>1. row \in CollRow
    BY <1>1 DEF CollRow
  <2> QED
    BY <2>1, CreateAssumption DEF CreateAssumption
<1>3. CASE colls[input[r].coll] = None /\ colls' = [colls EXCEPT ![input[r].coll] = row]
  BY <1>1, <1>2, <1>3 DEF RowsOK
<1>4. CASE UNCHANGED colls /\ Goto(r, "refetch coll")
  BY <1>4, GotoMoves DEF Steps, Working
<1> QED
  BY <1>3, <1>4 DEF NewColl

LEMMA InvNext == TypeInv /\ TypeInv' /\ Inv /\ [Next]_vars => Inv'
<1>0. SUFFICES ASSUME TypeInv, ControlOK, LocalsOK, RowsOK, TypeInv', Inv, [Next]_vars PROVE Inv'
  BY DEF TypeInv
<1> USE DEF dbVars, runVars, asked
<1>2. ASSUME NEW r \in Requests, FindProject(r) PROVE Inv'
  <2>1. ReqInv(r) /\ pc[r] \in NotInserted
    BY <1>0, <1>2 DEF Inv, FindProject, NotInserted, Working
  <2>2. arts[r] = None /\ result[r] = None
    BY <2>1 DEF ReqInv, NotInserted, Working
  <2>3. /\ OthersStay(r) /\ UNCHANGED <<arts, usages, input, creator, next, seen>>
        /\ \/ pc'[r] \in {"run", "type"} /\ project /\ result'[r] = None
           \/ pc'[r] = "reread project" /\ result'[r] = None
    BY <1>0, <1>2, <2>2, GotoMoves, ReplyMoves DEF FindProject, AfterProject, Steps, Working
  <2>4. OnlyOf(r)
    BY <2>3 DEF OthersStay, OnlyOf
  <2>5. Grows
    <3>1. faults' = 0 => faults = 0
      BY <1>0, <1>2, FaultsBounded DEF FindProject, LocalsOK
    <3> QED
      BY <1>0, <1>2, <2>3, <3>1 DEF FindProject, RowsOK, Grows
  <2>6. ReqInv(r)'
    BY <1>0, <1>2, <2>1, <2>3, <2>5, EarlyReq
       DEF FindProject, ReqInv, NotInserted, Working, PastProject, PastType, PastColl
  <2>7. RetryOK(r)' /\ (result'[r] \in Requests => result'[r] \in Stored)
    BY <1>2, <2>2, <2>3, UnansweredOK DEF FindProject, Errors
  <2> QED
    BY <1>0, <1>2, <2>2, <2>4, <2>5, <2>6, <2>7, QuietStep
       DEF FindProject, Inv, RowsLinked
<1>3. ASSUME NEW r \in Requests, RereadProject(r) PROVE Inv'
  <2>1. ReqInv(r) /\ pc[r] \in NotInserted
    BY <1>0, <1>3 DEF Inv, RereadProject, NotInserted, Working
  <2>2. arts[r] = None /\ result[r] = None
    BY <2>1 DEF ReqInv, NotInserted, Working
  <2>3. /\ OthersStay(r) /\ UNCHANGED <<arts, usages, input, creator, next, seen>>
        /\ \/ pc'[r] \in {"run", "type"} /\ project /\ result'[r] = None
           \/ pc'[r] = "new project" /\ result'[r] = None
           \/ pc'[r] = "done" /\ result'[r] = "no project"
    BY <1>0, <1>3, <2>2, GotoMoves, ReplyMoves DEF RereadProject, AfterProject, Steps, Working
  <2>4. OnlyOf(r)
    BY <2>3 DEF OthersStay, OnlyOf
  <2>5. Grows
    <3>1. faults' = 0 => faults = 0
      BY <1>0, <1>3, FaultsBounded DEF RereadProject, LocalsOK
    <3> QED
      BY <1>0, <1>3, <2>3, <3>1 DEF RereadProject, RowsOK, Grows
  <2>6. ReqInv(r)'
    BY <1>0, <1>3, <2>1, <2>3, <2>5, EarlyReq
       DEF RereadProject, ReqInv, NotInserted, Working, PastProject, PastType, PastColl
  <2>7. RetryOK(r)' /\ (result'[r] \in Requests => result'[r] \in Stored)
    BY <1>3, <2>2, <2>3, UnansweredOK DEF RereadProject, Errors
  <2> QED
    BY <1>0, <1>3, <2>2, <2>4, <2>5, <2>6, <2>7, QuietStep
       DEF RereadProject, Inv, RowsLinked
<1>4. ASSUME NEW r \in Requests, NewProject(r) PROVE Inv'
  <2>1. ReqInv(r) /\ pc[r] \in NotInserted
    BY <1>0, <1>4 DEF Inv, NewProject, NotInserted, Working
  <2>2. arts[r] = None /\ result[r] = None
    BY <2>1 DEF ReqInv, NotInserted, Working
  <2>3. /\ OthersStay(r) /\ UNCHANGED <<arts, usages, input, creator, next, seen>>
        /\ \/ pc'[r] \in {"run", "type"} /\ project' /\ result'[r] = None
           \/ pc'[r] = "done" /\ result'[r] = "no project"
    BY <1>0, <1>4, <2>2, GotoMoves, ReplyMoves DEF NewProject, AfterProject, Steps, Working
  <2>4. OnlyOf(r)
    BY <2>3 DEF OthersStay, OnlyOf
  <2>5. Grows
    <3>1. faults' = 0 => faults = 0
      BY <1>0, <1>4, FaultsBounded DEF NewProject, LocalsOK
    <3> QED
      BY <1>0, <1>4, <2>3, <3>1 DEF NewProject, RowsOK, Grows
  <2>6. ReqInv(r)'
    BY <1>0, <1>4, <2>1, <2>3, <2>5, EarlyReq
       DEF NewProject, ReqInv, NotInserted, Working, PastProject, PastType, PastColl
  <2>7. RetryOK(r)' /\ (result'[r] \in Requests => result'[r] \in Stored)
    BY <1>4, <2>2, <2>3, UnansweredOK DEF NewProject, Errors
  <2> QED
    BY <1>0, <1>4, <2>2, <2>4, <2>5, <2>6, <2>7, QuietStep
       DEF NewProject, Inv, RowsLinked, Grows
<1>5. ASSUME NEW r \in Requests, FindRun(r) PROVE Inv'
  <2>1. ReqInv(r) /\ pc[r] \in NotInserted
    BY <1>0, <1>5 DEF Inv, FindRun, NotInserted, Working
  <2>2. arts[r] = None /\ result[r] = None
    BY <2>1 DEF ReqInv, NotInserted, Working
  <2>3. /\ OthersStay(r) /\ UNCHANGED <<arts, usages, input, next, seen>>
        /\ \A q \in Requests \ {r} : creator'[q] = creator[q]
        /\ \/ pc'[r] \in {"run by display", "type"} /\ result'[r] = None
           \/ pc'[r] = "done" /\ result'[r] = "no run"
    BY <1>0, <1>5, <2>2, GotoMoves, ReplyMoves DEF FindRun, Found, LocalsOK, Steps, Working
  <2>4. OnlyOf(r)
    BY <2>3 DEF OthersStay, OnlyOf
  <2>5. Grows
    <3>1. faults' = 0 => faults = 0
      BY <1>0, <1>5, FaultsBounded DEF FindRun, LocalsOK
    <3> QED
      BY <1>0, <1>5, <2>3, <3>1 DEF FindRun, RowsOK, Grows
  <2>6. ReqInv(r)'
    BY <1>0, <1>5, <2>1, <2>3, <2>5, EarlyReq
       DEF FindRun, ReqInv, NotInserted, Working, PastProject, PastType, PastColl
  <2>7. RetryOK(r)' /\ (result'[r] \in Requests => result'[r] \in Stored)
    BY <1>5, <2>2, <2>3, UnansweredOK DEF FindRun, Errors
  <2> QED
    BY <1>0, <1>5, <2>2, <2>4, <2>5, <2>6, <2>7, QuietStep
       DEF FindRun, Inv, RowsLinked
<1>18. ASSUME NEW r \in Requests, FindRunByDisplay(r) PROVE Inv'
  <2>1. ReqInv(r) /\ pc[r] \in NotInserted
    BY <1>0, <1>18 DEF Inv, FindRunByDisplay, NotInserted, Working
  <2>2. arts[r] = None /\ result[r] = None
    BY <2>1 DEF ReqInv, NotInserted, Working
  <2>3. /\ OthersStay(r) /\ UNCHANGED <<arts, usages, input, next, seen>>
        /\ \A q \in Requests \ {r} : creator'[q] = creator[q]
        /\ \/ pc'[r] \in {"type"} /\ result'[r] = None
           \/ pc'[r] = "done" /\ result'[r] = "no run"
    BY <1>0, <1>18, <2>2, GotoMoves, ReplyMoves DEF FindRunByDisplay, Found, LocalsOK, Steps, Working
  <2>4. OnlyOf(r)
    BY <2>3 DEF OthersStay, OnlyOf
  <2>5. Grows
    <3>1. faults' = 0 => faults = 0
      BY <1>0, <1>18, FaultsBounded DEF FindRunByDisplay, LocalsOK
    <3> QED
      BY <1>0, <1>18, <2>3, <3>1 DEF FindRunByDisplay, RowsOK, Grows
  <2>6. ReqInv(r)'
    BY <1>0, <1>18, <2>1, <2>3, <2>5, EarlyReq
       DEF FindRunByDisplay, ReqInv, NotInserted, Working, PastProject, PastType, PastColl
  <2>7. RetryOK(r)' /\ (result'[r] \in Requests => result'[r] \in Stored)
    BY <1>18, <2>2, <2>3, UnansweredOK DEF FindRunByDisplay, Errors
  <2> QED
    BY <1>0, <1>18, <2>2, <2>4, <2>5, <2>6, <2>7, QuietStep
       DEF FindRunByDisplay, Inv, RowsLinked
<1>6. ASSUME NEW r \in Requests, FindType(r) PROVE Inv'
  <2>1. ReqInv(r) /\ pc[r] \in NotInserted
    BY <1>0, <1>6 DEF Inv, FindType, NotInserted, Working
  <2>2. arts[r] = None /\ result[r] = None
    BY <2>1 DEF ReqInv, NotInserted, Working
  <2>3. /\ OthersStay(r) /\ UNCHANGED <<arts, usages, input, creator, next, seen>>
        /\ \/ pc'[r] = "coll" /\ types[input[r].type] # None /\ result'[r] = None
           \/ pc'[r] = "new type" /\ result'[r] = None
           \/ pc'[r] = "done" /\ result'[r] = "type"
    BY <1>0, <1>6, <2>2, GotoMoves, ReplyMoves DEF FindType, Steps, Working
  <2>4. OnlyOf(r)
    BY <2>3 DEF OthersStay, OnlyOf
  <2>5. Grows
    <3>1. faults' = 0 => faults = 0
      BY <1>0, <1>6, FaultsBounded DEF FindType, LocalsOK
    <3> QED
      BY <1>0, <1>6, <2>3, <3>1 DEF FindType, RowsOK, Grows
  <2>6. ReqInv(r)'
    BY <1>0, <1>6, <2>1, <2>3, <2>5, EarlyReq
       DEF FindType, ReqInv, NotInserted, Working, PastProject, PastType, PastColl
  <2>7. RetryOK(r)' /\ (result'[r] \in Requests => result'[r] \in Stored)
    BY <1>6, <2>2, <2>3, UnansweredOK DEF FindType, Errors
  <2> QED
    BY <1>0, <1>6, <2>2, <2>4, <2>5, <2>6, <2>7, QuietStep
       DEF FindType, Inv, RowsLinked
<1>8. ASSUME NEW r \in Requests, RefetchType(r) PROVE Inv'
  <2>1. ReqInv(r) /\ pc[r] \in NotInserted
    BY <1>0, <1>8 DEF Inv, RefetchType, NotInserted, Working
  <2>2. arts[r] = None /\ result[r] = None
    BY <2>1 DEF ReqInv, NotInserted, Working
  <2>3. /\ OthersStay(r) /\ UNCHANGED <<arts, usages, input, creator, next, seen>>
        /\ \/ pc'[r] = "coll" /\ types[input[r].type] # None /\ result'[r] = None
           \/ pc'[r] = "done" /\ result'[r] = "type"
    BY <1>0, <1>8, <2>2, GotoMoves, ReplyMoves, CreateAssumption DEF RefetchType, CreateAssumption, Steps, Working
  <2>4. OnlyOf(r)
    BY <2>3 DEF OthersStay, OnlyOf
  <2>5. Grows
    <3>1. faults' = 0 => faults = 0
      BY <1>0, <1>8 DEF RefetchType, LocalsOK
    <3> QED
      BY <1>0, <1>8, <2>3, <3>1 DEF RefetchType, RowsOK, Grows
  <2>6. ReqInv(r)'
    BY <1>0, <1>8, <2>1, <2>3, <2>5, EarlyReq
       DEF RefetchType, ReqInv, NotInserted, Working, PastProject, PastType, PastColl
  <2>7. RetryOK(r)' /\ (result'[r] \in Requests => result'[r] \in Stored)
    BY <1>8, <2>2, <2>3, UnansweredOK DEF RefetchType, Errors
  <2> QED
    BY <1>0, <1>8, <2>2, <2>4, <2>5, <2>6, <2>7, QuietStep
       DEF RefetchType, Inv, RowsLinked
<1>7. ASSUME NEW r \in Requests, NewType(r) PROVE Inv'
  <2>1. ReqInv(r) /\ pc[r] \in NotInserted
    BY <1>0, <1>7 DEF Inv, NewType, NotInserted, Working
  <2>2. arts[r] = None /\ result[r] = None
    BY <2>1 DEF ReqInv, NotInserted, Working
  <2>3. /\ OthersStay(r) /\ UNCHANGED <<project, colls, arts, usages, input, creator, next, seen>>
        /\ pc'[r] \in {"coll", "refetch type"} /\ result'[r] = None
    BY <1>0, <1>7, <2>2, GotoMoves DEF NewType, Steps, Working
  <2>4. OnlyOf(r)
    BY <2>3 DEF OthersStay, OnlyOf
  <2>5. Grows
    <3>1. faults' = 0 => faults = 0
      BY <1>0, <1>7, FaultsBounded DEF NewType, LocalsOK
    <3> QED
      BY <1>0, <1>7, <2>3, <3>1, NewTypeRow DEF Grows
  <2>6. ReqInv(r)'
    <3>1. pc'[r] = "coll" => types'[input[r].type] # None
      BY <1>0, <1>7, NewTypeRow
    <3>2. project
      BY <1>7, <2>1 DEF NewType, ReqInv, PastProject
    <3> QED
      BY <1>0, <2>1, <2>3, <2>5, <3>1, <3>2, EarlyReq
         DEF NotInserted, Working, PastProject, PastType, PastColl
  <2>7. RetryOK(r)' /\ (result'[r] \in Requests => result'[r] \in Stored)
    BY <2>2, <2>3, UnansweredOK
  <2>8. \A c \in Colls : colls'[c] # None => types'[colls'[c].type] # None
    <3>1. \A c \in Colls : colls[c] # None => colls[c].type \in Types
      BY <1>0 DEF RowsOK, CollRow
    <3> QED
      BY <1>0, <2>3, <2>5, <3>1 DEF Inv, RowsLinked, Grows
  <2>9. project'
    <3>1. project
      BY <1>7, <2>1 DEF NewType, ReqInv, PastProject
    <3> QED
      BY <2>3, <3>1
  <2> QED
    BY <1>0, <2>2, <2>3, <2>4, <2>5, <2>6, <2>7, <2>8, <2>9, QuietStep
<1>9. ASSUME NEW r \in Requests, FindColl(r) PROVE Inv'
  <2>1. ReqInv(r) /\ pc[r] \in NotInserted
    BY <1>0, <1>9 DEF Inv, FindColl, NotInserted, Working
  <2>2. arts[r] = None /\ result[r] = None
    BY <2>1 DEF ReqInv, NotInserted, Working
  <2>3. /\ OthersStay(r) /\ UNCHANGED <<dbVars, input, creator, next, seen>>
        /\ \/ /\ pc'[r] \in {"dedup", "max"} /\ result'[r] = None
              /\ pc'[r] = "max" => ~IsRetry(r)'
              /\ colls[input[r].coll] # None
           \/ pc'[r] = "new coll" /\ result'[r] = None
           \/ pc'[r] = "done" /\ result'[r] = "collection"
    BY <1>0, <1>9, <2>2, AfterCollMoves, GotoMoves, ReplyMoves DEF FindColl, Steps, Working
  <2>4. OnlyOf(r)
    BY <2>3 DEF OthersStay, OnlyOf
  <2>5. Grows
    <3>1. faults' = 0 => faults = 0
      BY <1>0, <1>9, FaultsBounded DEF FindColl, LocalsOK
    <3> QED
      BY <2>3, <3>1 DEF Grows
  <2>6. ReqInv(r)'
    <3>1. project /\ types[input[r].type] # None
      BY <1>9, <2>1 DEF FindColl, ReqInv, PastProject, PastType
    <3> QED
      BY <1>0, <2>1, <2>3, <2>5, <3>1, EarlyReq
         DEF NotInserted, Working, PastProject, PastType, PastColl
  <2>7. RetryOK(r)' /\ (result'[r] \in Requests => result'[r] \in Stored)
    BY <2>2, <2>3, UnansweredOK DEF Errors
  <2> QED
    BY <1>0, <2>2, <2>3, <2>4, <2>5, <2>6, <2>7, QuietStep DEF Inv, RowsLinked
<1>10. ASSUME NEW r \in Requests, NewColl(r) PROVE Inv'
  <2>1. ReqInv(r) /\ pc[r] \in NotInserted
    BY <1>0, <1>10 DEF Inv, NewColl, NotInserted, Working
  <2>2. arts[r] = None /\ result[r] = None
    BY <2>1 DEF ReqInv, NotInserted, Working
  <2>3. /\ OthersStay(r) /\ UNCHANGED <<project, types, arts, usages, input, creator, next, seen>>
        /\ \/ /\ pc'[r] \in {"dedup", "max"} /\ result'[r] = None
              /\ pc'[r] = "max" => ~IsRetry(r)'
           \/ pc'[r] = "refetch coll" /\ result'[r] = None
    BY <1>0, <1>10, <2>2, AfterCollMoves, GotoMoves DEF NewColl, Steps, Working
  <2>4. OnlyOf(r)
    BY <2>3 DEF OthersStay, OnlyOf
  <2>5. Grows
    <3>1. faults' = 0 => faults = 0
      BY <1>0, <1>10, FaultsBounded DEF NewColl, LocalsOK
    <3> QED
      BY <1>0, <1>10, <2>3, <3>1, NewCollRow DEF Grows
  <2>6. ReqInv(r)'
    <3>1. project /\ types[input[r].type] # None
      BY <1>10, <2>1 DEF NewColl, ReqInv, PastProject, PastType
    <3>2. pc'[r] # "refetch coll" => colls'[input[r].coll] # None
      BY <1>0, <1>10, NewCollRow
    <3> QED
      BY <1>0, <2>1, <2>3, <2>5, <3>1, <3>2, EarlyReq
         DEF NotInserted, Working, PastProject, PastType, PastColl
  <2>7. RetryOK(r)' /\ (result'[r] \in Requests => result'[r] \in Stored)
    BY <2>2, <2>3, UnansweredOK
  <2>8. \A c \in Colls : colls'[c] # None => types'[colls'[c].type] # None
    <3>1. types[input[r].type] # None
      BY <1>10, <2>1 DEF NewColl, ReqInv, PastType
    <3> QED
      BY <1>0, <1>10, <2>3, <3>1, NewCollRow DEF Inv, RowsLinked
  <2> QED
    BY <1>0, <2>2, <2>3, <2>4, <2>5, <2>6, <2>7, <2>8, QuietStep DEF Inv, RowsLinked
<1>11. ASSUME NEW r \in Requests, RefetchColl(r) PROVE Inv'
  <2>1. ReqInv(r) /\ pc[r] \in NotInserted
    BY <1>0, <1>11 DEF Inv, RefetchColl, NotInserted, Working
  <2>2. arts[r] = None /\ result[r] = None
    BY <2>1 DEF ReqInv, NotInserted, Working
  <2>3. /\ OthersStay(r) /\ UNCHANGED <<dbVars, input, creator, next, seen, faults>>
        /\ \/ /\ pc'[r] \in {"dedup", "max"} /\ result'[r] = None
              /\ pc'[r] = "max" => ~IsRetry(r)'
              /\ colls[input[r].coll] # None
           \/ pc'[r] = "done" /\ result'[r] = "collection"
    BY <1>0, <1>11, <2>2, AfterCollMoves, ReplyMoves DEF RefetchColl, OwnColl
  <2>4. OnlyOf(r)
    BY <2>3 DEF OthersStay, OnlyOf
  <2>5. Grows
    BY <2>3 DEF Grows
  <2>6. ReqInv(r)'
    <3>1. project /\ types[input[r].type] # None
      BY <1>11, <2>1 DEF RefetchColl, ReqInv, PastProject, PastType
    <3> QED
      BY <1>0, <2>1, <2>3, <2>5, <3>1, EarlyReq
         DEF NotInserted, Working, PastProject, PastType, PastColl
  <2>7. RetryOK(r)' /\ (result'[r] \in Requests => result'[r] \in Stored)
    BY <2>2, <2>3, UnansweredOK DEF Errors
  <2> QED
    BY <1>0, <2>2, <2>3, <2>4, <2>5, <2>6, <2>7, QuietStep DEF Inv, RowsLinked
<1>1. ASSUME NEW r \in Requests, Receive(r) PROVE Inv'
  <2>1. ReqInv(r) /\ pc[r] = "idle"
    BY <1>0, <1>1 DEF Inv, Receive
  <2>2. arts[r] = None /\ result[r] = None
    BY <2>1 DEF ReqInv, NotInserted
  <2>3. /\ UNCHANGED <<dbVars, creator, next, faults>> /\ seen'[r] = Stored
        /\ pc'[r] = "project" /\ result' = result
        /\ \A q \in Requests \ {r} : pc'[q] = pc[q] /\ input'[q] = input[q] /\ seen'[q] = seen[q]
    BY <1>0, <1>1 DEF Receive, Goto, ControlOK, LocalsOK
  <2>4. OnlyOf(r)
    BY <2>3 DEF OnlyOf
  <2>5. Grows
    BY <2>3 DEF Grows
  <2>6. ReqInv(r)'
    <3>1. (seen[r] \subseteq Stored)'
      BY <2>3 DEF Stored
    <3> QED
      BY <2>2, <2>3, <3>1 DEF ReqInv, PastProject, PastType, PastColl
  <2>7. RetryOK(r)' /\ (result'[r] \in Requests => result'[r] \in Stored)
    BY <2>2, <2>3, UnansweredOK
  <2> QED
    BY <1>0, <2>2, <2>3, <2>4, <2>5, <2>6, <2>7, QuietStep DEF Inv, RowsLinked
<1>12. ASSUME NEW r \in Requests, Dedup(r) PROVE Inv'
  <2>1. ReqInv(r) /\ pc[r] = "dedup"
    BY <1>0, <1>12 DEF Inv, Dedup
  <2>2. arts[r] = None /\ result[r] = None /\ seen[r] \subseteq Stored
    BY <2>1 DEF ReqInv, NotInserted, Working
  <2>3. /\ OthersStay(r) /\ UNCHANGED <<dbVars, input, creator, next, seen>>
        /\ \/ /\ pc'[r] = "max" /\ result'[r] = None
              /\ faults' = faults => SameClient(r) = {}
           \/ pc'[r] = "done" /\ result'[r] \in SameClient(r)
    <3>1. CASE \E a \in SameClient(r) : Reply(r, a)
      BY <1>0, <1>12, <2>2, <3>1, ReplyMoves DEF Dedup
    <3>2. CASE ((Succeeds /\ SameClient(r) = {}) \/ Fails) /\ Goto(r, "max")
      <4>1. faults' = faults => SameClient(r) = {}
        BY <1>0, <3>2, MaxFaultsNat DEF Fails, LocalsOK
      <4> QED
        BY <1>0, <1>12, <2>2, <3>2, <4>1, GotoMoves DEF Dedup, Steps, Working
    <3> QED
      BY <1>12, <3>1, <3>2 DEF Dedup
  <2>4. OnlyOf(r)
    BY <2>3 DEF OthersStay, OnlyOf
  <2>5. faults' = 0 => faults' = faults
    BY <1>0, <1>12, FaultsBounded DEF Dedup, LocalsOK
  <2>6. Grows
    BY <2>3, <2>5 DEF Grows
  <2>7. (faults = 0 /\ pc[r] = "max" => ~IsRetry(r))'
    <3>1. SameClient(r) = {} => \A a \in seen[r] : arts[a].client # input[r].client
      BY <2>2 DEF SameClient
    <3> QED
      BY <2>3, <2>5, <3>1 DEF IsRetry
  <2>8. ReqInv(r)'
    <3>1. project /\ types[input[r].type] # None /\ colls[input[r].coll] # None
      BY <2>1 DEF ReqInv, PastProject, PastType, PastColl
    <3>2. Stored' = Stored
      BY <2>3 DEF Stored
    <3> QED
      BY <2>2, <2>3, <2>7, <3>1, <3>2 DEF ReqInv
  <2>9. RetryOK(r)' /\ (result'[r] \in Requests => result'[r] \in Stored)
    <3>1. CASE result'[r] \in SameClient(r)
      BY <2>2, <2>3, <3>1 DEF RetryOK, SameClient
    <3>2. CASE result'[r] = None
      BY <2>2, <2>3, <3>2, UnansweredOK
    <3> QED
      BY <2>3, <3>1, <3>2
  <2> QED
    BY <1>0, <2>2, <2>3, <2>4, <2>6, <2>8, <2>9, QuietStep DEF Inv, RowsLinked
<1>13. ASSUME NEW r \in Requests, ReadMax(r) PROVE Inv'
  <2>1. ReqInv(r) /\ pc[r] = "max"
    BY <1>0, <1>13 DEF Inv, ReadMax
  <2>2. arts[r] = None /\ result[r] = None /\ seen[r] \subseteq Stored
    BY <2>1 DEF ReqInv, NotInserted, Working
  <2>3. /\ OthersStay(r) /\ UNCHANGED <<dbVars, input, creator, seen>>
        /\ pc'[r] = "insert" /\ result'[r] = None
        /\ \A q \in Requests \ {r} : next'[q] = next[q]
    BY <1>0, <1>13, <2>2, GotoMoves DEF ReadMax, LocalsOK, Steps, Working
  <2>4. OnlyOf(r)
    BY <2>3 DEF OthersStay, OnlyOf
  <2>5. faults' = 0 => faults = 0 /\ Succeeds
    BY <1>0, <1>13, MaxFaultsNat DEF ReadMax, LocalsOK, Succeeds, Fails
  <2>6. Grows
    BY <2>3, <2>5 DEF Grows
  <2>7. Continues(r)' /\ (faults' = 0 => IsLater(r)')
    <3>0. InColl(input[r].coll)' = InColl(input[r].coll) /\ arts' = arts
      BY <2>3 DEF InColl, Stored
    <3>1. CASE ((Succeeds /\ InColl(input[r].coll) = {}) \/ Fails) /\ next'[r] = 0
      <4>1. Continues(r)'
        BY <3>1 DEF Continues
      <4>2. ASSUME faults' = 0 PROVE InColl(input[r].coll) = {}
        BY <1>0, <3>1, <4>2, MaxFaultsNat DEF LocalsOK, Fails
      <4>3. ASSUME faults' = 0 PROVE IsLater(r)'
        BY <2>2, <2>3, <3>0, <4>2, <4>3 DEF IsLater, InColl
      <4> QED
        BY <4>1, <4>3
    <3>2. ASSUME NEW m \in InColl(input[r].coll), IsNewest(m), next'[r] = arts[m].version + 1
          PROVE  Continues(r)' /\ IsLater(r)'
      <4>1. Continues(r)'
        BY <2>3, <3>0, <3>2 DEF Continues
      <4>2. \A a \in Stored : arts[a].version \in Nat
        BY <1>0 DEF RowsOK, Stored, ArtRow
      <4>3. \A a \in InColl(input[r].coll) : arts[a].version < arts[m].version + 1
        BY <3>2, <4>2 DEF IsNewest, InColl
      <4>4. IsLater(r)'
        BY <2>2, <2>3, <3>0, <3>2, <4>3 DEF IsLater, InColl
      <4> QED
        BY <4>1, <4>4
    <3>3. next' = [next EXCEPT ![r] = next'[r]]
      BY <1>0, <1>13 DEF ReadMax, LocalsOK
    <3> QED
      BY <1>0, <1>13, <3>1, <3>2 DEF ReadMax, LocalsOK
  <2>8. ReqInv(r)'
    <3>1. project /\ types[input[r].type] # None /\ colls[input[r].coll] # None
      BY <2>1 DEF ReqInv, PastProject, PastType, PastColl
    <3>2. faults' = 0 => ~IsRetry(r)'
      BY <2>1, <2>3, <2>5 DEF ReqInv, IsRetry
    <3>3. Stored' = Stored
      BY <2>3 DEF Stored
    <3> QED
      BY <2>2, <2>3, <2>7, <3>1, <3>2, <3>3 DEF ReqInv
  <2>9. RetryOK(r)' /\ (result'[r] \in Requests => result'[r] \in Stored)
    BY <2>2, <2>3, UnansweredOK
  <2> QED
    BY <1>0, <2>2, <2>3, <2>4, <2>6, <2>8, <2>9, QuietStep DEF Inv, RowsLinked
<1>14. ASSUME NEW r \in Requests, Insert(r) PROVE Inv'
  <2>1. ReqInv(r) /\ pc[r] = "insert"
    BY <1>0, <1>14 DEF Inv, Insert
  <2>2. arts[r] = None /\ result[r] = None /\ seen[r] \subseteq Stored
    BY <2>1 DEF ReqInv, NotInserted, Working
  <2>3. project /\ types[input[r].type] # None /\ colls[input[r].coll] # None
    BY <2>1 DEF ReqInv, PastProject, PastType, PastColl
  <2>4. CASE Fails /\ UNCHANGED arts /\ Reply(r, "artifact")
    <3>1. /\ OthersStay(r) /\ UNCHANGED <<dbVars, input, creator, next, seen>>
          /\ pc'[r] = "done" /\ result'[r] = "artifact"
      BY <1>0, <1>14, <2>4, ReplyMoves DEF Insert
    <3>2. OnlyOf(r)
      BY <3>1 DEF OthersStay, OnlyOf
    <3>3. faults' # 0
      BY <1>0, <2>4, MaxFaultsNat DEF LocalsOK, Fails
    <3>4. Grows
      BY <3>1, <3>3 DEF Grows
    <3>5. ReqInv(r)'
      <4>1. Stored' = Stored
        BY <3>1 DEF Stored
      <4> QED
        BY <2>2, <3>1, <4>1 DEF ReqInv, NotInserted, Working, PastProject, PastType, PastColl
    <3>6. RetryOK(r)' /\ (result'[r] \in Requests => result'[r] \in Stored)
      BY <2>2, <3>1, UnansweredOK DEF Errors
    <3> QED
      BY <1>0, <2>2, <3>1, <3>2, <3>4, <3>5, <3>6, QuietStep DEF Inv, RowsLinked
  <2> DEFINE row == [coll |-> input[r].coll, version |-> next[r],
                     client |-> input[r].client, run |-> creator[r]]
  <2>5. CASE /\ Succeeds
             /\ arts' = [arts EXCEPT ![r] = row]
             /\ \/ creator[r] = None /\ Reply(r, r)
                \/ creator[r] # None /\ Goto(r, "usage")
    <3>0. input[r] \in Input /\ next[r] \in Nat /\ creator[r] \in Runs \cup {None}
      BY <1>0, <2>1 DEF ControlOK, LocalsOK, Working
    <3>1. row \in ArtRow /\ row # None
      <4>1. row \in ArtRow
        BY <3>0 DEF Input, ArtRow
      <4> QED
        BY <4>1, CreateAssumption DEF CreateAssumption
    <3>3. /\ UNCHANGED <<project, runs, types, colls, usages, input, creator, next, seen, faults>>
          /\ OthersStay(r)
          /\ \/ pc'[r] = "done" /\ result'[r] = r
             \/ pc'[r] = "usage" /\ result'[r] = None
      BY <1>0, <1>14, <2>2, <2>5, GotoMoves, ReplyMoves DEF Insert, Succeeds, Steps, Working
    <3>4. /\ arts'[r] = row
          /\ \A a \in Requests \ {r} : arts'[a] = arts[a]
      BY <1>0, <2>5 DEF RowsOK
    <3>5. Stored' = Stored \cup {r} /\ r \notin Stored
      BY <2>2, <3>1, <3>4 DEF Stored
    <3>6. \A a \in Stored : a \in Stored' /\ a # r /\ arts'[a] = arts[a]
      BY <3>4, <3>5 DEF Stored
    <3>7. OnlyOf(r)
      BY <3>3, <3>4 DEF OthersStay, OnlyOf
    <3>8. Grows
      BY <3>3, <3>4, <3>5 DEF Grows, Stored
    <3>9. faults = 0 => ~IsRetry(r)'
      BY <2>1, <2>2, <3>3, <3>6 DEF ReqInv, IsRetry
    <3>10. ReqInv(r)'
      <4>1. (seen[r] \subseteq Stored)'
        BY <2>2, <3>3, <3>5
      <4>2. arts'[r] # None /\ arts'[r].run = creator'[r]
        BY <3>1, <3>3, <3>4
      <4> QED
        BY <2>3, <3>3, <3>9, <4>1, <4>2 DEF ReqInv, NotInserted, Working
    <3>11. \A q \in Requests : ReqInv(q)'
      BY <1>0, <3>7, <3>8, <3>10, OthersKeep DEF Inv, OnlyOf
    <3>12. VersionsContiguous'
      <4>1. ASSUME NEW a \in Stored', arts'[a].version > 0
            PROVE  \E b \in Stored : /\ arts[b].coll = arts'[a].coll
                                     /\ arts[b].version + 1 = arts'[a].version
        <5>1. CASE a \in Stored
          BY <1>0, <3>6, <4>1, <5>1 DEF Inv, VersionsContiguous, InColl
        <5>2. CASE a = r
          <6>1. next[r] # 0
            BY <3>0, <3>4, <4>1, <5>2
          <6> QED
            BY <2>1, <3>4, <5>2, <6>1 DEF ReqInv, Continues, InColl
        <5> QED
          BY <3>5, <4>1, <5>1, <5>2
      <4>2. (\A a \in Stored : arts[a].version > 0 =>
               \E b \in Stored : arts[b].coll = arts[a].coll /\ arts[b].version + 1 = arts[a].version)'
        BY <3>6, <4>1
      <4> QED
        BY <4>2 DEF VersionsContiguous, InColl
    <3>13. LaterCallsGetLaterVersions'
      <4>1. ASSUME faults = 0, NEW a \in Stored, NEW b \in seen[a],
                   arts[b].coll = arts[a].coll
            PROVE  arts[b].version < arts[a].version
        BY <1>0, <4>1 DEF Inv, LaterCallsGetLaterVersions
      <4>2. \A a \in Requests : seen[a] \subseteq Stored
        BY <1>0 DEF Inv, ReqInv
      <4>3. ASSUME faults = 0, NEW b \in seen[r], arts[b].coll = row.coll
            PROVE  arts[b].version < row.version
        BY <2>1, <4>3 DEF ReqInv, IsLater
      <4>4. Stored \subseteq Requests
        BY DEF Stored
      <4> QED
        BY <3>3, <3>4, <3>5, <3>6, <4>1, <4>2, <4>3, <4>4 DEF LaterCallsGetLaterVersions
    <3>14. RetryIsDeduplicated'
      BY <1>0, <3>3, <3>7, <3>8, <3>9, OthersRetryOK DEF RetryIsDeduplicated, RetryOK
    <3>15. RowsLinked'
      <4>1. \A a \in Stored : arts'[a] = arts[a] /\ colls[arts[a].coll] # None
        BY <1>0, <3>6 DEF Inv, RowsLinked
      <4>2. (\A a \in Stored : colls[arts[a].coll] # None)'
        BY <2>3, <3>3, <3>4, <3>5, <4>1
      <4>3. (\A u \in usages : u[2] \in Stored /\ arts[u[2]].run = u[1])'
        BY <1>0, <3>3, <3>5, <4>1 DEF Inv, RowsLinked
      <4>4. (\A q \in Requests : result[q] \in Requests => result[q] \in Stored)'
        BY <1>0, <3>3, <3>5, CreateAssumption
           DEF Inv, RowsLinked, OthersStay, CreateAssumption
      <4> QED
        BY <1>0, <3>3, <4>2, <4>3, <4>4 DEF Inv, RowsLinked
    <3> QED
      BY <3>11, <3>12, <3>13, <3>14, <3>15 DEF Inv
  <2> QED
    BY <1>14, <2>4, <2>5 DEF Insert
<1>15. ASSUME NEW r \in Requests, RecordUsage(r) PROVE Inv'
  <2>1. ReqInv(r) /\ pc[r] = "usage"
    BY <1>0, <1>15 DEF Inv, RecordUsage
  <2>2. arts[r] # None /\ arts[r].run = creator[r] /\ r \in Stored
    BY <2>1 DEF ReqInv, Stored
  <2>3. /\ OthersStay(r) /\ UNCHANGED <<project, runs, types, colls, arts, input, creator, next, seen>>
        /\ pc'[r] = "done" /\ result'[r] = r
        /\ usages' \subseteq usages \cup {<<creator[r], r>>}
    BY <1>0, <1>15, ReplyMoves DEF RecordUsage
  <2>4. OnlyOf(r)
    BY <2>3 DEF OthersStay, OnlyOf
  <2>5. faults' = 0 => faults = 0
    BY <1>0, <1>15, FaultsBounded DEF RecordUsage, LocalsOK
  <2>6. Grows
    BY <2>3, <2>5 DEF Grows
  <2>7. Stored' = Stored
    BY <2>3 DEF Stored
  <2>8. \A q \in Requests : ReqInv(q)'
    <3>1. ReqInv(r)'
      BY <2>1, <2>3, <2>7 DEF ReqInv, NotInserted, Working, PastProject, PastType, PastColl
    <3> QED
      BY <1>0, <2>4, <2>6, <3>1, OthersKeep DEF Inv, OnlyOf
  <2>9. VersionsContiguous'
    BY <1>0, <2>3 DEF Inv, VersionsContiguous, Stored, InColl
  <2>10. LaterCallsGetLaterVersions'
    BY <1>0, <2>3, <2>5 DEF Inv, LaterCallsGetLaterVersions, Stored
  <2>11. RetryIsDeduplicated'
    <3>1. faults' = 0 => ~IsRetry(r)'
      BY <2>1, <2>3, <2>5 DEF ReqInv, IsRetry
    <3> QED
      BY <1>0, <2>4, <2>6, <3>1, OthersRetryOK DEF RetryIsDeduplicated, RetryOK
  <2>12. RowsLinked'
    <3>1. (\A u \in usages : u[2] \in Stored /\ arts[u[2]].run = u[1])'
      BY <1>0, <2>2, <2>3, <2>7 DEF Inv, RowsLinked
    <3>2. (\A q \in Requests : result[q] \in Requests => result[q] \in Stored)'
      BY <1>0, <2>2, <2>3, <2>7 DEF Inv, RowsLinked, OthersStay
    <3> QED
      BY <1>0, <2>3, <2>7, <3>1, <3>2 DEF Inv, RowsLinked
  <2> QED
    BY <2>8, <2>9, <2>10, <2>11, <2>12 DEF Inv
<1>16. ASSUME Crash PROVE Inv'
  <2>1. /\ UNCHANGED <<dbVars, input, creator, next, result, seen, faults>>
        /\ \A q \in Requests : pc'[q] = pc[q] \/ (pc'[q] = "killed" /\ pc[q] \in Working)
    BY <1>16 DEF Crash
  <2>2. Grows
    BY <2>1 DEF Grows
  <2>3. \A q \in Requests : ReqInv(q)'
    BY <1>0, <2>1, <2>2, OthersKeep DEF Inv
  <2>4. \A q \in Requests : IsRetry(q)' => IsRetry(q)
    BY <2>1 DEF IsRetry, Working
  <2>5. RetryIsDeduplicated'
    BY <1>0, <2>1, <2>4 DEF Inv, RetryIsDeduplicated
  <2> QED
    BY <1>0, <2>1, <2>3, <2>5
       DEF Inv, VersionsContiguous, LaterCallsGetLaterVersions, RowsLinked, Stored, InColl
<1>19. ASSUME UpsertRun PROVE Inv'
  <2>1. /\ UNCHANGED <<types, colls, arts, usages, pc, input, creator, next, result, seen, faults>>
        /\ project'
    BY <1>19 DEF UpsertRun
  <2>2. Grows /\ \A q \in Requests : ReqInv(q)'
    BY <1>0, <2>1, OthersKeep DEF Inv, Grows
  <2> QED
    BY <1>0, <2>1, <2>2
       DEF Inv, VersionsContiguous, LaterCallsGetLaterVersions, RetryIsDeduplicated,
           IsRetry, RowsLinked, Stored, InColl
<1>17. ASSUME UNCHANGED vars PROVE Inv'
  <2>1. Grows /\ \A q \in Requests : ReqInv(q)'
    BY <1>0, <1>17, OthersKeep DEF vars, asked, Inv, Grows
  <2> QED
    BY <1>0, <1>17, <2>1
       DEF vars, asked, Inv, VersionsContiguous, LaterCallsGetLaterVersions, RetryIsDeduplicated,
           IsRetry, RowsLinked, Stored, InColl
<1> QED
  BY <1>0, <1>2, <1>3, <1>4, <1>5, <1>6, <1>7, <1>8, <1>9, <1>10, <1>11,
     <1>12, <1>13, <1>14, <1>15, <1>16, <1>17, <1>18, <1>19, <1>1 DEF Next

LEMMA InvInit == Init => Inv
<1> SUFFICES ASSUME Init PROVE Inv
  OBVIOUS
<1>1. Stored = {} /\ \A r \in Requests : result[r] = None /\ seen[r] = {} /\ arts[r] = None
                                       /\ pc[r] = "idle"
  BY DEF Init, Stored
<1>2. \A r \in Requests : ReqInv(r)
  BY <1>1 DEF ReqInv, PastProject, PastType, PastColl
<1>3. VersionsContiguous /\ LaterCallsGetLaterVersions
  BY <1>1 DEF VersionsContiguous, LaterCallsGetLaterVersions
<1>4. RetryIsDeduplicated
  BY <1>1 DEF RetryIsDeduplicated, IsRetry
<1>5. RowsLinked
  <2>1. \A r \in Requests : result[r] \notin Requests
    BY <1>1, CreateAssumption DEF CreateAssumption
  <2> QED
    BY <1>1, <2>1 DEF Init, RowsLinked
<1> QED
  BY <1>2, <1>3, <1>4, <1>5 DEF Inv

LEMMA Invariant == Spec => [](TypeInv /\ Inv)
<1>1. Init => TypeInv /\ Inv
  BY TypeInvInit, InvInit
<1>2. TypeInv /\ Inv /\ [Next]_vars => (TypeInv /\ Inv)'
  BY TypeInvNext, InvNext
<1> QED
  BY <1>1, <1>2, PTL DEF Spec

\* However createArtifact calls overlap, fail and die, no version of a
\* collection is left out.
THEOREM NoVersionLeftOut == Spec => []VersionsContiguous
<1>1. TypeInv /\ Inv => VersionsContiguous
  BY DEF Inv
<1> QED
  BY <1>1, Invariant, PTL

\* While no statement fails, calls that do not overlap get increasing versions.
THEOREM VersionsFollowCalls == Spec => []LaterCallsGetLaterVersions
<1>1. TypeInv /\ Inv => LaterCallsGetLaterVersions
  BY DEF Inv
<1> QED
  BY <1>1, Invariant, PTL

\* While no statement fails, a retry that arrives after its artifact was stored
\* stores nothing and is answered with that client id.
THEOREM RetriesAreDeduplicated == Spec => []RetryIsDeduplicated
<1>1. TypeInv /\ Inv => RetryIsDeduplicated
  BY DEF Inv
<1> QED
  BY <1>1, Invariant, PTL

-----------------------------------------------------------------------------
(***************************************************************************)
(* The run of a call.  A request finds it once, before anything is stored, *)
(* and run rows are never taken away; what was there when the call arrived *)
(* is found by the first of the two lookups unless a statement fails.      *)
(***************************************************************************)
BeforeRun == {"idle", "project", "reread project", "new project", "run", "run by display"}
AfterRun  == {"type", "new type", "refetch type", "coll", "new coll",
              "refetch coll", "dedup", "max", "insert", "usage"}

\* What the lookups have settled: a call without a run has none, and a run
\* that was there when it was named is the one.
CreatorOf(r) ==
  /\ creator[r] = None <=> input[r].run = None
  /\ faults = 0 /\ known[r] => creator[r] = input[r].run

RunOK(r) ==
  /\ creator[r] # None => creator[r] \in runs
  /\ known[r] => input[r].run \in runs
  /\ pc[r] \in BeforeRun => creator[r] = None /\ arts[r] = None
  /\ pc[r] \in {"run", "run by display"} => input[r].run # None
  /\ pc[r] = "run by display" /\ faults = 0 => ~known[r]
  /\ pc[r] \in AfterRun => CreatorOf(r)
  /\ arts[r] # None => arts[r].run = creator[r] /\ CreatorOf(r)
  /\ result[r] = r /\ faults = 0 /\ creator[r] # None => <<creator[r], r>> \in usages

RunInv == \A r \in Requests : RunOK(r)

\* Rows of runs and of lineage stay, and failures are not forgotten.
RunsGrow ==
  /\ runs \subseteq runs' /\ usages \subseteq usages'
  /\ faults' = 0 => faults = 0

LEMMA RunKept ==
  ASSUME RunsGrow, NEW q \in Requests, RunOK(q),
         pc'[q] = pc[q] \/ pc'[q] = "killed",
         input'[q] = input[q], known'[q] = known[q], creator'[q] = creator[q],
         result'[q] = result[q], arts'[q] = arts[q]
  PROVE  RunOK(q)'
  BY DEF RunsGrow, RunOK, CreatorOf, BeforeRun, AfterRun

\* The statements after the run is found, up to the insert, leave it alone.
LEMMA RunSettled ==
  ASSUME RunsGrow, NEW r \in Requests, RunOK(r), pc[r] \in AfterRun,
         pc'[r] \in AfterRun \cup {"done"}, result'[r] # r,
         input'[r] = input[r], known'[r] = known[r], creator'[r] = creator[r],
         arts'[r] = arts[r]
  PROVE  RunOK(r)'
  BY DEF RunsGrow, RunOK, CreatorOf, BeforeRun, AfterRun

\* What a statement of r leaves the others.
RunsOfOthers(r) ==
  \A q \in Requests \ {r} :
    /\ pc'[q] = pc[q] /\ input'[q] = input[q] /\ known'[q] = known[q]
    /\ creator'[q] = creator[q] /\ result'[q] = result[q] /\ arts'[q] = arts[q]

LEMMA RunInvNext == TypeInv /\ Inv /\ RunInv /\ [Next]_vars => RunInv'
<1>0. SUFFICES ASSUME TypeInv, ControlOK, RowsOK, LocalsOK, Inv, RunInv, [Next]_vars PROVE RunInv'
  BY DEF TypeInv
<1> USE DEF dbVars, runVars, asked
<1>1. ASSUME NEW r \in Requests, RunsGrow, RunsOfOthers(r), RunOK(r)' PROVE RunInv'
  BY <1>0, <1>1, RunKept DEF RunInv, RunsOfOthers
<1>2. \A r \in Requests : RunOK(r) /\ r \notin Errors \cup {None} /\ (pc[r] # "done" => result[r] = None)
  BY <1>0, CreateAssumption DEF RunInv, CreateAssumption, Inv, ReqInv
<1>3. ASSUME NEW r \in Requests, Receive(r) PROVE RunInv'
  <2>1. /\ UNCHANGED <<dbVars, creator, result, faults>> /\ pc[r] = "idle" /\ pc'[r] = "project"
        /\ known'[r] = (input'[r].run \in runs) /\ RunsOfOthers(r)
    BY <1>0, <1>3 DEF Receive, Goto, ControlOK, LocalsOK, RunsOfOthers
  <2>2. RunsGrow
    BY <2>1 DEF RunsGrow
  <2>3. RunOK(r)'
    BY <1>2, <2>1 DEF RunOK, BeforeRun, AfterRun
  <2> QED
    BY <1>1, <2>1, <2>2, <2>3
<1>4. ASSUME NEW r \in Requests, FindProject(r) \/ RereadProject(r) \/ NewProject(r) PROVE RunInv'
  <2>1. RunsGrow
    BY <1>0, <1>4, FaultsBounded DEF FindProject, RereadProject, NewProject, RunsGrow, LocalsOK
  <2>2. /\ UNCHANGED <<runVars, arts, usages, asked, creator>> /\ OthersStay(r)
        /\ pc[r] \in {"project", "reread project", "new project"}
        /\ \/ pc'[r] = AfterProject(r) /\ result'[r] = result[r]
           \/ pc'[r] \in {"reread project", "new project"} /\ result'[r] = result[r]
           \/ pc'[r] = "done" /\ result'[r] = "no project"
    <3>1. CASE FindProject(r)
      BY <1>0, <3>1, GotoMoves DEF FindProject, AfterProject, Steps, Working
    <3>2. CASE RereadProject(r)
      BY <1>0, <3>2, GotoMoves, ReplyMoves DEF RereadProject, AfterProject, Steps, Working
    <3>3. CASE NewProject(r)
      BY <1>0, <3>3, GotoMoves, ReplyMoves DEF NewProject, AfterProject, Steps, Working
    <3> QED
      BY <1>4, <3>1, <3>2, <3>3
  <2>3. RunsOfOthers(r)
    BY <2>2 DEF OthersStay, RunsOfOthers
  <2>4. creator[r] = None /\ arts[r] = None /\ result[r] = None /\ r \notin {None, "no project"}
    BY <1>2, <2>2 DEF RunOK, BeforeRun, Errors
  <2>5. known[r] => input[r].run \in runs /\ input[r].run # None
    <3>1. None \notin Runs
      BY CreateAssumption DEF CreateAssumption
    <3>2. runs \subseteq Runs
      BY <1>0 DEF RowsOK
    <3> QED
      BY <1>2, <3>1, <3>2 DEF RunOK
  <2>6. RunOK(r)'
    BY <2>1, <2>2, <2>4, <2>5
       DEF RunOK, CreatorOf, AfterProject, BeforeRun, AfterRun
  <2> QED
    BY <1>1, <2>1, <2>3, <2>6
<1>5. ASSUME NEW r \in Requests, FindRun(r) \/ FindRunByDisplay(r) PROVE RunInv'
  <2>1. RunsGrow
    BY <1>0, <1>5, FaultsBounded DEF FindRun, FindRunByDisplay, RunsGrow, LocalsOK
  <2>2. /\ creator[r] = None /\ arts[r] = None /\ result[r] = None /\ input[r].run # None
        /\ r \notin {None, "no run"} /\ pc[r] \in {"run", "run by display"} /\ RunOK(r)
    BY <1>2, <1>5 DEF FindRun, FindRunByDisplay, RunOK, BeforeRun, Errors
  <2>3. /\ UNCHANGED <<runVars, arts, usages, asked>> /\ OthersStay(r)
        /\ \A q \in Requests \ {r} : creator'[q] = creator[q]
        /\ \/ /\ pc'[r] = "type" /\ result'[r] = None /\ creator'[r] \in runs
              /\ faults' = faults /\ (pc[r] = "run" => creator'[r] = input[r].run)
           \/ /\ pc'[r] = "run by display" /\ pc[r] = "run" /\ result'[r] = None /\ creator'[r] = None
              /\ faults' = 0 => input[r].run \notin runs
           \/ pc'[r] = "done" /\ result'[r] = "no run" /\ creator'[r] = None
    <3>1. CASE FindRun(r)
      <4>1. Fails => faults' # 0
        BY <1>0, MaxFaultsNat DEF Fails, LocalsOK
      <4> QED
        BY <1>0, <2>2, <3>1, <4>1, GotoMoves DEF FindRun, Found, Succeeds, LocalsOK, Steps, Working
    <3>2. CASE FindRunByDisplay(r)
      BY <1>0, <2>2, <3>2, GotoMoves, ReplyMoves
         DEF FindRunByDisplay, Found, Showing, Succeeds, LocalsOK, Steps, Working
    <3> QED
      BY <1>5, <3>1, <3>2
  <2>4. RunsOfOthers(r)
    BY <2>3 DEF OthersStay, RunsOfOthers
  <2>5. creator'[r] \in runs => creator'[r] # None
    BY <1>0, CreateAssumption DEF RowsOK, CreateAssumption
  <2>6. RunOK(r)'
    BY <2>1, <2>2, <2>3, <2>5
       DEF RunOK, RunsGrow, CreatorOf, BeforeRun, AfterRun
  <2> QED
    BY <1>1, <2>1, <2>4, <2>6
<1>6. ASSUME NEW r \in Requests,
             \/ FindType(r) \/ NewType(r) \/ RefetchType(r)
             \/ FindColl(r) \/ NewColl(r) \/ RefetchColl(r) \/ Dedup(r) \/ ReadMax(r)
      PROVE  RunInv'
  <2>1. RunsGrow
    <3>1. (Succeeds \/ Fails \/ UNCHANGED faults) /\ UNCHANGED <<runs, usages>>
      BY <1>6 DEF FindType, NewType, RefetchType, FindColl, NewColl, RefetchColl, Dedup, ReadMax
    <3> QED
      BY <1>0, <3>1, FaultsBounded DEF RunsGrow, LocalsOK
  <2>2. /\ UNCHANGED <<arts, asked, creator>> /\ OthersStay(r)
        /\ pc[r] \in AfterRun /\ pc'[r] \in AfterRun \cup {"done"}
        /\ result'[r] = result[r] \/ result'[r] \in Errors \cup Stored
    <3>1. CASE FindType(r)
      BY <1>0, <3>1, GotoMoves, ReplyMoves DEF FindType, Errors, AfterRun, Steps, Working
    <3>2. CASE NewType(r)
      BY <1>0, <3>2, GotoMoves, ReplyMoves DEF NewType, AfterRun, Steps, Working
    <3>3. CASE RefetchType(r)
      BY <1>0, <3>3, GotoMoves, ReplyMoves DEF RefetchType, Errors, AfterRun, Steps, Working
    <3>4. CASE FindColl(r)
      BY <1>0, <3>4, GotoMoves, ReplyMoves DEF FindColl, AfterColl, Errors, AfterRun, Steps, Working
    <3>5. CASE NewColl(r)
      BY <1>0, <3>5, GotoMoves, ReplyMoves DEF NewColl, AfterColl, AfterRun, Steps, Working
    <3>6. CASE RefetchColl(r)
      BY <1>0, <3>6, GotoMoves, ReplyMoves DEF RefetchColl, AfterColl, Errors, AfterRun, Steps, Working
    <3>7. CASE Dedup(r)
      BY <1>0, <3>7, GotoMoves, ReplyMoves DEF Dedup, SameClient, AfterRun, Steps, Working
    <3>8. CASE ReadMax(r)
      BY <1>0, <3>8, GotoMoves, ReplyMoves DEF ReadMax, AfterRun, Steps, Working
    <3> QED
      BY <1>6, <3>1, <3>2, <3>3, <3>4, <3>5, <3>6, <3>7, <3>8
  <2>3. r \notin Stored /\ result[r] = None
    <3>1. pc[r] \in NotInserted
      BY <1>6 DEF FindType, NewType, RefetchType, FindColl, NewColl, RefetchColl, Dedup, ReadMax,
                  NotInserted, Working
    <3> QED
      BY <1>0, <1>2, <3>1 DEF Inv, ReqInv, Stored, NotInserted, Working
  <2>4. RunOK(r)'
    BY <1>2, <2>1, <2>2, <2>3, RunSettled
  <2>5. RunsOfOthers(r)
    BY <2>2 DEF OthersStay, RunsOfOthers
  <2> QED
    BY <1>1, <2>1, <2>4, <2>5
<1>7. ASSUME NEW r \in Requests, Insert(r) PROVE RunInv'
  <2>1. RunsGrow
    BY <1>0, <1>7, FaultsBounded DEF Insert, RunsGrow, LocalsOK
  <2>2. pc[r] \in AfterRun /\ arts[r] = None /\ r \notin {None, "artifact"} /\ RunOK(r) /\ CreatorOf(r)
    BY <1>0, <1>2, <1>7
       DEF Insert, Inv, ReqInv, NotInserted, Working, AfterRun, Errors, RunOK
  <2>3. /\ UNCHANGED <<runVars, usages, asked, creator>> /\ RunsOfOthers(r)
        /\ pc'[r] \in {"done", "usage"}
        /\ \/ arts'[r].run = creator[r] /\ (creator[r] = None \/ result'[r] = None)
           \/ arts'[r] = None /\ result'[r] = "artifact"
    <3>1. UNCHANGED <<runVars, usages, asked, creator>> /\ result[r] = None
      BY <1>2, <1>7 DEF Insert
    <3>2. CASE Reply(r, "artifact") /\ UNCHANGED arts
      BY <1>0, <2>2, <3>1, <3>2, ReplyMoves DEF OthersStay, RunsOfOthers
    <3>3. CASE /\ arts' = [arts EXCEPT ![r] = [coll |-> input[r].coll, version |-> next[r],
                                client |-> input[r].client, run |-> creator[r]]]
               /\ (creator[r] = None /\ Reply(r, r)) \/ Goto(r, "usage")
      <4>1. arts'[r].run = creator[r] /\ \A q \in Requests \ {r} : arts'[q] = arts[q]
        BY <1>0, <3>3 DEF RowsOK
      <4>2. OthersStay(r) /\ pc'[r] \in {"done", "usage"} /\ (creator[r] = None \/ result'[r] = None)
        BY <1>0, <3>1, <3>3, GotoMoves, ReplyMoves DEF Steps, Working
      <4> QED
        BY <3>1, <4>1, <4>2 DEF OthersStay, RunsOfOthers
    <3> QED
      BY <1>7, <3>2, <3>3 DEF Insert
  <2>4. CreatorOf(r)'
    BY <2>1, <2>2, <2>3 DEF CreatorOf, RunsGrow
  <2>5. RunOK(r)'
    BY <2>1, <2>2, <2>3, <2>4 DEF RunOK, RunsGrow, BeforeRun, AfterRun
  <2> QED
    BY <1>1, <2>1, <2>3, <2>5
<1>8. ASSUME NEW r \in Requests, RecordUsage(r) PROVE RunInv'
  <2>1. RunsGrow
    BY <1>0, <1>8, FaultsBounded DEF RecordUsage, RunsGrow, LocalsOK
  <2>2. pc[r] \in AfterRun /\ RunOK(r) /\ CreatorOf(r)
    BY <1>2, <1>8 DEF RecordUsage, AfterRun, RunOK
  <2>3. /\ UNCHANGED <<runVars, arts, asked, creator>> /\ RunsOfOthers(r)
        /\ pc'[r] = "done"
        /\ faults' = 0 => <<creator[r], r>> \in usages'
    <3>1. Fails => faults' # 0
      BY <1>0, MaxFaultsNat DEF Fails, LocalsOK
    <3> QED
      BY <1>0, <1>8, <3>1, ReplyMoves DEF RecordUsage, OthersStay, RunsOfOthers
  <2>4. CreatorOf(r)'
    BY <2>1, <2>2, <2>3 DEF CreatorOf, RunsGrow
  <2>5. RunOK(r)'
    BY <2>1, <2>2, <2>3, <2>4 DEF RunOK, RunsGrow, BeforeRun, AfterRun
  <2> QED
    BY <1>1, <2>1, <2>3, <2>5
<1>9. ASSUME Crash \/ UpsertRun \/ UNCHANGED vars PROVE RunInv'
  <2>1. UNCHANGED <<input, known, creator, result, arts>> /\ RunsGrow
    BY <1>9 DEF Crash, UpsertRun, vars, RunsGrow
  <2>2. \A q \in Requests : pc'[q] = pc[q] \/ pc'[q] = "killed"
    BY <1>9 DEF Crash, UpsertRun, vars
  <2> QED
    BY <1>0, <2>1, <2>2, RunKept DEF RunInv
<1> QED
  BY <1>0, <1>3, <1>4, <1>5, <1>6, <1>7, <1>8, <1>9 DEF Next

LEMMA RunInvariant == Spec => []RunInv
<1>1. Init => RunInv
  <2> SUFFICES ASSUME Init, NEW r \in Requests PROVE RunOK(r)
    BY DEF RunInv
  <2>1. r # None
    BY CreateAssumption DEF CreateAssumption
  <2> QED
    BY <2>1 DEF Init, RunOK, BeforeRun, AfterRun
<1>2. TypeInv /\ Inv /\ RunInv /\ [Next]_vars => RunInv'
  BY RunInvNext
<1> QED
  BY <1>1, <1>2, Invariant, PTL DEF Spec

\* No row and no answer refers to a row that is not there: of artifacts,
\* collections and types, and of the runs that artifacts and lineage name.  An
\* artifact has the run its call named, the one of that name if it was there
\* when the call came, and as its output once the call is answered, both unless
\* a statement failed.
THEOREM NoDanglingReference == Spec => []ReferentialIntegrity
<1>1. ASSUME TypeInv, Inv, RunInv PROVE ReferentialIntegrity
  <2>1. \A a \in Stored : /\ arts[a].run = creator[a] /\ CreatorOf(a)
                          /\ arts[a].run \in runs \cup {None}
    BY <1>1 DEF RunInv, RunOK, Stored
  <2>2. \A u \in usages : u[1] \in Runs /\ u[2] \in Stored /\ arts[u[2]].run = u[1]
    BY <1>1 DEF Inv, RowsLinked, TypeInv, RowsOK
  <2>3. \A u \in usages : u[1] \in runs
    BY <2>1, <2>2, CreateAssumption DEF CreateAssumption
  <2>4. RowsReferToRows
    BY <1>1, <2>1, <2>2, <2>3 DEF Inv, RowsLinked, RowsReferToRows
  <2>5. RunOfCall
    BY <2>1 DEF RunOfCall, CreatorOf
  <2>6. LineageRecorded
    BY <1>1, <2>1 DEF LineageRecorded, RunInv, RunOK, Stored
  <2> QED
    BY <2>4, <2>5, <2>6 DEF ReferentialIntegrity
<1> QED
  BY <1>1, Invariant, RunInvariant, PTL
-----------------------------------------------------------------------------
(***************************************************************************)
(* Refinement: the only step that changes the abstract history is the      *)
(* insert of the artifact row, and an answer names a row that is there.    *)
(***************************************************************************)
AbstractRows ==
  [a \in Requests |-> IF arts[a] = None THEN None
                      ELSE [coll |-> arts[a].coll, version |-> arts[a].version]]
AbstractAnswers ==
  [r \in Requests |-> IF result[r] \in Requests THEN result[r] ELSE None]

LEMMA RefinementInit == Init => VH!Init
<1> SUFFICES ASSUME Init PROVE VH!Init
  OBVIOUS
<1>1. \A r \in Requests : arts[r] = None /\ result[r] = None
  BY DEF Init
<1> QED
  BY <1>1, CreateAssumption DEF CreateAssumption, VH!Init

NewRow(r) == [coll |-> input[r].coll, version |-> next[r],
              client |-> input[r].client, run |-> creator[r]]

\* What a step does to artifacts and answers: nothing, an answer, or an insert.
Answers(r) == UNCHANGED arts /\ result[r] = None /\ \E x : Reply(r, x)

Inserts(r) ==
  /\ arts[r] = None /\ result[r] = None
  /\ Continues(r) /\ NewRow(r) \in ArtRow
  /\ arts' = [arts EXCEPT ![r] = NewRow(r)]
  /\ UNCHANGED result \/ Reply(r, r)

LEMMA StepShape ==
  ASSUME TypeInv, Inv, [Next]_vars
  PROVE  \/ UNCHANGED <<arts, result>>
         \/ \E r \in Requests : Answers(r) \/ Inserts(r)
<1> DEFINE Shape == \/ UNCHANGED <<arts, result>>
                    \/ \E r \in Requests : Answers(r) \/ Inserts(r)
<1>0. \A r \in Requests : pc[r] # "done" => result[r] = None
  BY DEF Inv, ReqInv
<1>1. ASSUME NEW r \in Requests, pc[r] # "done", UNCHANGED arts,
             (\E s : Goto(r, s)) \/ (\E x : Reply(r, x))
      PROVE  Shape
  BY <1>0, <1>1 DEF Answers, Goto
<1>2. ASSUME NEW r \in Requests,
             \/ FindProject(r) \/ RereadProject(r) \/ NewProject(r) \/ FindRun(r)
             \/ FindRunByDisplay(r) \/ FindType(r) \/ RefetchType(r) \/ FindColl(r) \/ RefetchColl(r)
             \/ NewType(r) \/ NewColl(r) \/ Dedup(r) \/ ReadMax(r) \/ RecordUsage(r)
      PROVE  /\ pc[r] # "done" /\ UNCHANGED arts
             /\ (\E s : Goto(r, s)) \/ (\E x : Reply(r, x))
  <2>1. CASE FindProject(r) \/ RereadProject(r) \/ NewProject(r)
    BY <2>1 DEF FindProject, RereadProject, NewProject, dbVars, runVars, asked
  <2>2. CASE FindType(r) \/ RefetchType(r) \/ NewType(r)
    BY <2>2 DEF FindType, RefetchType, NewType, dbVars, runVars, asked
  <2>3. CASE FindColl(r) \/ RefetchColl(r) \/ NewColl(r)
    BY <2>3 DEF FindColl, RefetchColl, NewColl, dbVars, runVars, asked
  <2>4. CASE Dedup(r) \/ ReadMax(r) \/ RecordUsage(r)
    BY <2>4 DEF Dedup, ReadMax, RecordUsage, dbVars, runVars, asked
  <2>5. CASE FindRun(r) \/ FindRunByDisplay(r)
    BY <2>5 DEF FindRun, FindRunByDisplay, Found, dbVars, runVars, asked
  <2> QED
    BY <1>2, <2>1, <2>2, <2>3, <2>4, <2>5
<1>3. ASSUME NEW r \in Requests, Receive(r) PROVE Shape
  BY <1>3 DEF Receive, Goto, dbVars, runVars, asked
<1>4. ASSUME NEW r \in Requests, Insert(r) PROVE Shape
  <2>1. pc[r] = "insert" /\ arts[r] = None /\ result[r] = None /\ Continues(r)
    BY <1>4 DEF Insert, Inv, ReqInv, NotInserted, Working
  <2>2. CASE UNCHANGED arts /\ Reply(r, "artifact")
    BY <1>1, <2>1, <2>2
  <2>3. CASE /\ arts' = [arts EXCEPT ![r] = NewRow(r)]
             /\ Reply(r, r) \/ Goto(r, "usage")
    <3>1. input[r] \in Input /\ next[r] \in Nat /\ creator[r] \in Runs \cup {None}
      BY <2>1 DEF TypeInv, ControlOK, LocalsOK, Working
    <3>2. NewRow(r) \in ArtRow
      BY <3>1 DEF NewRow, Input, ArtRow
    <3> QED
      BY <2>1, <2>3, <3>2 DEF Inserts, Goto
  <2> QED
    BY <1>4, <2>2, <2>3 DEF Insert, NewRow
<1>5. ASSUME Crash \/ UpsertRun \/ UNCHANGED vars PROVE Shape
  BY <1>5 DEF Crash, UpsertRun, vars, dbVars, runVars, asked
<1> QED
  BY <1>1, <1>2, <1>3, <1>4, <1>5 DEF Next

LEMMA RefinementNext ==
  ASSUME TypeInv, Inv, Inv', [Next]_vars
  PROVE  [VH!Next]_<<AbstractRows, AbstractAnswers>>
<1>1. ASSUME NEW a \in Stored PROVE /\ AbstractRows[a].coll = arts[a].coll
                                    /\ AbstractRows[a].version = arts[a].version
                                    /\ AbstractRows[a] # None
  <2>1. AbstractRows[a] = [coll |-> arts[a].coll, version |-> arts[a].version]
    BY <1>1 DEF AbstractRows, Stored
  <2>2. arts[a].coll \in Colls /\ arts[a].version \in Nat
    BY <1>1 DEF TypeInv, RowsOK, Stored, ArtRow
  <2>3. [coll |-> arts[a].coll, version |-> arts[a].version] \in [coll: Colls, version: Nat]
    BY <2>2
  <2> QED
    BY <2>1, <2>3, CreateAssumption DEF CreateAssumption
<1>2. CASE UNCHANGED <<arts, result>>
  BY <1>2 DEF AbstractRows, AbstractAnswers
<1>3. ASSUME NEW r \in Requests, Answers(r)
      PROVE  VH!Answer(r) \/ UNCHANGED <<AbstractRows, AbstractAnswers>>
  <2>1. PICK x : Reply(r, x)
    BY <1>3 DEF Answers
  <2>2. result \in [Requests -> Requests \cup Errors \cup {None}]
    BY DEF TypeInv, ControlOK
  <2>3. UNCHANGED AbstractRows
    BY <1>3 DEF Answers, AbstractRows
  <2>4. CASE x \in Requests
    <3>1. x \in Stored
      BY <1>3, <2>1, <2>2, <2>4 DEF Answers, Reply, Inv, RowsLinked, Stored
    <3>2. AbstractAnswers' = [AbstractAnswers EXCEPT ![r] = x]
      BY <2>1, <2>2, <2>4 DEF Reply, AbstractAnswers
    <3>3. AbstractAnswers[r] = None
      BY <1>3 DEF Answers, AbstractAnswers
    <3> QED
      BY <1>1, <2>3, <3>1, <3>2, <3>3 DEF VH!Answer, VH!History, AbstractRows, AbstractAnswers, Stored
  <2>5. CASE x \notin Requests
    <3>1. result[r] \notin Requests
      BY <1>3, CreateAssumption DEF Answers, CreateAssumption
    <3> QED
      BY <2>1, <2>2, <2>3, <2>5, <3>1 DEF Reply, AbstractAnswers
  <2> QED
    BY <2>4, <2>5
<1>4. ASSUME NEW r \in Requests, Inserts(r) PROVE VH!Append(r)
  <2> DEFINE row == [coll |-> input[r].coll, version |-> next[r]]
  <2>1. NewRow(r) # None /\ NewRow(r).coll = row.coll /\ NewRow(r).version = row.version
    BY <1>4, CreateAssumption DEF Inserts, NewRow, CreateAssumption
  <2>2. AbstractRows' = [AbstractRows EXCEPT ![r] = row]
    BY <1>4, <2>1 DEF Inserts, AbstractRows, TypeInv, RowsOK
  <2>3. AbstractRows[r] = None
    BY <1>4 DEF Inserts, AbstractRows
  <2>4. row \in VH!Continuations
    BY <1>1, <1>4, <2>1 DEF Inserts, Continues, ArtRow, NewRow, InColl, Stored,
                            VH!Continuations, VH!History, AbstractRows
  <2>5. \/ UNCHANGED AbstractAnswers
        \/ /\ AbstractAnswers[r] = None
           /\ AbstractAnswers' = [AbstractAnswers EXCEPT ![r] = r]
    BY <1>4, CreateAssumption
       DEF Inserts, Reply, AbstractAnswers, TypeInv, ControlOK, CreateAssumption
  <2> QED
    BY <2>2, <2>3, <2>4, <2>5 DEF VH!Append, AbstractRows, AbstractAnswers
<1> QED
  BY <1>2, <1>3, <1>4, StepShape DEF VH!Next

\* createArtifact implements the abstract version history: rows are appended
\* one at a time, each continuing its collection, and are never changed; a
\* request is answered once, with a stored row.
THEOREM Implementation == Spec => ImplementsVersionHistory
<1>1. TypeInv /\ Inv /\ (TypeInv /\ Inv)' /\ [Next]_vars => [VH!Next]_<<AbstractRows, AbstractAnswers>>
  BY RefinementNext
<1> QED
  BY <1>1, RefinementInit, Invariant, PTL DEF Spec, ImplementsVersionHistory, VH!Spec, AbstractRows, AbstractAnswers
=============================================================================
