------------------------ MODULE ViewsHistoryServersProof ------------------------
(***************************************************************************)
(* Proofs about SavedViews, RunHistory and ServerLifecycle, for every set  *)
(* of requests, inputs, views, runs, posts, servers and logins and every   *)
(* bound.  Of the views: what was answered holds, and a walk over the      *)
(* pages is complete.  Of a run: a reader of its history or its log misses *)
(* nothing but what is explained, and the samples represent the history.   *)
(* Of the servers: the account is seeded once, and its key opens every     *)
(* server from then on.                                                    *)
(***************************************************************************)
EXTENDS SavedViews, RunHistory, ServerLifecycle, FiniteSetTheorems, WellFoundedInduction, TLAPS

(***************************************************************************)
(* Ranks: a finite set whose elements are in a line, each with the set of  *)
(* those before it, is numbered by how many those are.                     *)
(***************************************************************************)
InLine(S, before) ==
    /\ before \in [S -> SUBSET S]
    /\ \A v \in S : v \notin before[v]
    /\ \A v, w \in S : v # w => before[v] \cup {v} \subseteq before[w] \/ before[w] \cup {w} \subseteq before[v]

Numbered(S, before) ==
    /\ Cardinality(S) \in Nat
    /\ \A v \in S : Cardinality(before[v]) \in 0..(Cardinality(S) - 1)
    /\ \A v, w \in S : Cardinality(before[v]) = Cardinality(before[w]) => v = w
    /\ \A i \in 1..Cardinality(S) : \E v \in S : Cardinality(before[v]) = i - 1

LEMMA Ranks ==
    ASSUME NEW S, IsFiniteSet(S), NEW before, InLine(S, before)
    PROVE  Numbered(S, before)
  <1> DEFINE n == Cardinality(S)
             T == 0..(n - 1)
             rank == [v \in S |-> Cardinality(before[v])]
  <1> USE DEF InLine
  <1>1. n \in Nat
    BY FS_CardinalityType
  <1>2. \A v \in S : IsFiniteSet(before[v]) /\ Cardinality(before[v]) \in Nat
    BY FS_Subset, FS_CardinalityType
  <1>3. ASSUME NEW v \in S, NEW U \in SUBSET S, before[v] \cup {v} \subseteq U
        PROVE  Cardinality(before[v]) + 1 <= Cardinality(U)
    <2>1. Cardinality(before[v] \cup {v}) = Cardinality(before[v]) + 1
      BY <1>2, FS_AddElement
    <2>2. IsFiniteSet(U)
      BY FS_Subset
    <2>3. Cardinality(before[v] \cup {v}) <= Cardinality(U)
      BY <1>3, <2>2, FS_Subset
    <2> QED BY <2>1, <2>3
  <1>4. \A v \in S : Cardinality(before[v]) \in T
    <2> TAKE v \in S
    <2>1. Cardinality(before[v]) + 1 <= n
      BY <1>3
    <2> QED BY <1>1, <1>2, <2>1
  <1>5. ASSUME NEW v \in S, NEW w \in S, v # w PROVE Cardinality(before[v]) # Cardinality(before[w])
    <2>1. Cardinality(before[v]) \in Nat /\ Cardinality(before[w]) \in Nat
      BY <1>2
    <2>2. CASE before[v] \cup {v} \subseteq before[w]
      BY <1>3, <2>1, <2>2
    <2>3. CASE before[w] \cup {w} \subseteq before[v]
      BY <1>3, <2>1, <2>3
    <2> QED BY <1>5, <2>2, <2>3
  <1>6. rank \in Injection(S, T)
    <2>1. rank \in [S -> T]
      BY <1>4
    <2>2. \A v, w \in S : rank[v] = rank[w] => v = w
      BY <1>5
    <2> HIDE DEF rank, T
    <2> QED BY <2>1, <2>2 DEF Injection, IsInjective
  <1>7. IsFiniteSet(T) /\ Cardinality(T) = n
    BY <1>1, FS_Interval
  <1>8. rank \in Surjection(S, T)
    <2> HIDE DEF rank, T
    <2> QED BY <1>6, <1>7, FS_Injection
  <1>9. \A j \in T : \E v \in S : rank[v] = j
    <2> HIDE DEF rank, T
    <2> QED BY <1>8 DEF Surjection
  <1>10. \A i \in 1..n : \E v \in S : Cardinality(before[v]) = i - 1
    <2> TAKE i \in 1..n
    <2>1. i - 1 \in T
      BY <1>1
    <2> QED BY <1>9, <2>1
  <1> QED BY <1>1, <1>4, <1>5, <1>10 DEF Numbered

LEMMA ListOf ==
    ASSUME NEW T, NEW n \in Nat, NEW f \in [1..n -> T]
    PROVE  f \in Seq(T) /\ Len(f) = n
  OBVIOUS

\* Runs, newest first.
LEMMA NewestFacts ==
    ASSUME NEW S, S \subseteq Nat, IsFiniteSet(S)
    PROVE  /\ Cardinality(S) \in Nat
           /\ Newest(S) \in Seq(S) /\ Len(Newest(S)) = Cardinality(S)
  <1>0. PICK above : above = [n \in S |-> {m \in S : m > n}]
    OBVIOUS
  <1>1. \A n \in S : above[n] = {m \in S : m > n}
    BY <1>0
  <1>2. above \in [S -> SUBSET S]
    BY <1>0
  <1>3. ASSUME NEW v \in S, NEW w \in S, v > w PROVE above[v] \cup {v} \subseteq above[w]
    <2>1. v \in Nat /\ w \in Nat
      OBVIOUS
    <2>2. ASSUME NEW m \in S, m > v PROVE m > w
      BY <1>3, <2>1, <2>2
    <2> QED BY <1>1, <1>3, <2>2
  <1>4. ASSUME NEW v \in S, NEW w \in S, v # w PROVE v > w \/ w > v
    BY <1>4
  <1>5. \A v \in S : v \notin above[v]
    <2> TAKE v \in S
    <2>1. ~(v > v)
      OBVIOUS
    <2> QED BY <1>1, <2>1
  <1>6. InLine(S, above)
    BY <1>2, <1>3, <1>4, <1>5 DEF InLine
  <1>7. /\ Cardinality(S) \in Nat
        /\ \A i \in 1..Cardinality(S) : \E v \in S : Cardinality(above[v]) = i - 1
    <2>1. Numbered(S, above)
      BY <1>6, Ranks
    <2> QED BY <2>1 DEF Numbered
  <1>8. \A i \in 1..Cardinality(S) : \E n \in S : Cardinality({m \in S : m > n}) = i - 1
    BY <1>1, <1>7
  <1>9. \A i \in 1..Cardinality(S) : (CHOOSE n \in S : Cardinality({m \in S : m > n}) = i - 1) \in S
    BY <1>8
  <1>10. Newest(S) \in [1..Cardinality(S) -> S]
    BY <1>9 DEF Newest
  <1> QED BY <1>7, <1>10, ListOf

\* A page of a list.
LEMMA PageFacts ==
    ASSUME NEW T, NEW order \in Seq(T), walk.offset \in Nat
    PROVE  /\ Page(order) \in Seq(T) /\ Len(Page(order)) \in Nat /\ Len(Page(order)) <= PageSize
           /\ \A i \in 1..Len(Page(order)) :
                 walk.offset + i \in 1..Len(order) /\ Page(order)[i] = order[walk.offset + i]
           /\ \A j \in 1..Len(order) : walk.offset < j /\ j <= walk.offset + PageSize =>
                 j - walk.offset \in 1..Len(Page(order)) /\ Page(order)[j - walk.offset] = order[j]
  <1> DEFINE o == walk.offset
             n == Len(order)
             hi == Min({o + PageSize, n})
  <1>1. o \in Nat /\ n \in Nat /\ PageSize \in Nat /\ PageSize # 0
    BY ViewsAssumption DEF ViewsAssumption
  <1>2. hi \in {o + PageSize, n} /\ hi <= o + PageSize /\ hi <= n
    <2> DEFINE Two == {o + PageSize, n}
    <2>1. \E x \in Two : \A y \in Two : x =< y
      <3>1. CASE o + PageSize <= n
        BY <1>1, <3>1
      <3>2. CASE n <= o + PageSize
        BY <1>1, <3>2
      <3> QED BY <1>1, <3>1, <3>2
    <2>2. Min(Two) \in Two /\ \A y \in Two : Min(Two) =< y
      <3> HIDE DEF Two
      <3> QED BY <2>1 DEF Min
    <2> QED BY <2>2
  <1>3. Page(order) = SubSeq(order, o + 1, hi)
    BY DEF Page
  <1> HIDE DEF hi, o, n
  <1>4. hi \in Nat
    BY <1>1, <1>2
  <1>5. /\ SubSeq(order, o + 1, hi) \in Seq(T)
        /\ Len(SubSeq(order, o + 1, hi)) = IF o + 1 <= hi THEN hi - o ELSE 0
        /\ \A i \in 1..(hi - o) : SubSeq(order, o + 1, hi)[i] = order[o + i]
    BY <1>1, <1>2, <1>4 DEF n
  <1> DEFINE p == Page(order)
  <1>6. p \in Seq(T) /\ Len(p) = (IF o + 1 <= hi THEN hi - o ELSE 0) /\ \A i \in 1..(hi - o) : p[i] = order[o + i]
    BY <1>3, <1>5
  <1> HIDE DEF p
  <1>7. Len(p) \in Nat /\ Len(p) <= PageSize
    BY <1>1, <1>2, <1>4, <1>6
  <1>8. \A i \in 1..Len(p) : o + i \in 1..n /\ p[i] = order[o + i]
    BY <1>1, <1>2, <1>4, <1>6
  <1>9. \A j \in 1..n : o < j /\ j <= o + PageSize => j - o \in 1..Len(p) /\ p[j - o] = order[j]
    BY <1>1, <1>2, <1>4, <1>6
  <1> QED BY <1>6, <1>7, <1>8, <1>9 DEF p, o, n

(***************************************************************************)
(* What is known of the requests and of the creation times.                *)
(***************************************************************************)
Knows(r) ==
    /\ pc[r] = "idle" => input[r] = None /\ seen[r] = {} /\ result[r] = None
    /\ pc[r] # "idle" => input[r] \in Inputs
    /\ pc[r] \in {"stamp", "create"} => input[r].op = "create"
    /\ pc[r] \in {"find", "save", "insert"} => input[r].op = "update"
    /\ pc[r] = "delete" => input[r].op = "delete"
    /\ pc[r] \in {"save", "insert"} => read[r] \in Row
    /\ seen[r] \subseteq Ended \ {r}
    /\ result[r] = "ok" => pc[r] = "done"

\* Until a view is created, nothing is asked for it.
Fresh(r) ==
    pc[r] \in {"idle", "stamp", "create"} => rows[r] = None /\ \A q \in Started : input[q].view # r

\* Before it begins, the walk has delivered nothing.
AtRest ==
    /\ walk.step = "idle" => walk.offset = 0 /\ walk.page = <<>> /\ walk.got = <<>>
    /\ (walk.step = "idle") = (walk.of = None)

TypeInv == TypeOK /\ IsFiniteSet(runs) /\ AtRest /\ \A r \in Requests : Knows(r) /\ Fresh(r)

\* Creation times are distinct, and a view has one before it has a row.
Stamped == {v \in Views : stamp[v] > 0}

StampInv ==
    /\ \A v, w \in Stamped : stamp[v] = stamp[w] => v = w
    /\ \A v \in Views : stamp[v] <= Cardinality(Stamped)
    /\ ViewSet \subseteq Stamped
    /\ \A r \in Requests :
          /\ pc[r] \in {"idle", "stamp"} => r \notin Stamped
          /\ pc[r] = "create" => r \in Stamped
          /\ pc[r] \in {"save", "insert"} => input[r].view \in Stamped

(***************************************************************************)
(* What the steps do, written out.                                         *)
(***************************************************************************)
Frame(r) ==
    /\ input' = input /\ seen' = seen /\ walk' = walk /\ there' = there /\ runs' = runs
    /\ \A q \in Requests \ {r} : pc'[q] = pc[q] /\ result'[q] = result[q] /\ read'[q] = read[q]

Ends(r, step, res) == pc'[r] = step /\ result'[r] = res

Blank == [f \in Fields |-> None]

LEMMA StampFacts ==
    ASSUME TypeInv, NEW r \in Requests, Stamp(r)
    PROVE  /\ pc[r] = "stamp" /\ Frame(r) /\ Ends(r, "create", result[r])
           /\ stamp' = [stamp EXCEPT ![r] = 1 + Cardinality(Stamped)]
           /\ rows' = rows /\ read' = read /\ saw' = saw /\ faults' = faults
  BY DEF Stamp, Goto, Frame, Ends, TypeInv, TypeOK, history, Stamped

LEMMA CreateFacts ==
    ASSUME TypeInv, NEW r \in Requests, Create(r)
    PROVE  /\ pc[r] = "create" /\ Frame(r) /\ stamp' = stamp /\ read' = read /\ (Succeeds \/ Fails)
           /\ \/ /\ Ends(r, "done", "ok") /\ rows' = [rows EXCEPT ![r] = Written(r, Blank)]
                 /\ Notice(IF Early(r) THEN {"early"} ELSE {})
              \/ Ends(r, "done", "error") /\ rows' = rows /\ saw' = saw
  BY DEF Create, Reply, Frame, Ends, TypeInv, TypeOK, Blank

LEMMA FindFacts ==
    ASSUME TypeInv, NEW r \in Requests, Find(r)
    PROVE  /\ pc[r] = "find" /\ Frame(r) /\ stamp' = stamp /\ rows' = rows /\ saw' = saw /\ (Succeeds \/ Fails)
           /\ \/ /\ rows[input[r].view] # None /\ read'[r] = rows[input[r].view]
                 /\ Ends(r, "save", result[r])
              \/ Ends(r, "done", "error") /\ read'[r] = read[r]
  BY DEF Find, Goto, Reply, Keep, Frame, Ends, TypeInv, TypeOK, tables, history

LEMMA SaveFacts ==
    ASSUME TypeInv, NEW r \in Requests, Save(r)
    PROVE  /\ pc[r] = "save" /\ Frame(r) /\ stamp' = stamp /\ saw' = saw /\ (Succeeds \/ Fails)
           /\ \/ /\ rows[input[r].view] # None
                 /\ rows' = [rows EXCEPT ![input[r].view] = Written(r, read[r])]
                 /\ Ends(r, "done", "ok") /\ read'[r] = None
              \/ /\ rows[input[r].view] = None /\ rows' = rows
                 /\ Ends(r, "insert", result[r]) /\ read'[r] = read[r]
              \/ rows' = rows /\ Ends(r, "done", "error") /\ read'[r] = None
  BY DEF Save, Goto, Reply, Keep, Frame, Ends, TypeInv, TypeOK, history

LEMMA InsertFacts ==
    ASSUME TypeInv, NEW r \in Requests, Insert(r)
    PROVE  /\ pc[r] = "insert" /\ Frame(r) /\ stamp' = stamp /\ read'[r] = None /\ (Succeeds \/ Fails)
           /\ \/ /\ rows' = [rows EXCEPT ![input[r].view] = Written(r, read[r])]
                 /\ Ends(r, "done", "ok")
                 /\ Notice(IF Early(input[r].view) THEN {"early"} ELSE {})
              \/ Ends(r, "done", "error") /\ rows' = rows /\ saw' = saw
  BY DEF Insert, Reply, Keep, Frame, Ends, TypeInv, TypeOK

LEMMA DeleteFacts ==
    ASSUME TypeInv, NEW r \in Requests, Delete(r)
    PROVE  /\ pc[r] = "delete" /\ Frame(r) /\ stamp' = stamp /\ read' = read /\ (Succeeds \/ Fails)
           /\ \/ rows' = [rows EXCEPT ![input[r].view] = None] /\ Ends(r, "done", "ok") /\ Notice({"deleted"})
              \/ Ends(r, "done", "error") /\ rows' = rows /\ saw' = saw
  BY DEF Delete, Reply, Frame, Ends, TypeInv, TypeOK

\* A request that arrives.
LEMMA ReceiveFacts ==
    ASSUME TypeInv, NEW r \in Requests, Receive(r)
    PROVE  \E i \in Inputs :
              /\ pc[r] = "idle" /\ input' = [input EXCEPT ![r] = i] /\ seen' = [seen EXCEPT ![r] = Ended]
              /\ i.view \in Requests => pc[i.view] # "idle" /\ (rows[i.view] # None \/ result[i.view] = "ok")
              /\ \/ pc'[r] = "stamp" /\ i.op = "create" /\ result'[r] = None
                 \/ pc'[r] = "find" /\ i.op = "update" /\ result'[r] = None
                 \/ pc'[r] = "delete" /\ i.op = "delete" /\ result'[r] = None
                 \/ pc'[r] = "done" /\ result'[r] = "error"
              /\ \A q \in Requests \ {r} : pc'[q] = pc[q] /\ result'[q] = result[q]
              /\ UNCHANGED <<rows, stamp, runs, read, walk, there, saw>> /\ (Succeeds \/ Fails)
  <1>1. PICK i \in Inputs :
              /\ pc[r] = "idle" /\ input' = [input EXCEPT ![r] = i]
              /\ i.view \in Requests => pc[i.view] # "idle" /\ (rows[i.view] # None \/ result[i.view] = "ok")
              /\ \/ Succeeds /\ Goto(r, CASE i.op = "create" -> "stamp" [] i.op = "update" -> "find" [] OTHER -> "delete")
                 \/ i.op # "delete" /\ Fails /\ Reply(r, "error")
    BY DEF Receive
  <1>2. seen' = [seen EXCEPT ![r] = Ended] /\ UNCHANGED <<rows, stamp, runs, read, walk, there, saw>>
    BY DEF Receive, tables
  <1>3. i.op \in {"create", "update", "delete"}
    BY ViewsAssumption DEF ViewsAssumption, Input
  <1>4. result[r] = None
    BY <1>1 DEF TypeInv, Knows
  <1>5. pc \in [Requests -> Steps] /\ result \in [Requests -> {None, "ok", "error"}]
    BY DEF TypeInv, TypeOK
  <1>6. CASE Succeeds /\ Goto(r, CASE i.op = "create" -> "stamp" [] i.op = "update" -> "find" [] OTHER -> "delete")
    <2>1. result' = result /\ pc' = [pc EXCEPT ![r] = CASE i.op = "create" -> "stamp" [] i.op = "update" -> "find" [] OTHER -> "delete"]
      BY <1>6 DEF Goto
    <2> QED BY <1>1, <1>2, <1>3, <1>4, <1>5, <1>6, <2>1
  <1>7. CASE Fails /\ Reply(r, "error")
    BY <1>1, <1>2, <1>5, <1>7 DEF Reply
  <1> QED BY <1>1, <1>6, <1>7

LEMMA CrashFacts ==
    ASSUME TypeInv, Crash
    PROVE  /\ \A r \in Requests : pc'[r] = IF pc[r] \in Working THEN "done" ELSE pc[r]
           /\ walk' = (IF Walking THEN [walk EXCEPT !.step = "done"] ELSE walk)
           /\ Notice({"failed"}) /\ Fails
           /\ read' = [r \in Requests |-> None]
           /\ UNCHANGED <<rows, stamp, runs, input, result, seen, there>>
  BY DEF Crash, tables

LEMMA InputFacts ==
    /\ \A i \in Inputs :
          /\ i.op \in {"create", "update", "delete"} /\ i.fields \subseteq Fields
          /\ i.op = "create" => i.view = None
          /\ i.op # "create" => i.view \in Views
    /\ None \notin Views /\ None \notin Row /\ None \notin Inputs /\ None \notin Requests
    /\ None # "ok" /\ None # "error"
    /\ Requests \subseteq Views /\ Blank \in Row
  <1>1. Inputs \subseteq Input /\ \A i \in Inputs : (i.view = None) = (i.op = "create")
    BY ViewsAssumption DEF ViewsAssumption
  <1>2. /\ None \notin Views /\ None \notin Row /\ None \notin Inputs
        /\ None # "ok" /\ None # "error"
    BY ViewsAssumption DEF ViewsAssumption
  <1>3. Requests \subseteq Views
    BY DEF Views
  <1>4. Blank \in Row
    BY DEF Blank, Row
  <1>5. ASSUME NEW i \in Inputs
        PROVE  /\ i.op \in {"create", "update", "delete"} /\ i.fields \subseteq Fields
               /\ i.op = "create" => i.view = None
               /\ i.op # "create" => i.view \in Views
    <2>1. i.op \in {"create", "update", "delete"} /\ i.view \in Views \cup {None} /\ i.fields \subseteq Fields
      BY <1>1 DEF Input
    <2>2. i.op = "create" => i.view = None
      BY <1>1
    <2>3. i.op # "create" => i.view # None
      BY <1>1
    <2> QED BY <2>1, <2>2, <2>3
  <1> QED BY <1>2, <1>3, <1>4, <1>5

LEMMA WrittenType ==
    ASSUME NEW r \in Requests, NEW row \in Row
    PROVE  Written(r, row) \in Row /\ Written(r, row) # None
  <1>1. Written(r, row) \in Row
    BY DEF Written, Row
  <1> QED BY <1>1, InputFacts

LEMMA FiniteFacts ==
    ASSUME NEW S, S \subseteq Views
    PROVE  IsFiniteSet(S) /\ Cardinality(S) \in Nat /\ Cardinality(S) <= Cardinality(Views)
  <1>1. FirstViews \in Seq(Range(FirstViews)) /\ IsFiniteSet(Requests)
    BY ViewsAssumption DEF ViewsAssumption
  <1>2. FirstViews \in Surjection(1..Len(FirstViews), Range(FirstViews)) /\ Len(FirstViews) \in Nat
    BY <1>1 DEF Surjection, Range
  <1>3. IsFiniteSet(1..Len(FirstViews))
    BY <1>2, FS_Interval
  <1>4. IsFiniteSet(Range(FirstViews))
    BY <1>2, <1>3, FS_Surjection
  <1>5. IsFiniteSet(Views)
    BY <1>1, <1>4, FS_Union DEF Views
  <1> QED BY <1>5, FS_Subset, FS_CardinalityType

(***************************************************************************)
(* Types.                                                                  *)
(***************************************************************************)
LEMMA FaultsType ==
    ASSUME TypeInv, Succeeds \/ Fails
    PROVE  faults' \in 0..MaxFaults
  <1>1. MaxFaults \in Nat /\ faults \in 0..MaxFaults
    BY ViewsAssumption DEF ViewsAssumption, TypeInv, TypeOK
  <1> QED BY <1>1 DEF Succeeds, Fails

LEMMA NoticeType ==
    ASSUME TypeInv, NEW what \in {{}, {"early"}, {"deleted"}, {"run"}, {"failed"}}, Notice(what) \/ saw' = saw
    PROVE  saw' \subseteq {"deleted", "early", "run", "failed"}
  BY DEF Notice, TypeInv, TypeOK

\* The program counters and what is kept per request.
LEMMA RequestTypes ==
    ASSUME TypeInv, NEW r \in Requests, Step(r)
    PROVE  /\ pc' \in [Requests -> Steps] /\ result' \in [Requests -> {None, "ok", "error"}]
           /\ read' \in [Requests -> Row \cup {None}]
  <1>1. /\ pc \in [Requests -> Steps] /\ result \in [Requests -> {None, "ok", "error"}]
        /\ read \in [Requests -> Row \cup {None}] /\ rows \in [Views -> Row \cup {None}]
    BY DEF TypeInv, TypeOK
  <1>2. \A s \in Steps : Goto(r, s) => pc' \in [Requests -> Steps] /\ result' \in [Requests -> {None, "ok", "error"}]
    BY <1>1 DEF Goto
  <1>3. \A res \in {"ok", "error"} : Reply(r, res) => pc' \in [Requests -> Steps] /\ result' \in [Requests -> {None, "ok", "error"}]
    BY <1>1 DEF Reply, Steps
  <1>4. \A row \in Row \cup {None} : Keep(r, row) => read' \in [Requests -> Row \cup {None}]
    BY <1>1 DEF Keep
  <1>5. {"create", "save", "insert"} \subseteq Steps
    BY DEF Steps, Working
  <1>6. CASE Stamp(r)
    BY <1>1, <1>2, <1>5, <1>6 DEF Stamp
  <1>7. CASE Create(r)
    BY <1>1, <1>3, <1>7 DEF Create
  <1>8. CASE Find(r)
    <2>1. input[r].view \in Views
      BY <1>8, InputFacts DEF Find, TypeInv, Knows
    <2>2. rows[input[r].view] \in Row \cup {None}
      BY <1>1, <2>1
    <2> QED BY <1>1, <1>2, <1>3, <1>4, <1>5, <1>8, <2>2 DEF Find
  <1>9. CASE Save(r)
    BY <1>1, <1>2, <1>3, <1>4, <1>5, <1>9 DEF Save
  <1>10. CASE Insert(r)
    BY <1>1, <1>3, <1>4, <1>10 DEF Insert
  <1>11. CASE Delete(r)
    BY <1>1, <1>3, <1>11 DEF Delete
  <1> QED BY <1>6, <1>7, <1>8, <1>9, <1>10, <1>11 DEF Step

\* The rows a step writes: the one its request is about.
LEMMA RowStep ==
    ASSUME TypeInv, NEW r \in Requests, Step(r)
    PROVE  /\ Frame(r) /\ pc[r] \in Working /\ (Succeeds \/ Fails)
           /\ saw' \subseteq {"deleted", "early", "run", "failed"}
           /\ rows' \in [Views -> Row \cup {None}]
           /\ pc[r] \in {"save", "insert"} => read[r] \in Row
           /\ \/ rows' = rows
              \/ pc[r] = "create" /\ rows' = [rows EXCEPT ![r] = Written(r, Blank)]
              \/ /\ pc[r] \in {"save", "insert"} /\ input[r].view \in Views
                 /\ rows' = [rows EXCEPT ![input[r].view] = Written(r, read[r])]
              \/ /\ pc[r] = "delete" /\ input[r].view \in Views
                 /\ rows' = [rows EXCEPT ![input[r].view] = None]
  <1>1. rows \in [Views -> Row \cup {None}] /\ saw \subseteq {"deleted", "early", "run", "failed"} /\ r \in Views
    BY InputFacts DEF TypeInv, TypeOK
  <1>2. pc[r] \in {"save", "insert"} => read[r] \in Row
    BY DEF TypeInv, Knows
  <1>3. pc[r] \in {"save", "insert", "delete"} => input[r].view \in Views
    BY InputFacts DEF TypeInv, Knows
  <1>4. \A row \in Row : Written(r, row) \in Row
    BY WrittenType
  <1>5. CASE Stamp(r)
    BY <1>1, <1>5, StampFacts DEF Working, Succeeds
  <1>6. CASE Create(r)
    <2>1. saw' \subseteq {"deleted", "early", "run", "failed"}
      BY <1>1, <1>6, CreateFacts, NoticeType
    <2> QED BY <1>1, <1>4, <1>6, <2>1, CreateFacts, InputFacts DEF Working
  <1>7. CASE Find(r)
    BY <1>1, <1>7, FindFacts DEF Working
  <1>8. CASE Save(r)
    <2>1. /\ pc[r] = "save" /\ Frame(r) /\ saw' = saw /\ (Succeeds \/ Fails)
          /\ rows' = rows \/ rows' = [rows EXCEPT ![input[r].view] = Written(r, read[r])]
      BY <1>8, SaveFacts
    <2>2. input[r].view \in Views /\ Written(r, read[r]) \in Row
      BY <1>2, <1>3, <1>4, <2>1
    <2> QED BY <1>1, <1>2, <2>1, <2>2 DEF Working
  <1>9. CASE Insert(r)
    <2>1. saw' \subseteq {"deleted", "early", "run", "failed"}
      BY <1>1, <1>9, InsertFacts, NoticeType
    <2> QED BY <1>1, <1>2, <1>3, <1>4, <1>9, <2>1, InsertFacts DEF Working
  <1>10. CASE Delete(r)
    <2>1. saw' \subseteq {"deleted", "early", "run", "failed"}
      BY <1>1, <1>10, DeleteFacts, NoticeType
    <2> QED BY <1>1, <1>3, <1>10, <2>1, DeleteFacts DEF Working
  <1> QED BY <1>5, <1>6, <1>7, <1>8, <1>9, <1>10 DEF Step

LEMMA StepTurn ==
    ASSUME TypeInv, NEW r \in Requests, Step(r)
    PROVE  \/ pc[r] = "stamp" /\ pc'[r] = "create" /\ result'[r] = result[r]
           \/ pc[r] = "create" /\ pc'[r] = "done"
           \/ pc[r] = "find" /\ pc'[r] = "save" /\ result'[r] = result[r] /\ read'[r] = rows[input[r].view]
              /\ rows[input[r].view] # None
           \/ pc[r] = "find" /\ pc'[r] = "done" /\ result'[r] = "error"
           \/ pc[r] = "save" /\ pc'[r] = "done"
           \/ pc[r] = "save" /\ pc'[r] = "insert" /\ result'[r] = result[r] /\ read'[r] = read[r]
           \/ pc[r] = "insert" /\ pc'[r] = "done"
           \/ pc[r] = "delete" /\ pc'[r] = "done"
  BY StampFacts, CreateFacts, FindFacts, SaveFacts, InsertFacts, DeleteFacts DEF Step, Ends

LEMMA StepHistory ==
    ASSUME TypeInv, NEW r \in Requests, Step(r)
    PROVE  /\ Started' = Started /\ r \in Started /\ r \notin Ended
           /\ Ended' = (IF pc'[r] = "done" THEN Ended \cup {r} ELSE Ended)
  <1>1. Frame(r) /\ pc[r] \in Working
    BY RowStep
  <1>2. pc[r] # "idle" /\ pc'[r] # "idle" /\ pc[r] # "done"
    BY StepTurn
  <1> QED BY <1>1, <1>2 DEF Frame, Started, Ended

LEMMA StepKnows ==
    ASSUME TypeInv, NEW r \in Requests, Step(r), NEW q \in Requests
    PROVE  Knows(q)' /\ Fresh(q)'
  <1>1. Frame(r)
    BY RowStep
  <1>2. Started' = Started /\ r \in Started /\ Ended \subseteq Ended'
    BY StepHistory
  <1>3. Knows(q) /\ Knows(r) /\ Fresh(q) /\ Fresh(r)
    BY DEF TypeInv
  <1>4. CASE q # r
    <2>1. pc'[q] = pc[q] /\ input'[q] = input[q] /\ read'[q] = read[q] /\ result'[q] = result[q] /\ seen'[q] = seen[q]
      BY <1>1, <1>4 DEF Frame
    <2>2. Knows(q)'
      BY <1>2, <1>3, <2>1 DEF Knows
    <2>3. ASSUME pc[q] \in {"idle", "stamp", "create"}
          PROVE  rows'[q] = rows[q]
      <3>1. input[r].view # q
        BY <1>2, <1>3, <2>3 DEF Fresh
      <3>2. q \in Views /\ rows \in [Views -> Row \cup {None}]
        BY InputFacts DEF TypeInv, TypeOK
      <3> QED BY <1>4, <3>1, <3>2, RowStep
    <2>4. Fresh(q)'
      BY <1>1, <1>2, <1>3, <2>1, <2>3 DEF Fresh, Frame
    <2> QED BY <2>2, <2>4
  <1>5. CASE q = r
    <2>1. input' = input /\ seen' = seen
      BY <1>1 DEF Frame
    <2>2. Knows(r)'
      <3>1. seen'[r] \subseteq Ended' \ {r}
        BY <1>2, <1>3, <2>1 DEF Knows
      <3>2. input[r] \in Inputs /\ pc'[r] # "idle" /\ result'[r] = "ok" => pc'[r] = "done"
        BY <1>3, StepTurn DEF Knows
      <3>3. input'[r] \in Inputs /\ pc'[r] # "idle"
        BY <1>3, <2>1, StepTurn DEF Knows
      <3>4. result'[r] = "ok" => pc'[r] = "done"
        BY <1>3, StepTurn DEF Knows
      <3>5. /\ pc'[r] \in {"stamp", "create"} => input'[r].op = "create"
            /\ pc'[r] \in {"find", "save", "insert"} => input'[r].op = "update"
            /\ pc'[r] # "delete"
        BY <1>3, <2>1, StepTurn DEF Knows
      <3>6. pc'[r] \in {"save", "insert"} => read'[r] \in Row
        <4>1. CASE pc'[r] = "save"
          <5>1. read'[r] = rows[input[r].view] /\ rows[input[r].view] # None /\ pc[r] = "find"
            BY <4>1, StepTurn
          <5>2. input[r].view \in Views
            BY <1>3, <5>1, InputFacts DEF Knows
          <5> QED BY <5>1, <5>2 DEF TypeInv, TypeOK
        <4>2. CASE pc'[r] = "insert"
          BY <1>3, <4>2, StepTurn DEF Knows
        <4> QED BY <4>1, <4>2
      <3> QED BY <3>1, <3>3, <3>4, <3>5, <3>6 DEF Knows
    <2>3. Fresh(r)'
      <3>1. CASE pc'[r] = "create"
        <4>1. pc[r] = "stamp"
          BY <3>1, StepTurn
        <4>2. rows' = rows
          BY <4>1, RowStep
        <4> QED BY <1>2, <1>3, <2>1, <4>1, <4>2 DEF Fresh
      <3>2. CASE pc'[r] # "create"
        BY <3>2, StepTurn DEF Fresh
      <3> QED BY <3>1, <3>2
    <2> QED BY <1>5, <2>2, <2>3
  <1> QED BY <1>4, <1>5

LEMMA ReceiveKnows ==
    ASSUME TypeInv, NEW r \in Requests, Receive(r), NEW q \in Requests
    PROVE  Knows(q)' /\ Fresh(q)'
  <1>1. PICK i \in Inputs :
           /\ pc[r] = "idle" /\ input' = [input EXCEPT ![r] = i] /\ seen' = [seen EXCEPT ![r] = Ended]
           /\ i.view \in Requests => pc[i.view] # "idle" /\ (rows[i.view] # None \/ result[i.view] = "ok")
           /\ \/ pc'[r] = "stamp" /\ i.op = "create" /\ result'[r] = None
              \/ pc'[r] = "find" /\ i.op = "update" /\ result'[r] = None
              \/ pc'[r] = "delete" /\ i.op = "delete" /\ result'[r] = None
              \/ pc'[r] = "done" /\ result'[r] = "error"
           /\ \A p \in Requests \ {r} : pc'[p] = pc[p] /\ result'[p] = result[p]
           /\ UNCHANGED <<rows, stamp, runs, read, walk, there, saw>> /\ (Succeeds \/ Fails)
    BY ReceiveFacts
  <1>2. input'[r] = i /\ seen'[r] = Ended /\ \A p \in Requests \ {r} : input'[p] = input[p] /\ seen'[p] = seen[p]
    BY <1>1 DEF TypeInv, TypeOK
  <1>3. Started' = Started \cup {r} /\ r \notin Ended /\ Ended \subseteq Ended'
    BY <1>1 DEF Started, Ended
  <1>4. Knows(q) /\ Fresh(q)
    BY DEF TypeInv
  <1>5. Knows(q)'
    <2>1. CASE q # r
      BY <1>1, <1>2, <1>3, <1>4, <2>1 DEF Knows
    <2>2. CASE q = r
      BY <1>1, <1>2, <1>3, <2>2, InputFacts DEF Knows
    <2> QED BY <2>1, <2>2
  <1>6. Fresh(q)'
    <2> SUFFICES ASSUME pc'[q] \in {"idle", "stamp", "create"}
                 PROVE  rows'[q] = None /\ \A p \in Started' : input'[p].view # q
      BY DEF Fresh
    <2>1. pc[q] \in {"idle", "stamp", "create"}
      BY <1>1
    <2>2. rows[q] = None /\ \A p \in Started : input[p].view # q
      BY <1>4, <2>1 DEF Fresh
    <2>3. i.view # q
      <3>1. ASSUME i.view = q PROVE FALSE
        <4>1. pc[q] # "idle" /\ (rows[q] # None \/ result[q] = "ok")
          BY <1>1, <3>1
        <4>2. result[q] = "ok"
          BY <2>2, <4>1
        <4>3. pc[q] = "done"
          BY <1>4, <4>2 DEF Knows
        <4> QED BY <2>1, <4>3
      <3> QED BY <3>1
    <2>4. \A p \in Started : p # r
      BY <1>1 DEF Started
    <2>5. \A p \in Started : input'[p].view # q
      BY <1>2, <2>2, <2>4 DEF Started
    <2> QED BY <1>1, <1>2, <1>3, <2>2, <2>3, <2>5
  <1> QED BY <1>5, <1>6

LEMMA CrashKnows ==
    ASSUME TypeInv, Crash, NEW q \in Requests
    PROVE  Knows(q)' /\ Fresh(q)'
  <1>1. /\ \A r \in Requests : pc'[r] = IF pc[r] \in Working THEN "done" ELSE pc[r]
        /\ UNCHANGED <<rows, input, result, seen>>
    BY CrashFacts
  <1>2. Started' = Started /\ Ended \subseteq Ended'
    BY <1>1 DEF Started, Ended, Working
  <1>3. pc[q] \in Steps /\ Knows(q) /\ Fresh(q)
    BY DEF TypeInv, TypeOK
  <1>4. pc'[q] \in {"idle", "done"} /\ (pc'[q] = "idle" <=> pc[q] = "idle") /\ (pc[q] = "done" => pc'[q] = "done")
    BY <1>1, <1>3 DEF Steps, Working
  <1>5. Knows(q)'
    BY <1>1, <1>2, <1>3, <1>4 DEF Knows
  <1>6. Fresh(q)'
    BY <1>1, <1>2, <1>3, <1>4 DEF Fresh
  <1> QED BY <1>5, <1>6

(***************************************************************************)
(* Creation times, and the views there are.                                *)
(***************************************************************************)
LEMMA StampInvStep ==
    ASSUME TypeInv, StampInv, NEW r \in Requests, Stamp(r)
    PROVE  StampInv' /\ Stamped' = Stamped \cup {r} /\ r \notin Stamped /\ \A v \in Stamped : stamp'[v] = stamp[v]
  <1> DEFINE n == Cardinality(Stamped)
  <1>1. /\ pc[r] = "stamp" /\ pc'[r] = "create" /\ rows' = rows /\ Frame(r)
        /\ stamp' = [stamp EXCEPT ![r] = 1 + n]
    BY StampFacts DEF Ends
  <1>2. r \in Views /\ r \notin Stamped /\ stamp \in [Views -> 0..Cardinality(Views)]
    BY <1>1, InputFacts DEF StampInv, TypeInv, TypeOK
  <1>3. IsFiniteSet(Stamped) /\ n \in Nat /\ Cardinality(Views) \in Nat
    BY FiniteFacts DEF Stamped
  <1>4. stamp'[r] = n + 1 /\ \A v \in Views \ {r} : stamp'[v] = stamp[v]
    BY <1>1, <1>2, <1>3
  <1>5. Stamped' = Stamped \cup {r}
    BY <1>2, <1>3, <1>4 DEF Stamped
  <1>6. Cardinality(Stamped') = n + 1
    BY <1>2, <1>3, <1>5, FS_AddElement
  <1>7. \A v \in Stamped : stamp'[v] = stamp[v] /\ stamp[v] \in Nat /\ stamp[v] <= n /\ v # r
    BY <1>2, <1>3, <1>4 DEF StampInv, Stamped
  <1>8. \A v, w \in Stamped' : stamp'[v] = stamp'[w] => v = w
    <2> SUFFICES ASSUME NEW v \in Stamped', NEW w \in Stamped', stamp'[v] = stamp'[w], v # w
                 PROVE  FALSE
      OBVIOUS
    <2>1. CASE v \in Stamped /\ w \in Stamped
      <3>1. stamp[v] = stamp[w]
        BY <1>7, <2>1
      <3> QED BY <2>1, <3>1 DEF StampInv
    <2>2. CASE v = r /\ w \in Stamped
      BY <1>3, <1>4, <1>7, <2>2
    <2>3. CASE w = r /\ v \in Stamped
      BY <1>3, <1>4, <1>7, <2>3
    <2> QED BY <1>5, <2>1, <2>2, <2>3
  <1>9. \A v \in Views : stamp'[v] <= Cardinality(Stamped')
    <2> TAKE v \in Views
    <2>1. CASE v = r
      BY <1>3, <1>4, <1>6, <2>1
    <2>2. CASE v # r
      <3>1. stamp'[v] = stamp[v] /\ stamp[v] <= n /\ stamp[v] \in Nat
        BY <1>2, <1>3, <1>4, <2>2 DEF StampInv
      <3> QED BY <1>3, <1>6, <3>1
    <2> QED BY <2>1, <2>2
  <1>10. ViewSet' \subseteq Stamped'
    BY <1>1, <1>5 DEF StampInv, ViewSet
  <1>11. ASSUME NEW q \in Requests
         PROVE  /\ pc'[q] \in {"idle", "stamp"} => q \notin Stamped'
                /\ pc'[q] = "create" => q \in Stamped'
                /\ pc'[q] \in {"save", "insert"} => input'[q].view \in Stamped'
    <2>1. CASE q = r
      BY <1>1, <1>5, <2>1
    <2>2. CASE q # r
      <3>1. pc'[q] = pc[q] /\ input'[q] = input[q]
        BY <1>1, <2>2 DEF Frame
      <3> QED BY <1>5, <2>2, <3>1 DEF StampInv
    <2> QED BY <2>1, <2>2
  <1> QED BY <1>2, <1>5, <1>7, <1>8, <1>9, <1>10, <1>11 DEF StampInv

\* How the views change in one step: not at all, by one that is inserted, by
\* one that is deleted.
Inserted(v) == ViewSet' = ViewSet \cup {v} /\ Notice(IF Early(v) THEN {"early"} ELSE {})

ViewsMove ==
    /\ walk' = walk /\ there' = there
    /\ \A v \in Stamped : stamp'[v] = stamp[v]
    /\ Stamped \subseteq Stamped'
    /\ \/ ViewSet' = ViewSet /\ saw' = saw
       \/ \E v \in Stamped : Inserted(v)
       \/ ViewSet' \subseteq ViewSet /\ Notice({"deleted"})

LEMMA StepMove ==
    ASSUME TypeInv, StampInv, NEW r \in Requests, Step(r)
    PROVE  ViewsMove /\ ViewSet' \subseteq Stamped'
  <1>1. Frame(r) /\ rows \in [Views -> Row \cup {None}] /\ None \notin Row /\ r \in Views
    BY RowStep, InputFacts DEF TypeInv, TypeOK
  <1>2. walk' = walk /\ there' = there
    BY <1>1 DEF Frame
  <1>3. ViewSet \subseteq Stamped
    BY DEF StampInv
  <1>4. CASE Stamp(r)
    <2>1. rows' = rows /\ saw' = saw
      BY <1>4, StampFacts
    <2>2. ViewSet' = ViewSet
      BY <2>1 DEF ViewSet
    <2> QED BY <1>2, <1>3, <1>4, <2>1, <2>2, StampInvStep DEF ViewsMove
  <1>5. ASSUME stamp' = stamp, rows' = rows, saw' = saw
        PROVE  ViewsMove /\ ViewSet' \subseteq Stamped'
    BY <1>2, <1>3, <1>5 DEF ViewsMove, ViewSet, Stamped
  <1>6. ASSUME stamp' = stamp, NEW v \in Stamped, NEW row \in Row, rows' = [rows EXCEPT ![v] = row],
               Notice(IF Early(v) THEN {"early"} ELSE {}) \/ (v \in ViewSet /\ saw' = saw)
        PROVE  ViewsMove /\ ViewSet' \subseteq Stamped'
    <2>1. ViewSet' = ViewSet \cup {v}
      BY <1>1, <1>6 DEF ViewSet, Stamped
    <2>2. Stamped' = Stamped
      BY <1>6 DEF Stamped
    <2> QED BY <1>2, <1>3, <1>6, <2>1, <2>2 DEF ViewsMove, Inserted
  <1>7. CASE Create(r)
    <2>1. stamp' = stamp /\ r \in Stamped /\ Written(r, Blank) \in Row
      BY <1>7, CreateFacts, WrittenType, InputFacts DEF StampInv
    <2> QED BY <1>5, <1>6, <1>7, <2>1, CreateFacts
  <1>8. CASE Find(r)
    BY <1>5, <1>8, FindFacts
  <1>9. CASE Save(r)
    <2>1. stamp' = stamp /\ saw' = saw /\ pc[r] = "save"
      BY <1>9, SaveFacts
    <2>2. Written(r, read[r]) \in Row /\ input[r].view \in Stamped
      BY <2>1, WrittenType DEF StampInv, TypeInv, Knows
    <2>3. rows[input[r].view] # None => input[r].view \in ViewSet
      BY <2>2 DEF ViewSet, Stamped
    <2> QED BY <1>5, <1>6, <1>9, <2>1, <2>2, <2>3, SaveFacts
  <1>10. CASE Insert(r)
    <2>1. stamp' = stamp /\ pc[r] = "insert"
      BY <1>10, InsertFacts
    <2>2. Written(r, read[r]) \in Row /\ input[r].view \in Stamped
      BY <2>1, WrittenType DEF StampInv, TypeInv, Knows
    <2> QED BY <1>5, <1>6, <1>10, <2>1, <2>2, InsertFacts
  <1>11. CASE Delete(r)
    <2>1. stamp' = stamp
      BY <1>11, DeleteFacts
    <2>2. CASE rows' = [rows EXCEPT ![input[r].view] = None] /\ Notice({"deleted"})
      <3>1. ViewSet' \subseteq ViewSet
        BY <1>1, <2>2 DEF ViewSet
      <3>2. Stamped' = Stamped
        BY <2>1 DEF Stamped
      <3> QED BY <1>2, <1>3, <2>1, <2>2, <3>1, <3>2 DEF ViewsMove
    <2> QED BY <1>5, <1>11, <2>1, <2>2, DeleteFacts
  <1> QED BY <1>4, <1>7, <1>8, <1>9, <1>10, <1>11 DEF Step

LEMMA StampNext ==
    ASSUME TypeInv, StampInv, [Next]_vars
    PROVE  StampInv'
  <1>1. ASSUME NEW r \in Requests, Step(r), ~Stamp(r) PROVE StampInv'
    <2>1. stamp' = stamp /\ Frame(r)
      BY <1>1, CreateFacts, FindFacts, SaveFacts, InsertFacts, DeleteFacts DEF Step
    <2>2. Stamped' = Stamped
      BY <2>1 DEF Stamped
    <2>3. ViewSet' \subseteq Stamped'
      BY <1>1, StepMove
    <2>4. ASSUME NEW q \in Requests
          PROVE  /\ pc'[q] \in {"idle", "stamp"} => q \notin Stamped
                 /\ pc'[q] = "create" => q \in Stamped
                 /\ pc'[q] \in {"save", "insert"} => input[q].view \in Stamped
      <3>1. CASE q # r
        BY <2>1, <3>1 DEF StampInv, Frame
      <3>2. CASE q = r /\ pc'[r] = "save"
        <4>1. pc[r] = "find" /\ rows[input[r].view] # None
          BY <3>2, <1>1, StepTurn
        <4>2. input[r].view \in ViewSet
          BY <4>1, InputFacts DEF TypeInv, Knows, ViewSet
        <4> QED BY <3>2, <4>2 DEF StampInv
      <3>3. CASE q = r /\ pc'[r] # "save"
        <4>1. pc[r] # "stamp"
          BY <1>1, CreateFacts, FindFacts, SaveFacts, InsertFacts, DeleteFacts DEF Step
        <4>2. pc'[r] = "done" \/ (pc[r] = "save" /\ pc'[r] = "insert")
          BY <1>1, <3>3, <4>1, StepTurn
        <4> QED BY <3>3, <4>2 DEF StampInv
      <3> QED BY <3>1, <3>2, <3>3
    <2> QED BY <2>1, <2>2, <2>3, <2>4 DEF StampInv, Frame
  <1>2. ASSUME NEW r \in Requests, Receive(r) PROVE StampInv'
    <2>1. /\ stamp' = stamp /\ rows' = rows /\ pc'[r] \in {"stamp", "find", "delete", "done"} /\ pc[r] = "idle"
          /\ \A q \in Requests \ {r} : pc'[q] = pc[q] /\ input'[q] = input[q]
      <3>1. \E i \in Inputs : input' = [input EXCEPT ![r] = i]
        BY <1>2 DEF Receive
      <3>2. input \in [Requests -> Inputs \cup {None}]
        BY DEF TypeInv, TypeOK
      <3>3. \A q \in Requests \ {r} : input'[q] = input[q]
        BY <3>1, <3>2
      <3> QED BY <1>2, <3>3, ReceiveFacts
    <2>2. Stamped' = Stamped /\ ViewSet' = ViewSet
      BY <2>1 DEF Stamped, ViewSet
    <2>3. ASSUME NEW q \in Requests
          PROVE  /\ pc'[q] \in {"idle", "stamp"} => q \notin Stamped
                 /\ pc'[q] = "create" => q \in Stamped
                 /\ pc'[q] \in {"save", "insert"} => input'[q].view \in Stamped
      <3>1. CASE q # r
        BY <2>1, <3>1 DEF StampInv
      <3>2. CASE q = r
        BY <2>1, <3>2 DEF StampInv
      <3> QED BY <3>1, <3>2
    <2> QED BY <2>1, <2>2, <2>3 DEF StampInv
  <1>3. CASE Crash
    <2>1. /\ stamp' = stamp /\ rows' = rows /\ input' = input
          /\ \A q \in Requests : pc'[q] \in {"idle", "done"} /\ (pc'[q] = "idle" => pc[q] = "idle")
      BY <1>3, CrashFacts DEF TypeInv, TypeOK, Steps, Working
    <2>2. Stamped' = Stamped /\ ViewSet' = ViewSet
      BY <2>1 DEF Stamped, ViewSet
    <2> QED BY <2>1, <2>2 DEF StampInv
  <1>4. CASE stamp' = stamp /\ rows' = rows /\ input' = input /\ pc' = pc
    <2>1. Stamped' = Stamped /\ ViewSet' = ViewSet
      BY <1>4 DEF Stamped, ViewSet
    <2> QED BY <1>4, <2>1 DEF StampInv
  <1>5. NewRun \/ Begin \/ WalkStep \/ UNCHANGED vars => stamp' = stamp /\ rows' = rows /\ input' = input /\ pc' = pc
    BY DEF NewRun, Begin, WalkStep, ListViews, CountViews, CountRuns, ListRuns, vars, tables
  <1> QED BY <1>1, <1>2, <1>3, <1>4, <1>5, StampInvStep DEF Next

(***************************************************************************)
(* The order of the views, and the pages.                                  *)
(***************************************************************************)
LEMMA OrderFacts ==
    ASSUME TypeInv, StampInv
    PROVE  /\ Cardinality(ViewSet) \in Nat
           /\ \A v \in ViewSet : Cardinality(Older(v)) \in 0..(Cardinality(ViewSet) - 1)
           /\ \A v, w \in ViewSet : Cardinality(Older(v)) = Cardinality(Older(w)) => v = w
           /\ ViewOrder \in Seq(ViewSet) /\ Len(ViewOrder) = Cardinality(ViewSet)
           /\ \A i \in 1..Cardinality(ViewSet) : Cardinality(Older(ViewOrder[i])) = i - 1
  <1> DEFINE n == Cardinality(ViewSet)
  <1>0. PICK older : older = [v \in ViewSet |-> Older(v)]
    OBVIOUS
  <1>1. older \in [ViewSet -> SUBSET ViewSet] /\ \A v \in ViewSet : older[v] = Older(v)
    BY <1>0 DEF Older
  <1>2. ViewSet \subseteq Views /\ ViewSet \subseteq Stamped /\ \A v \in ViewSet : stamp[v] \in Nat
    BY DEF ViewSet, StampInv, TypeInv, TypeOK
  <1>3. InLine(ViewSet, older)
    <2>1. \A v \in ViewSet : v \notin Older(v)
      BY <1>2 DEF Older
    <2>2. ASSUME NEW v \in ViewSet, NEW w \in ViewSet, stamp[v] < stamp[w]
          PROVE  Older(v) \cup {v} \subseteq Older(w)
      BY <1>2, <2>2 DEF Older
    <2>3. ASSUME NEW v \in ViewSet, NEW w \in ViewSet, v # w
          PROVE  stamp[v] < stamp[w] \/ stamp[w] < stamp[v]
      <3>1. stamp[v] # stamp[w]
        BY <1>2, <2>3 DEF StampInv
      <3> QED BY <1>2, <3>1
    <2>4. \A v, w \in ViewSet : v # w => older[v] \cup {v} \subseteq older[w] \/ older[w] \cup {w} \subseteq older[v]
      BY <1>1, <2>2, <2>3
    <2> QED BY <1>1, <2>1, <2>4 DEF InLine
  <1>4. IsFiniteSet(ViewSet)
    BY <1>2, FiniteFacts
  <1>5. Numbered(ViewSet, older)
    BY <1>3, <1>4, Ranks
  <1>6. n \in Nat
    BY <1>5 DEF Numbered
  <1>7. \A v \in ViewSet : Cardinality(Older(v)) \in 0..(n - 1)
    BY <1>1, <1>5 DEF Numbered
  <1>8. \A v, w \in ViewSet : Cardinality(Older(v)) = Cardinality(Older(w)) => v = w
    BY <1>1, <1>5 DEF Numbered
  <1>9. \A i \in 1..n : \E v \in ViewSet : Cardinality(Older(v)) = i - 1
    BY <1>1, <1>5 DEF Numbered
  <1>10. \A i \in 1..n : /\ (CHOOSE v \in ViewSet : Cardinality(Older(v)) = i - 1) \in ViewSet
                         /\ Cardinality(Older(CHOOSE v \in ViewSet : Cardinality(Older(v)) = i - 1)) = i - 1
    BY <1>9
  <1>11. ViewOrder \in [1..n -> ViewSet] /\ \A i \in 1..n : Cardinality(Older(ViewOrder[i])) = i - 1
    BY <1>10 DEF ViewOrder
  <1>12. ViewOrder \in Seq(ViewSet) /\ Len(ViewOrder) = n
    BY <1>6, <1>11, ListOf
  <1> QED BY <1>6, <1>7, <1>8, <1>11, <1>12

\* What a page of the views holds: those of the ranks from the offset on.
LEMMA ViewPage ==
    ASSUME TypeInv, StampInv
    PROVE  LET page == Page(ViewOrder) IN
           /\ page \in Seq(ViewSet) /\ Len(page) \in Nat /\ Len(page) <= PageSize
           /\ \A i \in 1..Len(page) : page[i] \in ViewSet /\ Cardinality(Older(page[i])) = walk.offset + i - 1
           /\ \A v \in ViewSet : walk.offset <= Cardinality(Older(v)) =>
                 Cardinality(Older(v)) >= walk.offset + PageSize \/ \E i \in 1..Len(page) : page[i] = v
  <1> DEFINE o == walk.offset
             n == Cardinality(ViewSet)
             page == Page(ViewOrder)
  <1>1. o \in Nat /\ PageSize \in Nat
    BY ViewsAssumption DEF TypeInv, TypeOK, ViewsAssumption
  <1>2. ViewOrder \in Seq(ViewSet) /\ Len(ViewOrder) = n /\ n \in Nat
    BY OrderFacts
  <1>3. /\ page \in Seq(ViewSet) /\ Len(page) \in Nat /\ Len(page) <= PageSize
        /\ \A i \in 1..Len(page) : o + i \in 1..n /\ page[i] = ViewOrder[o + i]
        /\ \A j \in 1..n : o < j /\ j <= o + PageSize => j - o \in 1..Len(page) /\ page[j - o] = ViewOrder[j]
    BY <1>1, <1>2, PageFacts
  <1> HIDE DEF page, n, o
  <1>4. ASSUME NEW i \in 1..Len(page)
        PROVE  page[i] \in ViewSet /\ Cardinality(Older(page[i])) = o + i - 1
    <2>1. PICK k : k = o + i
      OBVIOUS
    <2>2. k \in 1..n /\ page[i] = ViewOrder[k]
      BY <1>3, <2>1
    <2>3. Cardinality(Older(ViewOrder[k])) = k - 1
      BY <2>2, OrderFacts DEF n
    <2>4. page[i] \in ViewSet
      BY <1>3
    <2>5. Cardinality(Older(page[i])) = k - 1
      BY <2>2, <2>3
    <2>6. k - 1 = o + i - 1
      BY <1>1, <2>1
    <2> QED BY <2>4, <2>5, <2>6
  <1>5. ASSUME NEW v \in ViewSet, o <= Cardinality(Older(v)), ~(Cardinality(Older(v)) >= o + PageSize)
        PROVE  \E i \in 1..Len(page) : page[i] = v
    <2> DEFINE c == Cardinality(Older(v))
    <2>1. c \in 0..(n - 1)
      BY OrderFacts DEF n
    <2> HIDE DEF c
    <2>2. PICK j : j = c + 1
      OBVIOUS
    <2>3. j \in 1..n /\ o < j /\ j <= o + PageSize /\ c = j - 1
      BY <1>1, <1>2, <1>5, <2>1, <2>2 DEF c, n
    <2>4. j - o \in 1..Len(page) /\ page[j - o] = ViewOrder[j]
      BY <1>3, <2>3
    <2>5. Cardinality(Older(ViewOrder[j])) = c
      BY <2>3, OrderFacts DEF n
    <2>6. ViewOrder[j] \in ViewSet
      BY <1>2, <2>3
    <2>7. ViewOrder[j] = v
      BY <2>5, <2>6, OrderFacts DEF c
    <2> QED BY <2>4, <2>7
  <1> QED BY <1>1, <1>3, <1>4, <1>5 DEF page, o

(***************************************************************************)
(* The type of the walk.                                                   *)
(***************************************************************************)
WalkType ==
    /\ walk \in [of: {None, "views", "runs"}, step: {"idle", "list", "count", "done"}, offset: Nat, total: Nat,
                 page: Seq(Views \cup Nat), got: Seq(Views \cup Nat)]
    /\ walk.of = "views" => {walk.page, walk.got} \subseteq Seq(Views)

LEMMA Longer ==
    ASSUME NEW T, NEW s \in Seq(T), NEW U, T \subseteq U
    PROVE  s \in Seq(U)
  OBVIOUS

\* A turn of the page keeps the type of the walk.
LEMMA TurnType ==
    ASSUME TypeInv, NEW T, NEW page \in Seq(T), T \subseteq Views \cup Nat, walk.of = "views" => T \subseteq Views,
           NEW total, NEW first \in {"list", "count"}, Turn(page, total, first)
    PROVE  WalkType'
  <1>1. /\ walk \in [of: {None, "views", "runs"}, step: {"idle", "list", "count", "done"}, offset: Nat, total: Nat,
                     page: Seq(Views \cup Nat), got: Seq(Views \cup Nat)]
        /\ walk.of = "views" => walk.got \in Seq(Views)
    BY DEF TypeInv, TypeOK
  <1>2. page \in Seq(Views \cup Nat) /\ (walk.of = "views" => page \in Seq(Views)) /\ Len(page) \in Nat
    BY Longer
  <1>3. walk.offset \in Nat /\ Cursor(walk.offset, Len(page)) \in Nat
    BY <1>1, <1>2 DEF Cursor
  <1>4. PICK s, o : /\ s \in {"list", "count", "done"} /\ o \in Nat
                    /\ walk' = [walk EXCEPT !.step = s, !.offset = o, !.page = <<>>, !.total = 0, !.got = walk.got \o page]
    BY <1>3 DEF Turn
  <1>5. walk.got \o page \in Seq(Views \cup Nat) /\ (walk.of = "views" => walk.got \o page \in Seq(Views))
    BY <1>1, <1>2
  <1>6. <<>> \in Seq(Views \cup Nat) /\ <<>> \in Seq(Views)
    OBVIOUS
  <1>g. PICK g : g = walk.got \o page
    OBVIOUS
  <1>7. walk' = [of |-> walk.of, step |-> s, offset |-> o, total |-> 0, page |-> <<>>, got |-> g]
    BY <1>1, <1>4, <1>g
  <1>8. walk.of \in {None, "views", "runs"}
    BY <1>1
  <1>9. walk' \in [of: {None, "views", "runs"}, step: {"idle", "list", "count", "done"}, offset: Nat, total: Nat,
                   page: Seq(Views \cup Nat), got: Seq(Views \cup Nat)]
    <2>1. s \in {"idle", "list", "count", "done"} /\ o \in Nat /\ 0 \in Nat
      BY <1>4
    <2>2. g \in Seq(Views \cup Nat) /\ <<>> \in Seq(Views \cup Nat)
      BY <1>5, <1>6, <1>g
    <2> QED BY <1>7, <1>8, <2>1, <2>2
  <1>10. walk'.of = "views" => {walk'.page, walk'.got} \subseteq Seq(Views)
    BY <1>5, <1>6, <1>7, <1>g
  <1> QED BY <1>9, <1>10 DEF WalkType

LEMMA WalkTypeNext ==
    ASSUME TypeInv, StampInv, [Next]_vars
    PROVE  WalkType'
  <1>0. WalkType /\ walk.offset \in Nat /\ PageSize \in Nat
    BY ViewsAssumption DEF TypeInv, TypeOK, WalkType, ViewsAssumption
  <1>1. CASE walk' = walk
    BY <1>0, <1>1 DEF WalkType
  <1>2. CASE \E s \in {"idle", "list", "count", "done"} : walk' = [walk EXCEPT !.step = s]
    BY <1>0, <1>2 DEF WalkType
  <1>3. CASE Begin
    <2>1. \/ walk' = [walk EXCEPT !.of = "views", !.step = "list"]
          \/ walk' = [walk EXCEPT !.of = "runs", !.step = "count"]
      BY <1>3 DEF Begin
    <2>2. walk.page = <<>> /\ walk.got = <<>>
      BY <1>3 DEF Begin, TypeInv, AtRest
    <2>3. <<>> \in Seq(Views)
      OBVIOUS
    <2>4. walk'.page = <<>> /\ walk'.got = <<>>
      BY <1>0, <2>1, <2>2 DEF WalkType
    <2>5. walk' \in [of: {None, "views", "runs"}, step: {"idle", "list", "count", "done"}, offset: Nat, total: Nat,
                     page: Seq(Views \cup Nat), got: Seq(Views \cup Nat)]
      BY <1>0, <2>1 DEF WalkType
    <2> QED BY <2>3, <2>4, <2>5 DEF WalkType
  <1>4. CASE ListViews
    <2>1. CASE walk' = [walk EXCEPT !.page = Page(ViewOrder), !.step = "count"]
      <3>1. Page(ViewOrder) \in Seq(ViewSet) /\ ViewSet \subseteq Views
        BY ViewPage DEF ViewSet
      <3>2. Page(ViewOrder) \in Seq(Views) /\ Page(ViewOrder) \in Seq(Views \cup Nat)
        BY <3>1, Longer
      <3>3. PICK p : p = Page(ViewOrder)
        OBVIOUS
      <3>4. walk' = [walk EXCEPT !.page = p, !.step = "count"] /\ p \in Seq(Views) /\ p \in Seq(Views \cup Nat)
        BY <2>1, <3>2, <3>3
      <3>5. walk' \in [of: {None, "views", "runs"}, step: {"idle", "list", "count", "done"}, offset: Nat, total: Nat,
                       page: Seq(Views \cup Nat), got: Seq(Views \cup Nat)]
        BY <1>0, <3>4 DEF WalkType
      <3>6. walk'.page = p /\ walk'.got = walk.got /\ walk'.of = walk.of
        BY <1>0, <3>4 DEF WalkType
      <3> QED BY <1>0, <3>4, <3>5, <3>6 DEF WalkType
    <2> QED BY <1>2, <1>4, <2>1 DEF ListViews
  <1>5. CASE CountViews
    <2>1. walk.of = "views" /\ walk.page \in Seq(Views)
      BY <1>0, <1>5 DEF CountViews, WalkType
    <2>2. \E total : Turn(walk.page, total, "list")
      BY <1>5 DEF CountViews
    <2> QED BY <2>1, <2>2, TurnType
  <1>6. CASE CountRuns
    <2>1. Cardinality(runs) \in Nat
      BY FS_CardinalityType DEF TypeInv
    <2>2. \E n \in Nat : walk' = [walk EXCEPT !.total = n, !.step = "list"]
      BY <1>6, <2>1 DEF CountRuns
    <2>3. PICK n \in Nat : walk' = [walk EXCEPT !.total = n, !.step = "list"]
      BY <2>2
    <2>4. walk' \in [of: {None, "views", "runs"}, step: {"idle", "list", "count", "done"}, offset: Nat, total: Nat,
                     page: Seq(Views \cup Nat), got: Seq(Views \cup Nat)]
      BY <1>0, <2>3 DEF WalkType
    <2>5. walk'.page = walk.page /\ walk'.got = walk.got /\ walk'.of = walk.of
      BY <1>0, <2>3 DEF WalkType
    <2> QED BY <1>0, <2>4, <2>5 DEF WalkType
  <1>7. CASE ListRuns
    <2>1. CASE Turn(Page(RunOrder), walk.total, "count")
      <3>1. runs \subseteq Nat /\ IsFiniteSet(runs)
        BY ViewsAssumption DEF TypeInv, TypeOK, ViewsAssumption
      <3>2. RunOrder \in Seq(runs)
        BY <3>1, NewestFacts DEF RunOrder
      <3>3. Page(RunOrder) \in Seq(runs)
        BY <1>0, <3>2, PageFacts
      <3>4. walk.of # "views" /\ runs \subseteq Views \cup Nat
        BY <1>7, <3>1 DEF ListRuns
      <3> QED BY <2>1, <3>3, <3>4, TurnType
    <2> QED BY <1>2, <1>7, <2>1 DEF ListRuns
  <1>8. CASE Crash
    BY <1>1, <1>2, <1>8, CrashFacts
  <1>9. ASSUME NEW r \in Requests, Receive(r) \/ Step(r) PROVE walk' = walk
    BY <1>9, RowStep DEF Receive, Frame
  <1> QED BY <1>1, <1>3, <1>4, <1>5, <1>6, <1>7, <1>8, <1>9 DEF Next, WalkStep, NewRun, vars

LEMMA AtRestNext ==
    ASSUME TypeInv, StampInv, [Next]_vars
    PROVE  AtRest'
  <1>0. WalkType /\ AtRest /\ None \notin {"views", "runs"}
    BY ViewsAssumption DEF TypeInv, TypeOK, WalkType, ViewsAssumption
  <1>1. CASE walk' = walk
    BY <1>0, <1>1 DEF AtRest
  <1>2. CASE Begin
    BY <1>0, <1>2 DEF Begin, AtRest, WalkType
  <1>3. CASE walk.step # "idle" /\ walk'.step # "idle" /\ walk'.of = walk.of
    BY <1>0, <1>3 DEF AtRest
  <1>4. WalkStep => walk.step # "idle" /\ walk'.step # "idle" /\ walk'.of = walk.of
    BY <1>0 DEF WalkStep, ListViews, CountViews, CountRuns, ListRuns, WalkType, Turn
  <1>5. Crash => walk' = walk \/ (walk.step # "idle" /\ walk'.step # "idle" /\ walk'.of = walk.of)
    BY <1>0, CrashFacts DEF WalkType, Walking
  <1>6. ASSUME NEW r \in Requests, Receive(r) \/ Step(r) PROVE walk' = walk
    BY <1>6, RowStep DEF Receive, Frame
  <1> QED BY <1>1, <1>2, <1>3, <1>4, <1>5, <1>6 DEF Next, NewRun, vars

\* The parts of the type invariant that are not about the walk.
Typed ==
    /\ rows \in [Views -> Row \cup {None}]
    /\ stamp \in [Views -> 0..Cardinality(Views)] /\ runs \subseteq FirstRuns \cup LaterRuns /\ IsFiniteSet(runs)
    /\ pc \in [Requests -> Steps]
    /\ input \in [Requests -> Inputs \cup {None}] /\ read \in [Requests -> Row \cup {None}]
    /\ result \in [Requests -> {None, "ok", "error"}]
    /\ seen \in [Requests -> SUBSET Requests]
    /\ saw \subseteq {"deleted", "early", "run", "failed"}
    /\ faults \in 0..MaxFaults

LEMMA TypedStep ==
    ASSUME TypeInv, StampInv, NEW r \in Requests, Step(r)
    PROVE  Typed'
  <1>1. Typed
    BY DEF TypeInv, TypeOK, Typed
  <1>2. stamp' \in [Views -> 0..Cardinality(Views)]
    <2>1. CASE Stamp(r)
      <3>1. StampInv' /\ stamp' = [stamp EXCEPT ![r] = 1 + Cardinality(Stamped)] /\ Stamped' = Stamped \cup {r}
            /\ r \notin Stamped /\ r \in Views
        BY <2>1, StampInvStep, StampFacts, InputFacts
      <3>2. Stamped' \subseteq Views /\ Stamped \subseteq Views
        BY <3>1 DEF Stamped
      <3>3. IsFiniteSet(Stamped) /\ Cardinality(Stamped) \in Nat
            /\ Cardinality(Stamped') <= Cardinality(Views) /\ Cardinality(Views) \in Nat
        BY <3>2, FiniteFacts
      <3>4. Cardinality(Stamped') = Cardinality(Stamped) + 1
        BY <3>1, <3>3, FS_AddElement
      <3>5. 1 + Cardinality(Stamped) \in 0..Cardinality(Views)
        BY <3>3, <3>4
      <3> QED BY <1>1, <3>1, <3>5 DEF Typed
    <2>2. CASE ~Stamp(r)
      BY <1>1, <2>2, CreateFacts, FindFacts, SaveFacts, InsertFacts, DeleteFacts DEF Step, Typed
    <2> QED BY <2>1, <2>2
  <1>3. input' = input /\ seen' = seen /\ runs' = runs
    BY RowStep DEF Frame
  <1>4. faults' \in 0..MaxFaults
    BY RowStep, FaultsType
  <1> QED BY <1>1, <1>2, <1>3, <1>4, RowStep, RequestTypes DEF Typed

LEMMA TypedReceive ==
    ASSUME TypeInv, NEW r \in Requests, Receive(r)
    PROVE  Typed'
  <1>1. Typed
    BY DEF TypeInv, TypeOK, Typed
  <1>2. PICK i \in Inputs : input' = [input EXCEPT ![r] = i]
    BY DEF Receive
  <1>3. input' \in [Requests -> Inputs \cup {None}] /\ seen' \in [Requests -> SUBSET Requests]
    BY <1>1, <1>2 DEF Receive, Typed, Ended
  <1>4. \A s \in Steps : Goto(r, s) => pc' \in [Requests -> Steps] /\ result' = result
    BY <1>1 DEF Goto, Typed
  <1>5. Reply(r, "error") => pc' \in [Requests -> Steps] /\ result' \in [Requests -> {None, "ok", "error"}]
    BY <1>1 DEF Reply, Typed, Steps
  <1>6. \A j \in Inputs : (CASE j.op = "create" -> "stamp" [] j.op = "update" -> "find" [] OTHER -> "delete") \in Steps
    BY DEF Steps, Working
  <1>7. pc' \in [Requests -> Steps] /\ result' \in [Requests -> {None, "ok", "error"}]
    BY <1>1, <1>4, <1>5, <1>6 DEF Receive, Typed
  <1>8. UNCHANGED <<rows, stamp, runs, read, saw>> /\ faults' \in 0..MaxFaults
    BY ReceiveFacts, FaultsType
  <1> QED BY <1>1, <1>3, <1>7, <1>8 DEF Typed

LEMMA TypeNext ==
    ASSUME TypeInv, StampInv, [Next]_vars
    PROVE  TypeInv'
  <1>1. Typed /\ \A q \in Requests : Knows(q) /\ Fresh(q)
    BY DEF TypeInv, TypeOK, Typed
  <1>2. WalkType' /\ AtRest'
    BY WalkTypeNext, AtRestNext
  <1>3. ASSUME Typed', \A q \in Requests : Knows(q)' /\ Fresh(q)' PROVE TypeInv'
    BY <1>2, <1>3 DEF TypeInv, TypeOK, Typed, WalkType
  <1>4. ASSUME NEW r \in Requests, Step(r) PROVE TypeInv'
    BY <1>3, <1>4, TypedStep, StepKnows
  <1>5. ASSUME NEW r \in Requests, Receive(r) PROVE TypeInv'
    BY <1>3, <1>5, TypedReceive, ReceiveKnows
  <1>6. CASE Crash
    <2>1. Fails /\ Notice({"failed"}) /\ read' = [r \in Requests |-> None]
          /\ UNCHANGED <<rows, stamp, runs, input, result, seen>>
      BY <1>6, CrashFacts
    <2>2. pc' \in [Requests -> Steps]
      BY <1>1, <1>6 DEF Crash, Typed, Steps
    <2>3. faults' \in 0..MaxFaults /\ saw' \subseteq {"deleted", "early", "run", "failed"}
      BY <2>1, FaultsType, NoticeType
    <2>4. Typed'
      BY <1>1, <2>1, <2>2, <2>3 DEF Typed
    <2> QED BY <1>3, <1>6, <2>4, CrashKnows
  <1>7. ASSUME UNCHANGED <<rows, pc, input, read, result, seen>> PROVE \A q \in Requests : Knows(q)' /\ Fresh(q)'
    BY <1>1, <1>7 DEF Knows, Fresh, Started, Ended
  <1>8. CASE NewRun
    <2>1. PICK n \in LaterRuns : runs' = runs \cup {n}
      BY <1>8 DEF NewRun
    <2>2. runs' \subseteq FirstRuns \cup LaterRuns /\ IsFiniteSet(runs')
      BY <1>1, <2>1, FS_AddElement DEF Typed
    <2>3. UNCHANGED <<rows, stamp, pc, input, read, result, seen, faults>> /\ Notice({"run"})
      BY <1>8 DEF NewRun
    <2>4. saw' \subseteq {"deleted", "early", "run", "failed"}
      BY <2>3, NoticeType
    <2>5. Typed'
      BY <1>1, <2>2, <2>3, <2>4 DEF Typed
    <2> QED BY <1>3, <1>7, <2>3, <2>5
  <1>9. CASE Begin \/ UNCHANGED vars
    <2>1. UNCHANGED <<rows, stamp, runs, pc, input, read, result, seen, saw, faults>>
      BY <1>9 DEF Begin, vars, tables, history
    <2>2. Typed'
      BY <1>1, <2>1 DEF Typed
    <2> QED BY <1>3, <1>7, <2>1, <2>2
  <1>10. CASE WalkStep
    <2>1. UNCHANGED <<rows, stamp, runs, pc, input, read, result, seen>>
      BY <1>10 DEF WalkStep, ListViews, CountViews, CountRuns, ListRuns, tables
    <2>2. (Succeeds \/ Fails) /\ (saw' = saw \/ Notice({"failed"}))
      BY <1>10 DEF WalkStep, ListViews, CountViews, CountRuns, ListRuns
    <2>3. faults' \in 0..MaxFaults /\ saw' \subseteq {"deleted", "early", "run", "failed"}
      BY <2>2, FaultsType, NoticeType
    <2>4. Typed'
      BY <1>1, <2>1, <2>3 DEF Typed
    <2> QED BY <1>3, <1>7, <2>1, <2>4
  <1> QED BY <1>4, <1>5, <1>6, <1>8, <1>9, <1>10 DEF Next

(***************************************************************************)
(* Answers: what a request was answered for holds until a later one, which *)
(* has not read the row too early.                                         *)
(***************************************************************************)
Firm(r) == input[r].op = "update" /\ result[r] = "ok" /\ On(input[r].view, Overlaps(r)) = {}

Regiven(r, f) ==
    \E q \in On(input[r].view, Later(r)) : input[q].op = "delete" \/ f \in input[q].fields

Holds(r, f) ==
    /\ rows[input[r].view] # None /\ rows[input[r].view][f] = r
    /\ \A q \in On(input[r].view, Later(r)) : pc[q] \in {"save", "insert"} => read[q][f] = r

UpdateInv == \A r \in Ended : Firm(r) => \A f \in input[r].fields : Regiven(r, f) \/ Holds(r, f)

Final(r) ==
    /\ input[r].op = "delete" /\ result[r] = "ok"
    /\ \A q \in On(input[r].view, Overlaps(r)) : input[q].op = "delete"

DeleteInv ==
    \A r \in Ended :
        Final(r) => rows[input[r].view] = None
                    /\ \A q \in On(input[r].view, Later(r)) : pc[q] \notin {"save", "insert"}

\* A step changes nothing of who came before whom ...
LEMMA SameHistory ==
    ASSUME input' = input, seen' = seen, Started' = Started
    PROVE  /\ \A r : Overlaps(r)' = Overlaps(r) /\ Later(r)' = Later(r)
           /\ \A r, v : On(v, Overlaps(r))' = On(v, Overlaps(r)) /\ On(v, Later(r))' = On(v, Later(r))
  <1>1. \A r : Overlaps(r)' = Overlaps(r) /\ Later(r)' = Later(r)
    BY DEF Overlaps, Later
  <1> QED BY <1>1 DEF On

\* ... and a request that arrives comes after all that have ended.
LEMMA ReceiveHistory ==
    ASSUME TypeInv, NEW x \in Requests, Receive(x), NEW r \in Ended
    PROVE  /\ r # x /\ input'[r] = input[r] /\ result'[r] = result[r] /\ pc[x] = "idle" /\ r \in Ended'
           /\ \A v : On(v, Overlaps(r))' = On(v, Overlaps(r))
           /\ \A v : On(v, Later(r)) \subseteq On(v, Later(r))' /\ On(v, Later(r))' \subseteq On(v, Later(r)) \cup {x}
           /\ \A q \in Started : input'[q] = input[q] /\ q # x
           /\ Ended' \subseteq Ended \cup {x} /\ (result'[x] # "ok") /\ pc'[x] \notin {"save", "insert"}
           /\ \A q \in Requests \ {x} : pc'[q] = pc[q]
  <1>1. /\ pc[x] = "idle" /\ seen' = [seen EXCEPT ![x] = Ended]
        /\ pc'[x] \in {"stamp", "find", "delete", "done"} /\ (result'[x] # "ok")
        /\ \A q \in Requests \ {x} : pc'[q] = pc[q] /\ result'[q] = result[q]
    BY ReceiveFacts, InputFacts
  <1>2. PICK i \in Inputs : input' = [input EXCEPT ![x] = i]
    BY DEF Receive
  <1>3. \A q \in Requests \ {x} : input'[q] = input[q] /\ seen'[q] = seen[q]
    BY <1>1, <1>2 DEF TypeInv, TypeOK
  <1>4. seen'[x] = Ended
    BY <1>1 DEF TypeInv, TypeOK
  <1>5. r # x /\ x \notin Started /\ Started' = Started \cup {x} /\ Started \subseteq Requests /\ r \in Started
    BY <1>1 DEF Started, Ended
  <1>6. Overlaps(r)' = Overlaps(r)
    BY <1>3, <1>4, <1>5 DEF Overlaps
  <1>7. Later(r)' = Later(r) \cup {x}
    BY <1>3, <1>4, <1>5 DEF Later
  <1>8. Overlaps(r) \subseteq Started /\ Later(r) \subseteq Started
    BY DEF Overlaps, Later
  <1>9. \A q \in Started : input'[q] = input[q] /\ q # x
    BY <1>3, <1>5
  <1>10. \A v : On(v, Overlaps(r))' = On(v, Overlaps(r))
    BY <1>6, <1>8, <1>9 DEF On
  <1>11. \A v : On(v, Later(r)) \subseteq On(v, Later(r))' /\ On(v, Later(r))' \subseteq On(v, Later(r)) \cup {x}
    BY <1>7, <1>8, <1>9 DEF On
  <1>12. r \in Ended' /\ Ended' \subseteq Ended \cup {x}
    BY <1>1, <1>5 DEF Ended
  <1> QED BY <1>1, <1>3, <1>5, <1>9, <1>10, <1>11, <1>12 DEF Ended

\* A request that is executed and overlaps none that has ended came later.
LEMMA Comes ==
    ASSUME TypeInv, NEW r \in Ended, NEW q \in Started \ Ended, NEW v, input[q].view = v
    PROVE  q \in On(v, Overlaps(r)) \/ q \in On(v, Later(r))
  <1>1. r # q /\ r \in Requests
    BY DEF Ended
  <1>2. seen[r] \subseteq Ended
    BY <1>1 DEF TypeInv, Knows
  <1> QED BY <1>1, <1>2 DEF Overlaps, Later, On

\* No request that has ended is later than one that has not.
LEMMA NoneLater ==
    ASSUME TypeInv, NEW q \in Requests, q \notin Ended, NEW v
    PROVE  On(v, Later(q)) = {}
  <1>1. \A p \in Requests : seen[p] \subseteq Ended
    BY DEF TypeInv, Knows
  <1> QED BY <1>1 DEF On, Later, Started

LEMMA UpdateStep ==
    ASSUME TypeInv, UpdateInv, NEW q \in Requests, Step(q)
    PROVE  UpdateInv'
  <1>1. /\ Frame(q) /\ Started' = Started /\ q \in Started /\ q \notin Ended
        /\ Ended' \subseteq Ended \cup {q}
    BY RowStep, StepHistory
  <1>2. input' = input /\ seen' = seen
    BY <1>1 DEF Frame
  <1>3. \A r, v : On(v, Overlaps(r))' = On(v, Overlaps(r)) /\ On(v, Later(r))' = On(v, Later(r))
    BY <1>1, <1>2, SameHistory
  <1> SUFFICES ASSUME NEW r \in Ended', Firm(r)', NEW f \in input[r].fields, ~Regiven(r, f)'
               PROVE  Holds(r, f)'
    BY <1>2 DEF UpdateInv
  <1> DEFINE v == input[r].view
  <1>4. r \in Requests /\ r \in Started /\ input[r] \in Inputs /\ input[r].op = "update" /\ f \in Fields
    <2>1. r \in Requests /\ r \in Started
      BY <1>1 DEF Ended, Started
    <2>2. input[r] \in Inputs
      BY <2>1 DEF TypeInv, Knows, Started
    <2> QED BY <1>2, <2>1, <2>2, InputFacts DEF Firm
  <1>5. v \in Views /\ rows \in [Views -> Row \cup {None}] /\ q \in Views
    BY <1>4, InputFacts DEF TypeInv, TypeOK
  <1>6. ~Regiven(r, f)
    BY <1>2, <1>3 DEF Regiven
  <1>7. CASE r \in Ended
    <2>1. result'[r] = result[r]
      BY <1>1, <1>4, <1>7 DEF Frame
    <2>2. Firm(r)
      BY <1>2, <1>3, <2>1 DEF Firm
    <2>3. Holds(r, f)
      BY <1>6, <1>7, <2>2 DEF UpdateInv
    <2>4. input[q].view = v => /\ q \in On(v, Later(r))
                               /\ input[q].op # "delete" /\ f \notin input[q].fields
      <3>1. ASSUME input[q].view = v PROVE q \in On(v, Later(r))
        BY <1>1, <1>7, <2>2, <3>1, Comes DEF Firm
      <3> QED BY <1>6, <3>1 DEF Regiven
    <2>5. rows'[v] # None /\ rows'[v][f] = r
      <3>1. CASE rows'[v] = rows[v]
        BY <2>3, <3>1 DEF Holds
      <3>2. CASE /\ pc[q] \in {"save", "insert"} /\ input[q].view \in Views
                 /\ rows' = [rows EXCEPT ![input[q].view] = Written(q, read[q])]
        <4>1. CASE input[q].view = v
          <5>1. read[q] \in Row /\ read[q][f] = r
            BY <2>3, <2>4, <3>2, <4>1 DEF Holds, TypeInv, Knows
          <5>2. rows'[v] = Written(q, read[q])
            BY <1>5, <3>2, <4>1
          <5>3. Written(q, read[q])[f] = read[q][f]
            BY <1>4, <2>4, <4>1 DEF Written
          <5> QED BY <5>1, <5>2, <5>3, WrittenType
        <4>2. CASE input[q].view # v
          BY <1>5, <3>1, <3>2, <4>2
        <4> QED BY <4>1, <4>2
      <3>3. CASE pc[q] = "create" /\ rows' = [rows EXCEPT ![q] = Written(q, Blank)]
        <4>1. v # q
          BY <1>4, <3>3 DEF TypeInv, Fresh
        <4> QED BY <1>5, <3>1, <3>3, <4>1
      <3>4. CASE pc[q] = "delete" /\ input[q].view \in Views /\ rows' = [rows EXCEPT ![input[q].view] = None]
        <4>1. input[q].view # v
          BY <2>4, <3>4 DEF TypeInv, Knows
        <4> QED BY <1>5, <3>1, <3>4, <4>1
      <3> QED BY <3>1, <3>2, <3>3, <3>4, RowStep
    <2>6. ASSUME NEW p \in On(v, Later(r)), pc'[p] \in {"save", "insert"} PROVE read'[p][f] = r
      <3>0. p \in Requests /\ input[p].view = v
        BY DEF On, Later, Started
      <3>1. CASE p # q
        BY <1>1, <2>3, <2>6, <3>0, <3>1 DEF Holds, Frame
      <3>2. CASE p = q
        <4>1. \/ read'[q] = rows[v]
              \/ pc[q] = "save" /\ read'[q] = read[q]
          BY <2>6, <3>0, <3>2, StepTurn
        <4> QED BY <2>3, <2>6, <3>2, <4>1 DEF Holds
      <3> QED BY <3>1, <3>2
    <2> QED BY <1>2, <1>3, <2>5, <2>6 DEF Holds
  <1>8. CASE r \notin Ended
    <2>1. r = q /\ result'[q] = "ok" /\ pc'[q] = "done"
      BY <1>1, <1>8 DEF Firm, Ended
    <2>2. pc[q] \in {"find", "save", "insert"}
      <3>1. pc[q] \in Working /\ input[q].op = "update"
        BY <1>4, <2>1, RowStep
      <3> QED BY <3>1 DEF TypeInv, Knows, Working
    <2>3. rows' = [rows EXCEPT ![v] = Written(q, read[q])] /\ pc[q] \in {"save", "insert"}
      BY <2>1, <2>2, StampFacts, CreateFacts, FindFacts, SaveFacts, InsertFacts, DeleteFacts, InputFacts DEF Step, Ends
    <2>4. rows'[v] = Written(q, read[q]) /\ read[q] \in Row
      BY <1>5, <2>3 DEF TypeInv, Knows
    <2>5. rows'[v] # None /\ rows'[v][f] = r
      <3>1. Written(q, read[q])[f] = q
        BY <1>4, <2>1 DEF Written
      <3> QED BY <2>1, <2>4, <3>1, WrittenType
    <2>6. On(v, Later(r)) = {}
      BY <1>4, <1>8, NoneLater
    <2> QED BY <1>2, <1>3, <2>5, <2>6 DEF Holds
  <1> QED BY <1>7, <1>8

LEMMA DeleteStep ==
    ASSUME TypeInv, DeleteInv, NEW q \in Requests, Step(q)
    PROVE  DeleteInv'
  <1>1. /\ Frame(q) /\ Started' = Started /\ q \in Started /\ q \notin Ended
        /\ Ended' \subseteq Ended \cup {q}
    BY RowStep, StepHistory
  <1>2. input' = input /\ seen' = seen
    BY <1>1 DEF Frame
  <1>3. \A r, v : On(v, Overlaps(r))' = On(v, Overlaps(r)) /\ On(v, Later(r))' = On(v, Later(r))
    BY <1>1, <1>2, SameHistory
  <1> SUFFICES ASSUME NEW r \in Ended', Final(r)'
               PROVE  /\ rows'[input[r].view] = None
                      /\ \A p \in On(input[r].view, Later(r)) : pc'[p] \notin {"save", "insert"}
    BY <1>2, <1>3 DEF DeleteInv
  <1> DEFINE v == input[r].view
  <1>4. r \in Requests /\ r \in Started /\ input[r] \in Inputs /\ input[r].op = "delete"
    <2>1. r \in Requests /\ r \in Started
      BY <1>1 DEF Ended, Started
    <2>2. input[r] \in Inputs
      BY <2>1 DEF TypeInv, Knows, Started
    <2> QED BY <1>2, <2>1, <2>2 DEF Final
  <1>5. v \in Views /\ rows \in [Views -> Row \cup {None}] /\ q \in Views
    BY <1>4, InputFacts DEF TypeInv, TypeOK
  <1>6. CASE r \in Ended
    <2>1. result'[r] = result[r]
      BY <1>1, <1>4, <1>6 DEF Frame
    <2>2. Final(r)
      BY <1>2, <1>3, <2>1 DEF Final
    <2>3. rows[v] = None /\ \A p \in On(v, Later(r)) : pc[p] \notin {"save", "insert"}
      BY <1>6, <2>2 DEF DeleteInv
    <2>4. input[q].view = v => pc[q] \notin {"save", "insert"}
      <3>1. CASE input[q].view = v /\ q \in On(v, Overlaps(r))
        <4>1. input[q].op = "delete"
          BY <2>2, <3>1 DEF Final
        <4> QED BY <4>1 DEF TypeInv, Knows
      <3>2. CASE input[q].view = v /\ q \in On(v, Later(r))
        BY <2>3, <3>2
      <3> QED BY <1>1, <1>6, <3>1, <3>2, Comes
    <2>5. rows'[v] = None
      <3>1. CASE pc[q] = "create" /\ rows' = [rows EXCEPT ![q] = Written(q, Blank)]
        <4>1. v # q
          BY <1>4, <3>1 DEF TypeInv, Fresh
        <4> QED BY <1>5, <2>3, <3>1, <4>1
      <3> QED BY <1>5, <2>3, <2>4, <3>1, RowStep
    <2>6. ASSUME NEW p \in On(v, Later(r)) PROVE pc'[p] \notin {"save", "insert"}
      <3>0. p \in Requests /\ input[p].view = v
        BY DEF On, Later, Started
      <3>1. CASE p # q
        BY <1>1, <2>3, <3>0, <3>1 DEF Frame
      <3>2. CASE p = q
        BY <2>3, <3>0, <3>2, StepTurn
      <3> QED BY <3>1, <3>2
    <2> QED BY <2>5, <2>6
  <1>7. CASE r \notin Ended
    <2>1. r = q /\ result'[q] = "ok" /\ pc'[q] = "done"
      BY <1>1, <1>7 DEF Final, Ended
    <2>2. pc[q] = "delete"
      <3>1. pc[q] \in Working /\ input[q].op = "delete"
        BY <1>4, <2>1, RowStep
      <3> QED BY <3>1 DEF TypeInv, Knows, Working
    <2>3. rows' = [rows EXCEPT ![v] = None]
      BY <2>1, <2>2, StampFacts, CreateFacts, FindFacts, SaveFacts, InsertFacts, DeleteFacts DEF Step, Ends
    <2>4. rows'[v] = None
      BY <1>5, <2>3
    <2>5. On(v, Later(r)) = {}
      BY <1>4, <1>7, NoneLater
    <2> QED BY <2>4, <2>5
  <1> QED BY <1>6, <1>7

LEMMA AnswersReceive ==
    ASSUME TypeInv, UpdateInv, DeleteInv, NEW x \in Requests, Receive(x)
    PROVE  UpdateInv' /\ DeleteInv'
  <1>1. rows' = rows /\ read' = read
    BY ReceiveFacts
  <1>2. ASSUME NEW r \in Ended', result'[r] = "ok"
        PROVE  r \in Ended
    <2>1. Ended' \subseteq Ended \cup {x} /\ result'[x] # "ok"
      BY ReceiveFacts, InputFacts DEF Ended
    <2> QED BY <1>2, <2>1
  <1>3. ASSUME NEW r \in Ended, Firm(r)', NEW f \in input'[r].fields PROVE Regiven(r, f)' \/ Holds(r, f)'
    <2> DEFINE v == input[r].view
    <2>1. /\ input'[r] = input[r] /\ result'[r] = result[r]
          /\ On(v, Overlaps(r))' = On(v, Overlaps(r))
          /\ On(v, Later(r)) \subseteq On(v, Later(r))' /\ On(v, Later(r))' \subseteq On(v, Later(r)) \cup {x}
          /\ \A q \in Started : input'[q] = input[q] /\ q # x
          /\ pc'[x] \notin {"save", "insert"} /\ \A q \in Requests \ {x} : pc'[q] = pc[q]
      BY ReceiveHistory
    <2>2. Firm(r)
      BY <1>3, <2>1 DEF Firm
    <2>3. Regiven(r, f) \/ Holds(r, f)
      BY <1>3, <2>1, <2>2 DEF UpdateInv
    <2>4. On(v, Later(r)) \subseteq Started
      BY DEF On, Later
    <2>5. Regiven(r, f) => Regiven(r, f)'
      BY <2>1, <2>4 DEF Regiven
    <2>6. Holds(r, f) => Holds(r, f)'
      BY <1>1, <2>1, <2>4 DEF Holds, Started
    <2> QED BY <2>3, <2>5, <2>6
  <1>4. ASSUME NEW r \in Ended, Final(r)'
        PROVE  rows'[input'[r].view] = None /\ \A q \in On(input[r].view, Later(r))' : pc'[q] \notin {"save", "insert"}
    <2> DEFINE v == input[r].view
    <2>1. /\ input'[r] = input[r] /\ result'[r] = result[r]
          /\ On(v, Overlaps(r))' = On(v, Overlaps(r))
          /\ On(v, Later(r))' \subseteq On(v, Later(r)) \cup {x}
          /\ \A q \in Started : input'[q] = input[q] /\ q # x
          /\ pc'[x] \notin {"save", "insert"} /\ \A q \in Requests \ {x} : pc'[q] = pc[q]
      BY ReceiveHistory
    <2>2. On(v, Later(r)) \subseteq Started /\ On(v, Overlaps(r)) \subseteq Started /\ Started \subseteq Requests
      BY DEF On, Later, Overlaps, Started
    <2>3. Final(r)
      BY <1>4, <2>1, <2>2 DEF Final
    <2>4. rows[v] = None /\ \A q \in On(v, Later(r)) : pc[q] \notin {"save", "insert"}
      BY <2>3 DEF DeleteInv
    <2> QED BY <1>1, <2>1, <2>2, <2>4
  <1>5. \A r \in Ended : input'[r] = input[r]
    BY ReceiveHistory
  <1>6. UpdateInv'
    BY <1>2, <1>3 DEF UpdateInv, Firm
  <1>7. DeleteInv'
    BY <1>2, <1>4, <1>5 DEF DeleteInv, Final
  <1> QED BY <1>6, <1>7

\* What ends without a result, and what is no request's step.
LEMMA AnswersKeep ==
    ASSUME TypeInv, UpdateInv, DeleteInv, rows' = rows, input' = input, seen' = seen, result' = result, Started' = Started,
           \A r \in Requests : /\ pc'[r] \in {"save", "insert"} => pc'[r] = pc[r] /\ read'[r] = read[r]
                               /\ pc'[r] = "done" => pc[r] = "done" \/ pc[r] \in Working
    PROVE  UpdateInv' /\ DeleteInv'
  <1>1. \A r, v : On(v, Overlaps(r))' = On(v, Overlaps(r)) /\ On(v, Later(r))' = On(v, Later(r))
    BY SameHistory
  <1>2. \A r \in Ended' : result[r] = "ok" => r \in Ended
    BY DEF Ended, TypeInv, Knows
  <1>3. \A r, v : On(v, Later(r)) \subseteq Requests
    BY DEF On, Later, Started
  <1>4. \A r : Firm(r)' = Firm(r) /\ Final(r)' = Final(r)
    BY <1>1 DEF Firm, Final
  <1>5. \A r, f : Regiven(r, f)' = Regiven(r, f)
    BY <1>1 DEF Regiven
  <1>6. \A r, f : Holds(r, f) => Holds(r, f)'
    BY <1>1, <1>3 DEF Holds
  <1>7. UpdateInv'
    BY <1>2, <1>4, <1>5, <1>6 DEF UpdateInv, Firm
  <1>8. DeleteInv'
    BY <1>1, <1>2, <1>3, <1>4 DEF DeleteInv, Final
  <1> QED BY <1>7, <1>8

LEMMA AnswersNext ==
    ASSUME TypeInv, UpdateInv, DeleteInv, [Next]_vars
    PROVE  UpdateInv' /\ DeleteInv'
  <1>1. CASE Crash
    <2>1. UNCHANGED <<rows, input, seen, result>> /\ \A r \in Requests : pc'[r] = IF pc[r] \in Working THEN "done" ELSE pc[r]
      BY <1>1, CrashFacts
    <2>2. Started' = Started /\ \A r \in Requests : pc'[r] \notin {"save", "insert"} /\ (pc'[r] = "done" => pc[r] = "done" \/ pc[r] \in Working)
      BY <2>1 DEF Started, Working
    <2> QED BY <2>1, <2>2, AnswersKeep
  <1>2. CASE NewRun \/ Begin \/ WalkStep \/ UNCHANGED vars
    <2>1. UNCHANGED <<rows, input, seen, result, pc, read>>
      BY <1>2 DEF NewRun, Begin, WalkStep, ListViews, CountViews, CountRuns, ListRuns, tables, history, vars
    <2>2. Started' = Started
      BY <2>1 DEF Started
    <2> QED BY <2>1, <2>2, AnswersKeep
  <1> QED BY <1>1, <1>2, UpdateStep, DeleteStep, AnswersReceive DEF Next

(***************************************************************************)
(* The walk of the views.                                                  *)
(***************************************************************************)
Member(v, list) == \E i \in 1..Len(list) : list[i] = v

\* The place in the order up to which a walk that is under way has got.
Reached == IF walk.step = "count" THEN walk.offset + PageSize ELSE walk.offset

PageInv ==
    /\ walk.of = "views" => Len(walk.page) <= PageSize /\ (walk.step = "list" => walk.page = <<>>)
    /\ walk.of = "views" => there \subseteq Stamped

\* A view that was there when the walk began is delivered, or still to come.
MissInv ==
    walk.of = "views" /\ saw \cap {"deleted", "failed"} = {} =>
        /\ Walking => there \subseteq ViewSet
        /\ \A v \in there : \/ Member(v, Delivered)
                            \/ Walking /\ Cardinality(Older(v)) >= Reached
        /\ walk.step = "done" => \A v \in there : Member(v, walk.got)

\* The views that are delivered are behind the offset of the next page.
TwiceInv ==
    walk.of = "views" /\ "early" \notin saw =>
        /\ IsInjective(Delivered)
        /\ Walking => \A i \in 1..Len(Delivered) :
                         Delivered[i] \in Stamped /\ Cardinality(Older(Delivered[i])) < walk.offset + Len(walk.page)

\* What is delivered of the runs is the beginning of their order.
RunsInv ==
    walk.of = "runs" /\ saw \cap {"run", "failed"} = {} =>
        /\ Walking => /\ runs = there /\ walk.offset <= Cardinality(runs) /\ Len(walk.got) = walk.offset
                      /\ \A i \in 1..Len(walk.got) : walk.got[i] = Newest(runs)[i]
                      /\ walk.step = "list" => walk.total = Cardinality(runs)
        /\ walk.step = "done" => walk.got = Newest(there)

LEMMA JoinFacts ==
    ASSUME NEW T, NEW s \in Seq(T), NEW t \in Seq(T)
    PROVE  /\ s \o t \in Seq(T) /\ Len(s \o t) = Len(s) + Len(t) /\ Len(s) \in Nat /\ Len(t) \in Nat
           /\ \A i \in 1..Len(s) : (s \o t)[i] = s[i]
           /\ \A j \in 1..Len(t) : (s \o t)[Len(s) + j] = t[j]
           /\ \A i \in 1..Len(s \o t) : i \in 1..Len(s) \/ (i - Len(s) \in 1..Len(t) /\ (s \o t)[i] = t[i - Len(s)])
           /\ s \o <<>> = s
  OBVIOUS

LEMMA MemberJoin ==
    ASSUME NEW T, NEW s \in Seq(T), NEW t \in Seq(T), NEW v
    PROVE  Member(v, s \o t) <=> Member(v, s) \/ Member(v, t)
  <1>1. Len(s \o t) = Len(s) + Len(t) /\ Len(s) \in Nat /\ Len(t) \in Nat
    BY JoinFacts
  <1>2. ASSUME Member(v, s) PROVE Member(v, s \o t)
    <2>1. PICK i \in 1..Len(s) : s[i] = v
      BY <1>2 DEF Member
    <2>2. i \in 1..Len(s \o t) /\ (s \o t)[i] = v
      BY <1>1, <2>1, JoinFacts
    <2> QED BY <2>2 DEF Member
  <1>3. ASSUME Member(v, t) PROVE Member(v, s \o t)
    <2>1. PICK j \in 1..Len(t) : t[j] = v
      BY <1>3 DEF Member
    <2>2. PICK i : i = Len(s) + j
      OBVIOUS
    <2>3. i \in 1..Len(s \o t)
      BY <1>1, <2>2
    <2>4. (s \o t)[i] = v
      BY <2>1, <2>2, JoinFacts
    <2> QED BY <2>3, <2>4 DEF Member
  <1>4. ASSUME Member(v, s \o t) PROVE Member(v, s) \/ Member(v, t)
    <2>1. PICK i \in 1..Len(s \o t) : (s \o t)[i] = v
      BY <1>4 DEF Member
    <2>2. CASE i \in 1..Len(s)
      BY <2>1, <2>2, JoinFacts DEF Member
    <2>3. CASE i - Len(s) \in 1..Len(t) /\ (s \o t)[i] = t[i - Len(s)]
      BY <2>1, <2>3 DEF Member
    <2> QED BY <2>1, <2>2, <2>3, JoinFacts
  <1> QED BY <1>2, <1>3, <1>4

\* How many views are older than one, before and after the views change.
LEMMA OlderMove ==
    ASSUME TypeInv, StampInv, ViewsMove, NEW v \in Stamped
    PROVE  /\ Cardinality(Older(v)) \in Nat /\ Cardinality(Older(v)') \in Nat
           /\ ViewSet \subseteq ViewSet' => Cardinality(Older(v)) <= Cardinality(Older(v)')
           /\ ViewSet' \subseteq ViewSet \/ (\E w \in Stamped : ViewSet' = ViewSet \cup {w} /\ ~(stamp[w] < stamp[v])) =>
                 Cardinality(Older(v)') <= Cardinality(Older(v))
  <1>1. ViewSet \subseteq Stamped /\ ViewSet' \subseteq Stamped /\ \A w \in Stamped : stamp'[w] = stamp[w]
    BY DEF StampInv, ViewsMove, Inserted
  <1>2. Older(v) \subseteq Views /\ Older(v)' \subseteq Views
    BY DEF Older, ViewSet
  <1>3. IsFiniteSet(Older(v)) /\ IsFiniteSet(Older(v)') /\ Cardinality(Older(v)) \in Nat /\ Cardinality(Older(v)') \in Nat
    BY <1>2, FiniteFacts
  <1>4. Older(v)' = {w \in ViewSet' : stamp[w] < stamp[v]}
    BY <1>1 DEF Older
  <1>5. ViewSet \subseteq ViewSet' => Older(v) \subseteq Older(v)'
    BY <1>4 DEF Older
  <1>6. ViewSet' \subseteq ViewSet \/ (\E w \in Stamped : ViewSet' = ViewSet \cup {w} /\ ~(stamp[w] < stamp[v])) =>
           Older(v)' \subseteq Older(v)
    BY <1>4 DEF Older
  <1> QED BY <1>3, <1>5, <1>6, FS_Subset

LEMMA QuietMove ==
    ASSUME rows' = rows, stamp' = stamp, walk' = walk, there' = there, saw' = saw
    PROVE  ViewsMove
  BY DEF ViewsMove, ViewSet, Stamped

LEMMA ViewsMoved ==
    ASSUME TypeInv, StampInv, PageInv, MissInv, TwiceInv, ViewsMove
    PROVE  PageInv' /\ MissInv' /\ TwiceInv'
  <1>1. walk' = walk /\ there' = there /\ Stamped \subseteq Stamped'
    BY DEF ViewsMove
  <1>2. Delivered' = Delivered /\ Walking' = Walking /\ Reached' = Reached
    BY <1>1 DEF Delivered, Walking, Reached
  <1>3. saw \subseteq saw' /\ (~Walking => saw' = saw)
    BY DEF ViewsMove, Notice, Inserted
  <1>4. PageInv'
    BY <1>1 DEF PageInv
  <1>5. MissInv'
    <2> SUFFICES ASSUME walk.of = "views", saw' \cap {"deleted", "failed"} = {}
                 PROVE  /\ Walking => there \subseteq ViewSet'
                        /\ \A v \in there : \/ Member(v, Delivered)
                                            \/ Walking /\ Cardinality(Older(v)') >= Reached
                        /\ walk.step = "done" => \A v \in there : Member(v, walk.got)
      BY <1>1, <1>2 DEF MissInv
    <2>1. /\ Walking => there \subseteq ViewSet
          /\ \A v \in there : \/ Member(v, Delivered)
                              \/ Walking /\ Cardinality(Older(v)) >= Reached
          /\ walk.step = "done" => \A v \in there : Member(v, walk.got)
      BY <1>3 DEF MissInv
    <2>2. Walking => ViewSet \subseteq ViewSet'
      BY DEF ViewsMove, Notice, Inserted
    <2>3. ASSUME NEW v \in there, Walking, Cardinality(Older(v)) >= Reached PROVE Cardinality(Older(v)') >= Reached
      <3>1. v \in Stamped
        BY DEF PageInv
      <3>2. /\ Cardinality(Older(v)) \in Nat /\ Cardinality(Older(v)') \in Nat
            /\ Cardinality(Older(v)) <= Cardinality(Older(v)')
        BY <2>2, <2>3, <3>1, OlderMove
      <3>3. Reached \in Nat
        BY ViewsAssumption DEF ViewsAssumption, Reached, TypeInv, TypeOK
      <3> QED BY <2>3, <3>2, <3>3
    <2> QED BY <2>1, <2>2, <2>3
  <1>6. TwiceInv'
    <2> SUFFICES ASSUME walk.of = "views", "early" \notin saw'
                 PROVE  /\ IsInjective(Delivered)
                        /\ Walking => \A i \in 1..Len(Delivered) :
                               Delivered[i] \in Stamped' /\ Cardinality(Older(Delivered[i])') < walk.offset + Len(walk.page)
      BY <1>1, <1>2 DEF TwiceInv
    <2>1. /\ IsInjective(Delivered)
          /\ Walking => \A i \in 1..Len(Delivered) :
                 Delivered[i] \in Stamped /\ Cardinality(Older(Delivered[i])) < walk.offset + Len(walk.page)
      BY <1>3 DEF TwiceInv
    <2>2. ASSUME Walking, NEW i \in 1..Len(Delivered)
          PROVE  Cardinality(Older(Delivered[i])') < walk.offset + Len(walk.page)
      <3>1. PICK d : d = Delivered[i]
        OBVIOUS
      <3>2. d \in Stamped /\ Cardinality(Older(d)) < walk.offset + Len(walk.page)
        BY <2>1, <2>2, <3>1
      <3>3. walk.page \in Seq(Views) /\ walk.got \in Seq(Views) /\ walk.offset \in Nat
        BY DEF TypeInv, TypeOK
      <3>4. DOMAIN Delivered = 1..Len(Delivered)
        BY <3>3 DEF Delivered
      <3>5. \/ ViewSet' \subseteq ViewSet
            \/ \E w \in Stamped : ViewSet' = ViewSet \cup {w} /\ ~(stamp[w] < stamp[d])
        <4>1. ASSUME NEW w \in Stamped, Inserted(w) PROVE ~(stamp[w] < stamp[d])
          <5>1. ~Early(w)
            BY <2>2, <4>1 DEF Inserted, Notice
          <5> QED BY <3>1, <3>4, <5>1 DEF Early
        <4> QED BY <4>1 DEF ViewsMove, Inserted
      <3>6. /\ Cardinality(Older(d)) \in Nat /\ Cardinality(Older(d)') \in Nat
            /\ Cardinality(Older(d)') <= Cardinality(Older(d))
        BY <3>2, <3>5, OlderMove
      <3>7. walk.offset + Len(walk.page) \in Nat
        BY <3>3
      <3>8. Cardinality(Older(d)') < walk.offset + Len(walk.page)
        BY <3>2, <3>6, <3>7
      <3>9. Older(Delivered[i])' = Older(d)'
        BY <1>2, <3>1 DEF Older
      <3> QED BY <3>8, <3>9
    <2> QED BY <1>1, <2>1, <2>2
  <1> QED BY <1>4, <1>5, <1>6

\* A walk that fails ends.
LEMMA WalkFails ==
    ASSUME TypeInv, PageInv, TwiceInv, walk' = [walk EXCEPT !.step = "done"], there' = there, stamp' = stamp,
           saw \subseteq saw', "failed" \in saw'
    PROVE  PageInv' /\ MissInv' /\ TwiceInv' /\ RunsInv'
  <1>1. /\ walk'.of = walk.of /\ walk'.page = walk.page /\ walk'.got = walk.got /\ walk'.step = "done"
    BY DEF TypeInv, TypeOK
  <1>2. PageInv'
    BY <1>1 DEF PageInv, Stamped
  <1>3. MissInv' /\ RunsInv'
    BY DEF MissInv, RunsInv
  <1>4. Delivered' = Delivered /\ ~Walking'
    BY <1>1 DEF Delivered, Walking
  <1>5. TwiceInv'
    BY <1>1, <1>4 DEF TwiceInv
  <1> QED BY <1>2, <1>3, <1>5

LEMMA BeginWalk ==
    ASSUME TypeInv, StampInv, Begin
    PROVE  PageInv' /\ MissInv' /\ TwiceInv' /\ RunsInv'
  <1>1. walk.step = "idle" /\ walk.offset = 0 /\ walk.page = <<>> /\ walk.got = <<>>
    BY DEF Begin, TypeInv, AtRest
  <1>2. /\ walk'.offset = 0 /\ walk'.page = <<>> /\ walk'.got = <<>>
        /\ \/ walk'.of = "views" /\ walk'.step = "list" /\ there' = ViewSet
           \/ walk'.of = "runs" /\ walk'.step = "count" /\ there' = runs
        /\ UNCHANGED <<rows, stamp, runs, saw>>
    BY <1>1 DEF Begin, TypeInv, TypeOK, tables
  <1>3. ViewSet' = ViewSet /\ ViewSet \subseteq Stamped /\ Stamped' = Stamped /\ Walking'
    BY <1>2 DEF ViewSet, Stamped, StampInv, Walking
  <1>4. Len(<<>>) = 0 /\ PageSize \in Nat
    BY ViewsAssumption DEF ViewsAssumption
  <1>5. PageInv'
    BY <1>2, <1>3, <1>4 DEF PageInv
  <1>6. Delivered' = <<>>
    BY <1>2 DEF Delivered
  <1>7. TwiceInv'
    BY <1>4, <1>6 DEF TwiceInv, IsInjective
  <1>8. MissInv'
    <2> SUFFICES ASSUME walk'.of = "views"
                 PROVE  /\ there' \subseteq ViewSet' /\ walk'.step # "done"
                        /\ \A v \in there' : Cardinality(Older(v)') >= Reached'
      BY <1>3 DEF MissInv
    <2>1. walk'.step = "list" /\ there' = ViewSet /\ Reached' = 0
      BY <1>2 DEF Reached
    <2>2. ASSUME NEW v \in ViewSet PROVE Cardinality(Older(v)') >= 0
      <3>1. Older(v)' \subseteq Views
        BY DEF Older, ViewSet
      <3>2. Cardinality(Older(v)') \in Nat
        BY <3>1, FiniteFacts
      <3> QED BY <3>2
    <2> QED BY <1>3, <2>1, <2>2
  <1>9. RunsInv'
    <2>1. Cardinality(runs) \in Nat
      BY FS_CardinalityType DEF TypeInv
    <2> QED BY <1>2, <1>4, <2>1 DEF RunsInv
  <1> QED BY <1>5, <1>7, <1>8, <1>9

LEMMA ListWalk ==
    ASSUME TypeInv, StampInv, PageInv, MissInv, TwiceInv, walk.of = "views", walk.step = "list",
           walk' = [walk EXCEPT !.page = Page(ViewOrder), !.step = "count"],
           saw' = saw, there' = there, rows' = rows, stamp' = stamp
    PROVE  PageInv' /\ MissInv' /\ TwiceInv'
  <1>1. PICK page : page = Page(ViewOrder)
    OBVIOUS
  <1>2. /\ walk'.of = "views" /\ walk'.step = "count" /\ walk'.page = page /\ walk'.got = walk.got
        /\ walk'.offset = walk.offset
    BY <1>1 DEF TypeInv, TypeOK
  <1>3. /\ page \in Seq(ViewSet) /\ Len(page) \in Nat /\ Len(page) <= PageSize
        /\ \A i \in 1..Len(page) : page[i] \in ViewSet /\ Cardinality(Older(page[i])) = walk.offset + i - 1
        /\ \A v \in ViewSet : walk.offset <= Cardinality(Older(v)) =>
              Cardinality(Older(v)) >= walk.offset + PageSize \/ \E i \in 1..Len(page) : page[i] = v
    BY <1>1, ViewPage
  <1>4. walk.page = <<>> /\ walk.got \in Seq(Views) /\ walk.offset \in Nat /\ PageSize \in Nat
    BY ViewsAssumption DEF PageInv, TypeInv, TypeOK, ViewsAssumption
  <1>5. page \in Seq(Views) /\ ViewSet \subseteq Views /\ ViewSet \subseteq Stamped
    BY <1>3, Longer DEF ViewSet, StampInv
  <1>6. Delivered = walk.got /\ Delivered' = walk.got \o page
    BY <1>2, <1>4, JoinFacts DEF Delivered
  <1>7. ViewSet' = ViewSet /\ Stamped' = Stamped /\ Walking /\ Walking' /\ \A v : Older(v)' = Older(v)
    BY <1>2 DEF ViewSet, Stamped, Walking, Older
  <1>8. PageInv'
    BY <1>2, <1>3, <1>7 DEF PageInv
  <1>9. MissInv'
    <2> SUFFICES ASSUME saw \cap {"deleted", "failed"} = {}
                 PROVE  /\ there \subseteq ViewSet
                        /\ \A v \in there : Member(v, walk.got \o page) \/ Cardinality(Older(v)) >= walk.offset + PageSize
      BY <1>2, <1>6, <1>7 DEF MissInv, Reached
    <2>1. there \subseteq ViewSet /\ \A v \in there : Member(v, walk.got) \/ Cardinality(Older(v)) >= walk.offset
      BY <1>6, <1>7 DEF MissInv, Reached
    <2>2. ASSUME NEW v \in there PROVE Member(v, walk.got \o page) \/ Cardinality(Older(v)) >= walk.offset + PageSize
      <3>1. CASE Member(v, walk.got)
        BY <1>4, <1>5, <3>1, MemberJoin
      <3>2. CASE Cardinality(Older(v)) >= walk.offset
        <4>1. Cardinality(Older(v)) \in Nat /\ v \in ViewSet
          <5>1. Older(v) \subseteq Views
            BY DEF Older, ViewSet
          <5> QED BY <2>1, <5>1, FiniteFacts
        <4>2. walk.offset <= Cardinality(Older(v))
          BY <1>4, <3>2, <4>1
        <4>3. Cardinality(Older(v)) >= walk.offset + PageSize \/ Member(v, page)
          BY <1>3, <4>1, <4>2 DEF Member
        <4> QED BY <1>4, <1>5, <4>3, MemberJoin
      <3> QED BY <2>1, <3>1, <3>2
    <2> QED BY <2>1, <2>2
  <1>10. TwiceInv'
    <2> SUFFICES ASSUME "early" \notin saw
                 PROVE  /\ IsInjective(walk.got \o page)
                        /\ \A i \in 1..Len(walk.got \o page) :
                              LET d == (walk.got \o page)[i] IN
                              d \in Stamped /\ Cardinality(Older(d)) < walk.offset + Len(page)
      BY <1>2, <1>6, <1>7 DEF TwiceInv
    <2> DEFINE g == walk.got
               l == Len(g)
               j == g \o page
    <2>1. /\ IsInjective(g)
          /\ \A i \in 1..l : g[i] \in Stamped /\ Cardinality(Older(g[i])) < walk.offset
      BY <1>4, <1>6, <1>7 DEF TwiceInv
    <2>2. /\ j \in Seq(Views) /\ Len(j) = l + Len(page) /\ l \in Nat
          /\ \A i \in 1..Len(j) : (i \in 1..l /\ j[i] = g[i]) \/ (i - l \in 1..Len(page) /\ j[i] = page[i - l])
      BY <1>4, <1>5, JoinFacts
    <2> HIDE DEF j, l, g
    <2>3. ASSUME NEW i \in 1..Len(j), i \in 1..l, j[i] = g[i]
          PROVE  j[i] \in Stamped /\ Cardinality(Older(j[i])) \in Nat /\ Cardinality(Older(j[i])) < walk.offset
      <3>1. Older(j[i]) \subseteq Views
        BY DEF Older, ViewSet
      <3> QED BY <2>1, <2>3, <3>1, FiniteFacts
    <2>4. ASSUME NEW i \in 1..Len(j), i - l \in 1..Len(page), j[i] = page[i - l]
          PROVE  j[i] \in Stamped /\ Cardinality(Older(j[i])) = walk.offset + (i - l) - 1
      <3>1. PICK k : k = i - l
        OBVIOUS
      <3>2. k \in 1..Len(page) /\ j[i] = page[k]
        BY <2>4, <3>1
      <3>3. page[k] \in ViewSet /\ Cardinality(Older(page[k])) = walk.offset + k - 1
        BY <1>3, <3>2
      <3> QED BY <1>5, <3>1, <3>2, <3>3
    <2>5. ASSUME NEW i \in 1..Len(j)
          PROVE  j[i] \in Stamped /\ Cardinality(Older(j[i])) < walk.offset + Len(page)
      <3>1. CASE i \in 1..l /\ j[i] = g[i]
        <4>1. j[i] \in Stamped /\ Cardinality(Older(j[i])) \in Nat /\ Cardinality(Older(j[i])) < walk.offset
          BY <2>3, <3>1
        <4> QED BY <1>3, <1>4, <4>1
      <3>2. CASE i - l \in 1..Len(page) /\ j[i] = page[i - l]
        <4>1. j[i] \in Stamped /\ Cardinality(Older(j[i])) = walk.offset + (i - l) - 1
          BY <2>4, <3>2
        <4> QED BY <1>3, <1>4, <2>2, <3>2, <4>1
      <3> QED BY <2>2, <3>1, <3>2
    <2>6. IsInjective(j)
      <3> SUFFICES ASSUME NEW a \in 1..Len(j), NEW b \in 1..Len(j), j[a] = j[b] PROVE a = b
        BY <2>2 DEF IsInjective
      <3>1. CASE a \in 1..l /\ j[a] = g[a] /\ b \in 1..l /\ j[b] = g[b]
        <4>1. DOMAIN g = 1..l
          BY <1>4 DEF g, l
        <4>2. g[a] = g[b] /\ a \in DOMAIN g /\ b \in DOMAIN g
          BY <3>1, <4>1
        <4> QED BY <2>1, <4>2 DEF IsInjective
      <3>2. CASE a \in 1..l /\ j[a] = g[a] /\ b - l \in 1..Len(page) /\ j[b] = page[b - l]
        <4>1. Cardinality(Older(j[a])) \in Nat /\ Cardinality(Older(j[a])) < walk.offset
          BY <2>3, <3>2
        <4>2. Cardinality(Older(j[b])) = walk.offset + (b - l) - 1
          BY <2>4, <3>2
        <4> QED BY <1>4, <2>2, <3>2, <4>1, <4>2
      <3>3. CASE b \in 1..l /\ j[b] = g[b] /\ a - l \in 1..Len(page) /\ j[a] = page[a - l]
        <4>1. Cardinality(Older(j[b])) \in Nat /\ Cardinality(Older(j[b])) < walk.offset
          BY <2>3, <3>3
        <4>2. Cardinality(Older(j[a])) = walk.offset + (a - l) - 1
          BY <2>4, <3>3
        <4> QED BY <1>4, <2>2, <3>3, <4>1, <4>2
      <3>4. CASE a - l \in 1..Len(page) /\ j[a] = page[a - l] /\ b - l \in 1..Len(page) /\ j[b] = page[b - l]
        <4>1. Cardinality(Older(j[b])) = walk.offset + (b - l) - 1
          BY <2>4, <3>4
        <4>2. Cardinality(Older(j[a])) = walk.offset + (a - l) - 1
          BY <2>4, <3>4
        <4>3. walk.offset + (a - l) - 1 = walk.offset + (b - l) - 1
          BY <4>1, <4>2
        <4>4. a \in Nat /\ b \in Nat
          BY <2>2
        <4>5. PICK o : o = walk.offset
          OBVIOUS
        <4>6. o \in Nat /\ o + (a - l) - 1 = o + (b - l) - 1
          BY <1>4, <4>3, <4>5
        <4> QED BY <2>2, <4>4, <4>6
      <3> QED BY <2>2, <3>1, <3>2, <3>3, <3>4
    <2> QED BY <2>5, <2>6 DEF j, g
  <1> QED BY <1>8, <1>9, <1>10

\* A page that is turned.
LEMMA Turned ==
    ASSUME TypeInv, NEW T, NEW page \in Seq(T), NEW total, NEW first, Turn(page, total, first)
    PROVE  /\ walk'.of = walk.of /\ walk'.page = <<>> /\ walk'.got = walk.got \o page
           /\ walk'.offset = walk.offset + Len(page) /\ walk'.total = 0
           /\ walk'.step = IF walk.offset + PageSize < total THEN first ELSE "done"
  <1>1. walk \in [of: {None, "views", "runs"}, step: {"idle", "list", "count", "done"}, offset: Nat, total: Nat,
                  page: Seq(Views \cup Nat), got: Seq(Views \cup Nat)]
    BY DEF TypeInv, TypeOK
  <1>2. PICK s, o : /\ walk' = [walk EXCEPT !.step = s, !.offset = o, !.page = <<>>, !.total = 0, !.got = walk.got \o page]
                    /\ s = IF walk.offset + PageSize < total THEN first ELSE "done"
                    /\ o = IF page = <<>> THEN walk.offset ELSE walk.offset + Len(page)
    BY DEF Turn, HasNext, Cursor
  <1>3. o = walk.offset + Len(page)
    <2>1. CASE page = <<>>
      <3>1. Len(page) = 0 /\ walk.offset \in Nat
        BY <1>1, <2>1
      <3> QED BY <1>2, <2>1, <3>1
    <2> QED BY <1>2, <2>1
  <1>4. PICK g : g = walk.got \o page
    OBVIOUS
  <1>5. walk' = [of |-> walk.of, step |-> s, offset |-> o, total |-> 0, page |-> <<>>, got |-> g]
    BY <1>1, <1>2, <1>4
  <1> QED BY <1>2, <1>3, <1>4, <1>5

LEMMA CountWalk ==
    ASSUME TypeInv, StampInv, PageInv, MissInv, TwiceInv, walk.of = "views", walk.step = "count",
           NEW total, Turn(walk.page, total, "list"),
           (total = Cardinality(ViewSet) /\ saw' = saw) \/ (saw \subseteq saw' /\ "failed" \in saw'),
           there' = there, rows' = rows, stamp' = stamp
    PROVE  PageInv' /\ MissInv' /\ TwiceInv'
  <1>1. walk.page \in Seq(Views) /\ walk.got \in Seq(Views) /\ walk.offset \in Nat /\ PageSize \in Nat
    BY ViewsAssumption DEF TypeInv, TypeOK, ViewsAssumption
  <1>2. /\ walk'.of = "views" /\ walk'.page = <<>> /\ walk'.got = walk.got \o walk.page
        /\ walk'.offset = walk.offset + Len(walk.page)
        /\ walk'.step = IF walk.offset + PageSize < total THEN "list" ELSE "done"
    BY <1>1, Turned
  <1>3. Len(<<>>) = 0 /\ Len(walk.page) \in Nat /\ Len(walk.page) <= PageSize
    BY <1>1 DEF PageInv
  <1>4. walk.got \o walk.page \in Seq(Views)
    BY <1>1, JoinFacts
  <1>5. Delivered = walk.got \o walk.page /\ Delivered' = Delivered
    BY <1>2, <1>4, JoinFacts DEF Delivered
  <1>6. ViewSet' = ViewSet /\ Stamped' = Stamped /\ Walking /\ \A v : Older(v)' = Older(v)
    BY DEF ViewSet, Stamped, Walking, Older
  <1>7. PageInv'
    BY <1>1, <1>2, <1>3, <1>6 DEF PageInv
  <1>8. TwiceInv'
    <2> SUFFICES ASSUME "early" \notin saw
                 PROVE  /\ IsInjective(Delivered)
                        /\ \A i \in 1..Len(Delivered) : Delivered[i] \in Stamped
                                /\ Cardinality(Older(Delivered[i])) < walk.offset + Len(walk.page) + 0
      BY <1>2, <1>3, <1>5, <1>6 DEF TwiceInv
    <2>1. walk.offset + Len(walk.page) + 0 = walk.offset + Len(walk.page)
      BY <1>1, <1>3
    <2> QED BY <1>2, <1>6, <2>1 DEF TwiceInv
  <1>9. MissInv'
    <2> SUFFICES ASSUME saw' \cap {"deleted", "failed"} = {}
                 PROVE  /\ there \subseteq ViewSet
                        /\ \A v \in there : Member(v, Delivered) \/ (Walking' /\ Cardinality(Older(v)) >= walk'.offset)
                        /\ walk'.step = "done" => \A v \in there : Member(v, Delivered)
      BY <1>2, <1>5, <1>6 DEF MissInv, Reached
    <2>1. total = Cardinality(ViewSet) /\ saw' = saw
      OBVIOUS
    <2>2. there \subseteq ViewSet /\ \A v \in there : Member(v, Delivered) \/ Cardinality(Older(v)) >= walk.offset + PageSize
      BY <1>6, <2>1 DEF MissInv, Reached
    <2>3. ASSUME NEW v \in there
          PROVE  Cardinality(Older(v)) \in Nat /\ Cardinality(Older(v)) < Cardinality(ViewSet) /\ Cardinality(ViewSet) \in Nat
      <3>1. Older(v) \subseteq ViewSet /\ v \in ViewSet \ Older(v)
        <4>1. v \in ViewSet /\ stamp[v] \in Nat
          BY <2>2 DEF ViewSet, TypeInv, TypeOK
        <4> QED BY <4>1 DEF Older
      <3>2. IsFiniteSet(ViewSet) /\ Older(v) # ViewSet
        <4>1. ViewSet \subseteq Views
          BY DEF ViewSet
        <4> QED BY <3>1, <4>1, FiniteFacts
      <3> QED BY <3>1, <3>2, FS_Subset, FS_CardinalityType
    <2>4. CASE walk.offset + PageSize < total
      <3>1. Walking' /\ walk'.step # "done"
        BY <1>2, <2>4 DEF Walking
      <3>2. ASSUME NEW v \in there, Cardinality(Older(v)) >= walk.offset + PageSize PROVE Cardinality(Older(v)) >= walk'.offset
        BY <1>1, <1>2, <1>3, <2>3, <3>2
      <3> QED BY <2>2, <3>1, <3>2
    <2>5. CASE ~(walk.offset + PageSize < total)
      <3>1. ASSUME NEW v \in there PROVE ~(Cardinality(Older(v)) >= walk.offset + PageSize)
        BY <1>1, <2>1, <2>3, <2>5
      <3> QED BY <2>2, <3>1
    <2> QED BY <2>4, <2>5
  <1> QED BY <1>7, <1>8, <1>9

(***************************************************************************)
(* The walk of the runs.                                                   *)
(***************************************************************************)
LEMMA SameList ==
    ASSUME NEW T, NEW U, NEW s \in Seq(T), NEW t \in Seq(U), Len(s) = Len(t), \A i \in 1..Len(s) : s[i] = t[i]
    PROVE  s = t
  OBVIOUS

Joined(j, s, t) ==
    /\ Len(j) = Len(s) + Len(t) /\ Len(s) \in Nat /\ Len(t) \in Nat
    /\ \A i \in 1..Len(s) : j[i] = s[i]
    /\ \A i \in 1..Len(j) : i \in 1..Len(s) \/ (i - Len(s) \in 1..Len(t) /\ j[i] = t[i - Len(s)])

LEMMA Joins ==
    ASSUME NEW T, NEW s \in Seq(T), NEW t \in Seq(T)
    PROVE  Joined(s \o t, s, t) /\ s \o t \in Seq(T)
  BY JoinFacts DEF Joined

Continued(all, page, order) ==
    /\ Len(all) = walk.offset + Len(page) /\ Len(all) <= Len(order)
    /\ \A i \in 1..Len(all) : all[i] = order[i]
    /\ Len(order) <= walk.offset + PageSize => all = order

\* A page after the first ones of a list is the list as far as it goes.
LEMMA Prefix ==
    ASSUME NEW T, NEW order \in Seq(T), NEW U, NEW got \in Seq(U), T \subseteq U, PageSize \in Nat,
           walk.offset \in Nat, Len(got) = walk.offset, walk.offset <= Len(order), \A i \in 1..Len(got) : got[i] = order[i],
           NEW page, page = Page(order), NEW all, all = got \o page
    PROVE  Continued(all, page, order)
  <1> DEFINE n == Len(order)
  <1>o. PICK o : o = walk.offset
    OBVIOUS
  <1>1. /\ page \in Seq(T) /\ Len(page) \in Nat
        /\ \A i \in 1..Len(page) : o + i \in 1..n /\ page[i] = order[o + i]
        /\ \A j \in 1..n : o < j /\ j <= o + PageSize => j - o \in 1..Len(page)
    BY <1>o, PageFacts
  <1>2. page \in Seq(U) /\ o \in Nat /\ n \in Nat /\ Len(got) = o /\ o <= n
    BY <1>o, <1>1, Longer
  <1>3. /\ all \in Seq(U) /\ Len(all) = o + Len(page)
        /\ \A i \in 1..o : all[i] = got[i]
        /\ \A i \in 1..Len(all) : i \in 1..o \/ (i - o \in 1..Len(page) /\ all[i] = page[i - o])
    <2>1. Joined(got \o page, got, page) /\ got \o page \in Seq(U)
      BY <1>2, Joins
    <2>2. all = got \o page
      OBVIOUS
    <2>3. Joined(all, got, page) /\ all \in Seq(U)
      BY <2>1, <2>2
    <2> QED BY <1>2, <2>3 DEF Joined
  <1>4. Len(all) <= n
    <2>1. CASE Len(page) = 0
      BY <1>2, <1>3, <2>1
    <2>2. CASE Len(page) \in 1..Len(page)
      BY <1>1, <1>2, <1>3, <2>2
    <2> QED BY <1>1, <2>1, <2>2
  <1>5. ASSUME NEW i \in 1..Len(all) PROVE all[i] = order[i]
    <2>1. CASE i \in 1..o
      BY <1>2, <1>3, <2>1
    <2>2. CASE i - o \in 1..Len(page) /\ all[i] = page[i - o]
      <3>1. PICK k : k = i - o
        OBVIOUS
      <3>2. k \in 1..Len(page) /\ all[i] = page[k] /\ i \in Nat
        BY <1>1, <1>2, <1>3, <2>2, <3>1
      <3>3. o + k = i
        BY <1>2, <3>1, <3>2
      <3>4. page[k] = order[o + k]
        BY <1>1, <3>2
      <3> QED BY <3>2, <3>3, <3>4
    <2> QED BY <1>3, <2>1, <2>2
  <1>6. ASSUME n <= o + PageSize PROVE all = order
    <2>1. Len(all) = n
      <3> SUFFICES ASSUME Len(all) < n PROVE FALSE
        BY <1>1, <1>2, <1>3, <1>4
      <3>1. PICK j : j = o + Len(page) + 1
        OBVIOUS
      <3>2. j \in 1..n /\ o < j /\ j <= o + PageSize
        BY <1>1, <1>2, <1>3, <1>6, <3>1
      <3>3. j - o \in 1..Len(page)
        BY <1>1, <3>2
      <3> QED BY <1>1, <1>2, <3>1, <3>3
    <2> QED BY <1>3, <1>5, <2>1, SameList
  <1> QED BY <1>o, <1>3, <1>4, <1>5, <1>6 DEF Continued

LEMMA RunsStep ==
    ASSUME TypeInv, RunsInv, CountRuns \/ ListRuns
    PROVE  RunsInv'
  <1>1. walk.of = "runs" /\ Walking /\ runs' = runs /\ there' = there
    BY DEF CountRuns, ListRuns, Walking, tables
  <1>2. /\ walk \in [of: {None, "views", "runs"}, step: {"idle", "list", "count", "done"}, offset: Nat, total: Nat,
                     page: Seq(Views \cup Nat), got: Seq(Views \cup Nat)]
        /\ PageSize \in Nat
    BY ViewsAssumption DEF TypeInv, TypeOK, ViewsAssumption
  <1>3. /\ runs \subseteq Nat /\ IsFiniteSet(runs)
        /\ Cardinality(runs) \in Nat /\ Newest(runs) \in Seq(runs) /\ Len(Newest(runs)) = Cardinality(runs)
    <2>1. runs \subseteq Nat /\ IsFiniteSet(runs)
      BY ViewsAssumption DEF TypeInv, TypeOK, ViewsAssumption
    <2> QED BY <2>1, NewestFacts
  <1>4. CASE "failed" \in saw'
    BY <1>4 DEF RunsInv
  <1>5. CASE "run" \in saw /\ saw' = saw
    BY <1>5 DEF RunsInv
  <1>6. CASE "failed" \in saw /\ saw' = saw
    BY <1>6 DEF RunsInv
  <1>7. CASE saw \cap {"run", "failed"} = {} /\ saw' = saw
    <2>1. /\ runs = there /\ walk.offset <= Cardinality(runs) /\ Len(walk.got) = walk.offset
          /\ \A i \in 1..Len(walk.got) : walk.got[i] = Newest(runs)[i]
          /\ walk.step = "list" => walk.total = Cardinality(runs)
      BY <1>1, <1>7 DEF RunsInv
    <2>2. CASE walk' = [walk EXCEPT !.total = Cardinality(runs), !.step = "list"]
      <3>1. /\ walk'.step = "list" /\ walk'.total = Cardinality(runs) /\ walk'.offset = walk.offset
            /\ walk'.got = walk.got /\ walk'.of = walk.of
        BY <1>2, <2>2
      <3> QED BY <1>1, <2>1, <3>1 DEF RunsInv
    <2>3. CASE walk.step = "list" /\ Turn(Page(RunOrder), walk.total, "count")
      <3> DEFINE order == Newest(runs)
                 page  == Page(order)
                 all   == walk.got \o page
      <3>1. page \in Seq(runs)
        BY <1>2, <1>3, PageFacts
      <3>2. /\ walk'.of = walk.of /\ walk'.got = all /\ walk'.offset = walk.offset + Len(page)
            /\ walk'.step = IF walk.offset + PageSize < Cardinality(runs) THEN "count" ELSE "done"
        <4>1. Turn(page, Cardinality(runs), "count")
          BY <2>1, <2>3 DEF RunOrder
        <4> QED BY <3>1, <4>1, Turned
      <3>3. runs \subseteq Views \cup Nat /\ walk.got \in Seq(Views \cup Nat) /\ walk.offset \in Nat
        BY <1>2, <1>3
      <3>4. /\ Len(all) = walk.offset + Len(page) /\ Len(all) <= Cardinality(runs)
            /\ \A i \in 1..Len(all) : all[i] = order[i]
            /\ Cardinality(runs) <= walk.offset + PageSize => all = order
        <4>1. PICK list : list = Newest(runs)
          OBVIOUS
        <4>2. list \in Seq(runs) /\ Len(list) = Cardinality(runs) /\ \A i \in 1..Len(walk.got) : walk.got[i] = list[i]
          BY <1>3, <2>1, <4>1
        <4>3. PICK got : got = walk.got
          OBVIOUS
        <4>4. /\ got \in Seq(Views \cup Nat) /\ Len(got) = walk.offset /\ walk.offset <= Len(list)
              /\ \A i \in 1..Len(got) : got[i] = list[i]
          BY <2>1, <3>3, <4>2, <4>3
        <4>5. PICK p, j : p = Page(list) /\ j = got \o p
          OBVIOUS
        <4>6. Continued(j, p, list)
          BY <1>2, <3>3, <4>2, <4>4, <4>5, Prefix
        <4> QED BY <4>1, <4>2, <4>3, <4>5, <4>6 DEF Continued
      <3>5. walk'.step = "done" => all = order
        BY <1>2, <1>3, <3>2, <3>4
      <3>6. walk'.step # "list"
        BY <3>2
      <3> HIDE DEF all, page, order
      <3>7. ASSUME NEW i \in 1..Len(walk'.got) PROVE walk'.got[i] = Newest(runs)[i]
        BY <3>2, <3>4, <3>7 DEF order
      <3>8. walk'.offset <= Cardinality(runs) /\ Len(walk'.got) = walk'.offset
        BY <3>2, <3>4
      <3>9. walk'.step = "done" => walk'.got = Newest(there)
        BY <2>1, <3>2, <3>5 DEF order
      <3> QED BY <1>1, <2>1, <3>6, <3>7, <3>8, <3>9 DEF RunsInv
    <2> QED BY <1>2, <1>7, <2>2, <2>3, <1>1 DEF CountRuns, ListRuns, Notice
  <1>8. saw' = saw \/ "failed" \in saw'
    BY <1>1 DEF CountRuns, ListRuns, Notice
  <1> QED BY <1>4, <1>5, <1>6, <1>7, <1>8

LEMMA RunsKeep ==
    ASSUME RunsInv, walk' = walk, there' = there, saw \subseteq saw', runs' = runs \/ ~Walking \/ "run" \in saw'
    PROVE  RunsInv'
  BY DEF RunsInv, Walking

LEMMA WalkNext ==
    ASSUME TypeInv, StampInv, PageInv, MissInv, TwiceInv, RunsInv, [Next]_vars
    PROVE  PageInv' /\ MissInv' /\ TwiceInv' /\ RunsInv'
  <1>0. WalkType
    BY DEF TypeInv, TypeOK, WalkType
  <1>1. ASSUME NEW r \in Requests, Step(r) PROVE PageInv' /\ MissInv' /\ TwiceInv' /\ RunsInv'
    <2>1. ViewsMove /\ runs' = runs
      BY <1>1, StepMove, RowStep DEF Frame
    <2>2. walk' = walk /\ there' = there /\ saw \subseteq saw'
      BY <2>1 DEF ViewsMove, Notice, Inserted
    <2> QED BY <2>1, <2>2, ViewsMoved, RunsKeep
  <1>2. ASSUME UNCHANGED <<rows, stamp, runs, walk, there, saw>> PROVE PageInv' /\ MissInv' /\ TwiceInv' /\ RunsInv'
    <2>1. ViewsMove
      BY <1>2, QuietMove
    <2>2. walk' = walk /\ there' = there /\ saw \subseteq saw' /\ runs' = runs
      BY <1>2
    <2> QED BY <2>1, <2>2, ViewsMoved, RunsKeep
  <1>3. ASSUME NEW r \in Requests, Receive(r) PROVE PageInv' /\ MissInv' /\ TwiceInv' /\ RunsInv'
    <2>1. UNCHANGED <<rows, stamp, runs, walk, there, saw>>
      BY <1>3 DEF Receive, tables
    <2> QED BY <1>2, <2>1
  <1>4. CASE Crash
    <2>1. /\ UNCHANGED <<rows, stamp, runs, there>> /\ Notice({"failed"})
          /\ walk' = IF Walking THEN [walk EXCEPT !.step = "done"] ELSE walk
      BY <1>4 DEF Crash, tables
    <2>2. CASE Walking
      <3>1. saw \subseteq saw' /\ "failed" \in saw' /\ walk' = [walk EXCEPT !.step = "done"]
        BY <2>1, <2>2 DEF Notice
      <3> QED BY <2>1, <3>1, WalkFails
    <2>3. CASE ~Walking
      <3>1. UNCHANGED <<rows, stamp, runs, walk, there, saw>>
        BY <2>1, <2>3 DEF Notice
      <3> QED BY <1>2, <3>1
    <2> QED BY <2>2, <2>3
  <1>5. CASE NewRun
    <2>1. walk' = walk /\ there' = there /\ walk.of = "runs" /\ Notice({"run"})
      BY <1>5 DEF NewRun
    <2>2. saw \subseteq saw' /\ (~Walking \/ "run" \in saw')
      BY <2>1 DEF Notice
    <2>3. PageInv' /\ MissInv' /\ TwiceInv'
      BY <2>1 DEF PageInv, MissInv, TwiceInv
    <2> QED BY <2>1, <2>2, <2>3, RunsKeep
  <1>6. CASE ListViews
    <2>1. /\ walk.of = "views" /\ walk.step = "list" /\ UNCHANGED <<rows, stamp, runs, there>>
          /\ \/ walk' = [walk EXCEPT !.page = Page(ViewOrder), !.step = "count"] /\ saw' = saw
             \/ walk' = [walk EXCEPT !.step = "done"] /\ Notice({"failed"})
      BY <1>6 DEF ListViews, tables
    <2>2. CASE walk' = [walk EXCEPT !.page = Page(ViewOrder), !.step = "count"] /\ saw' = saw
      <3>1. walk'.of = "views"
        BY <1>0, <2>1, <2>2 DEF WalkType
      <3>2. RunsInv'
        BY <3>1 DEF RunsInv
      <3> QED BY <2>1, <2>2, <3>2, ListWalk
    <2>3. CASE walk' = [walk EXCEPT !.step = "done"] /\ Notice({"failed"})
      <3>1. saw \subseteq saw' /\ "failed" \in saw'
        BY <2>1, <2>3 DEF Notice, Walking
      <3> QED BY <2>1, <2>3, <3>1, WalkFails
    <2> QED BY <2>1, <2>2, <2>3
  <1>7. CASE CountViews
    <2>1. /\ walk.of = "views" /\ walk.step = "count" /\ UNCHANGED <<rows, stamp, runs, there>>
          /\ \/ Turn(walk.page, Cardinality(ViewSet), "list") /\ saw' = saw
             \/ Turn(walk.page, 0, "list") /\ Notice({"failed"})
      BY <1>7 DEF CountViews, tables
    <2>2. PICK total : /\ Turn(walk.page, total, "list")
                       /\ (total = Cardinality(ViewSet) /\ saw' = saw) \/ (saw \subseteq saw' /\ "failed" \in saw')
      BY <2>1 DEF Notice, Walking
    <2>3. walk'.of = "views"
      BY <1>0, <2>1, <2>2, Turned DEF WalkType
    <2>4. RunsInv'
      BY <2>3 DEF RunsInv
    <2> QED BY <2>1, <2>2, <2>4, CountWalk
  <1>8. CASE CountRuns \/ ListRuns
    <2>1. walk'.of = "runs"
      BY <1>0, <1>8 DEF CountRuns, ListRuns, WalkType, Turn
    <2> QED BY <1>8, <2>1, RunsStep DEF PageInv, MissInv, TwiceInv
  <1>9. CASE UNCHANGED vars
    <2>1. UNCHANGED <<rows, stamp, runs, walk, there, saw>>
      BY <1>9 DEF vars, tables, history
    <2> QED BY <1>2, <2>1
  <1> QED BY <1>1, <1>3, <1>4, <1>5, <1>6, <1>7, <1>8, <1>9, BeginWalk DEF Next, WalkStep

(***************************************************************************)
(* The initial states.                                                     *)
(***************************************************************************)
LEMMA FirstStamps ==
    ASSUME Init
    PROVE  /\ \A v \in Range(FirstViews) : v \in Views /\ stamp[v] \in 1..Cardinality(Range(FirstViews)) /\ FirstViews[stamp[v]] = v
           /\ \A v \in Views \ Range(FirstViews) : stamp[v] = 0
           /\ Cardinality(Range(FirstViews)) \in Nat /\ Cardinality(Range(FirstViews)) <= Cardinality(Views)
           /\ Cardinality(Views) \in Nat /\ DOMAIN stamp = Views
  <1>1. FirstViews \in Seq(Range(FirstViews)) /\ IsInjective(FirstViews)
    BY ViewsAssumption DEF ViewsAssumption
  <1>2. /\ DOMAIN FirstViews = 1..Len(FirstViews) /\ Len(FirstViews) \in Nat
        /\ FirstViews \in Injection(1..Len(FirstViews), Range(FirstViews))
    BY <1>1 DEF Injection
  <1>3. Range(FirstViews) \subseteq Views
    BY DEF Views
  <1>4. /\ IsFiniteSet(Range(FirstViews)) /\ Cardinality(Range(FirstViews)) \in Nat
        /\ Cardinality(Range(FirstViews)) <= Cardinality(Views) /\ Cardinality(Views) \in Nat
    BY <1>3, FiniteFacts
  <1>5. Len(FirstViews) <= Cardinality(Range(FirstViews))
    <2>1. Cardinality(1..Len(FirstViews)) = Len(FirstViews)
      <3>1. PICK n \in Nat : n = Len(FirstViews)
        BY <1>2
      <3>2. Cardinality(1..n) = IF 1 > n THEN 0 ELSE n - 1 + 1
        BY FS_Interval
      <3>3. Cardinality(1..n) = n
        BY <3>2
      <3> QED BY <3>1, <3>3
    <2> QED BY <1>2, <1>4, <2>1, FS_Injection
  <1>6. stamp = [v \in Views |-> IF v \in Range(FirstViews) THEN CHOOSE n \in DOMAIN FirstViews : FirstViews[n] = v ELSE 0]
    BY DEF Init
  <1>7. ASSUME NEW v \in Range(FirstViews)
        PROVE  v \in Views /\ stamp[v] \in 1..Cardinality(Range(FirstViews)) /\ FirstViews[stamp[v]] = v
    <2>1. \E n \in DOMAIN FirstViews : FirstViews[n] = v
      BY DEF Range
    <2>2. stamp[v] \in DOMAIN FirstViews /\ FirstViews[stamp[v]] = v
      BY <1>3, <1>6, <2>1
    <2> QED BY <1>2, <1>3, <1>4, <1>5, <2>2
  <1> QED BY <1>4, <1>6, <1>7

Inv == TypeInv /\ StampInv /\ UpdateInv /\ DeleteInv /\ PageInv /\ MissInv /\ TwiceInv /\ RunsInv

LEMMA InitInv ==
    ASSUME Init
    PROVE  Inv
  <1>1. /\ FirstRuns \subseteq Nat /\ IsFiniteSet(FirstRuns) /\ MaxFaults \in Nat
        /\ Range(FirstViews) \cap Requests = {} /\ None \notin Row
    BY ViewsAssumption DEF ViewsAssumption
  <1>2. Blank \in Row
    BY DEF Blank, Row
  <1>3. rows = [v \in Views |-> IF v \in Range(FirstViews) THEN Blank ELSE None]
    BY DEF Init, Blank
  <1>4. stamp \in [Views -> 0..Cardinality(Views)]
    <2>1. \A v \in Views : stamp[v] \in 0..Cardinality(Views)
      BY FirstStamps
    <2>2. stamp = [v \in Views |-> stamp[v]]
      BY DEF Init
    <2> QED BY <2>1, <2>2
  <1>5. walk \in [of: {None, "views", "runs"}, step: {"idle", "list", "count", "done"}, offset: Nat, total: Nat,
                  page: Seq(Views \cup Nat), got: Seq(Views \cup Nat)]
        /\ walk.of = None /\ walk.step = "idle" /\ walk.offset = 0 /\ walk.page = <<>> /\ walk.got = <<>>
    BY DEF Init
  <1>6. None # "views" /\ None # "runs" /\ None # "ok"
    BY ViewsAssumption DEF ViewsAssumption
  <1>7. /\ pc = [r \in Requests |-> "idle"] /\ input = [r \in Requests |-> None]
        /\ read = [r \in Requests |-> None] /\ result = [r \in Requests |-> None]
        /\ seen = [r \in Requests |-> {}] /\ runs = FirstRuns /\ saw = {} /\ there = {} /\ faults = 0
    BY DEF Init
  <1>8. TypeOK
    <2>1. rows \in [Views -> Row \cup {None}]
      BY <1>2, <1>3
    <2>2. /\ pc \in [Requests -> Steps] /\ input \in [Requests -> Inputs \cup {None}]
          /\ read \in [Requests -> Row \cup {None}] /\ result \in [Requests -> {None, "ok", "error"}]
          /\ seen \in [Requests -> SUBSET Requests] /\ faults \in 0..MaxFaults
      BY <1>1, <1>7 DEF Steps
    <2> QED BY <1>4, <1>5, <1>6, <1>7, <2>1, <2>2 DEF TypeOK
  <1>9. Started = {} /\ Ended = {} /\ \A r \in Requests : pc[r] = "idle"
    BY <1>7 DEF Started, Ended
  <1>10. \A r \in Requests : Knows(r) /\ Fresh(r)
    <2>1. \A r \in Requests : rows[r] = None
      BY <1>1, <1>3 DEF Views
    <2> QED BY <1>6, <1>7, <1>9, <2>1 DEF Knows, Fresh
  <1>11. TypeInv
    BY <1>1, <1>5, <1>6, <1>7, <1>8, <1>10 DEF TypeInv, AtRest
  <1>12. StampInv
    <2>1. Stamped = Range(FirstViews) /\ ViewSet = Range(FirstViews)
      <3>1. \A v \in Views : stamp[v] > 0 <=> v \in Range(FirstViews)
        BY FirstStamps
      <3>2. \A v \in Views : rows[v] # None <=> v \in Range(FirstViews)
        BY <1>1, <1>2, <1>3
      <3> QED BY <3>1, <3>2 DEF Stamped, ViewSet, Views
    <2>2. \A v, w \in Stamped : stamp[v] = stamp[w] => v = w
      BY <2>1, FirstStamps
    <2>3. ASSUME NEW v \in Views PROVE stamp[v] <= Cardinality(Stamped)
      BY <2>1, FirstStamps
    <2> QED BY <1>1, <1>9, <2>1, <2>2, <2>3 DEF StampInv
  <1> QED BY <1>5, <1>6, <1>9, <1>11, <1>12 DEF Inv, UpdateInv, DeleteInv, PageInv, MissInv, TwiceInv, RunsInv

(***************************************************************************)
(* The theorems.                                                           *)
(***************************************************************************)
LEMMA InvHolds == Spec => []Inv
  <1>1. ASSUME Inv, [Next]_vars PROVE Inv'
    BY <1>1, TypeNext, StampNext, AnswersNext, WalkNext DEF Inv
  <1> QED BY <1>1, InitInv, PTL DEF Spec

\* What was answered for a view holds: an updated view keeps the columns it
\* was given until a later request gives them or deletes the view, and a
\* deleted one stays deleted (view_mutations.go).
THEOREM AnswersAreKept == Spec => []AnswersHold
  <1>1. Inv => AnswersHold
    <2> SUFFICES ASSUME Inv PROVE AnswersHold
      OBVIOUS
    <2>1. UpdateKept
      BY DEF Inv, UpdateInv, UpdateKept, Firm, Regiven, Holds
    <2>2. DeletedStaysDeleted
      BY DEF Inv, DeleteInv, DeletedStaysDeleted, Final
    <2> QED BY <2>1, <2>2 DEF Inv, TypeInv, AnswersHold
  <1> QED BY <1>1, InvHolds, PTL

\* A walk over the pages of the views delivers each that was there when it
\* began, and none twice; a walk over the runs delivers them newest first
\* (project_resolver.go, store/run.go).
THEOREM WalksAreComplete == Spec => []PagesComplete
  <1>1. Inv => PagesComplete
    <2> SUFFICES ASSUME Inv PROVE PagesComplete
      OBVIOUS
    <2>1. NoViewMissed
      <3> SUFFICES ASSUME walk.of = "views", walk.step = "done", saw \cap {"deleted", "failed"} = {}, NEW v \in there
                   PROVE  v \in Range(walk.got)
        BY DEF NoViewMissed
      <3>1. Member(v, walk.got) /\ walk.got \in Seq(Views)
        BY DEF Inv, MissInv, TypeInv, TypeOK
      <3> QED BY <3>1 DEF Member, Range
    <2>2. NoViewTwice
      <3> SUFFICES ASSUME walk.of = "views", "early" \notin saw PROVE IsInjective(walk.got)
        BY DEF NoViewTwice
      <3>1. IsInjective(Delivered) /\ walk.got \in Seq(Views) /\ walk.page \in Seq(Views)
        BY DEF Inv, TwiceInv, TypeInv, TypeOK
      <3>2. PICK s, t, j : s = walk.got /\ t = walk.page /\ j = Delivered
        OBVIOUS
      <3>3. s \in Seq(Views) /\ t \in Seq(Views) /\ j = s \o t
        BY <3>1, <3>2 DEF Delivered
      <3>4. /\ Len(j) = Len(s) + Len(t) /\ Len(s) \in Nat /\ Len(t) \in Nat /\ j \in Seq(Views)
            /\ \A i \in 1..Len(s) : j[i] = s[i]
        BY <3>3, JoinFacts
      <3>5. DOMAIN s = 1..Len(s) /\ DOMAIN j = 1..Len(j)
        BY <3>3, <3>4
      <3>6. \A i \in DOMAIN s : i \in DOMAIN j /\ j[i] = s[i]
        BY <3>4, <3>5
      <3> QED BY <3>1, <3>2, <3>6 DEF IsInjective
    <2>3. RunsWalk
      BY DEF Inv, RunsInv, RunsWalk
    <2> QED BY <2>1, <2>2, <2>3 DEF PagesComplete
  <1> QED BY <1>1, InvHolds, PTL

(***************************************************************************)
(* RunHistory.                                                             *)
(***************************************************************************)
(***************************************************************************)
(* Tables: rows that are told apart by their ids, in the order of their    *)
(* numbers.                                                                *)
(***************************************************************************)
Lined(S) ==
    /\ IsFiniteSet(S)
    /\ \A p \in S : p.num \in Nat /\ p.id \in Nat
    /\ \A p, q \in S : p.id = q.id => p = q

Place(q, S) == Cardinality(AheadOf(q, S))

Listed(S, list) ==
    /\ Cardinality(S) \in Nat /\ list \in Seq(S) /\ Len(list) = Cardinality(S)
    /\ \A i \in 1..Len(list) : list[i] \in S /\ Place(list[i], S) = i - 1
    /\ \A q \in S : Place(q, S) \in 0..(Len(list) - 1) /\ \A i \in 1..Len(list) : Place(q, S) = i - 1 => list[i] = q

LEMMA AheadFacts ==
    ASSUME NEW S, Lined(S), NEW p \in S, NEW q \in S
    PROVE  /\ ~Ahead(p, p)
           /\ p # q => Ahead(p, q) \/ Ahead(q, p)
           /\ ~(Ahead(p, q) /\ Ahead(q, p))
           /\ \A r \in S : Ahead(p, q) /\ Ahead(q, r) => Ahead(p, r)
           /\ Ahead(p, q) => p.num <= q.num
  <1>1. p.num \in Nat /\ p.id \in Nat /\ q.num \in Nat /\ q.id \in Nat /\ (p.id = q.id => p = q)
    BY DEF Lined
  <1>2. \A r \in S : r.num \in Nat /\ r.id \in Nat
    BY DEF Lined
  <1>3. ASSUME NEW r \in S, Ahead(p, q), Ahead(q, r) PROVE Ahead(p, r)
    <2>1. r.num \in Nat /\ r.id \in Nat
      BY <1>2
    <2> QED BY <1>1, <1>3, <2>1 DEF Ahead
  <1>4. p # q => Ahead(p, q) \/ Ahead(q, p)
    BY <1>1 DEF Ahead
  <1>5. ~Ahead(p, p) /\ ~(Ahead(p, q) /\ Ahead(q, p)) /\ (Ahead(p, q) => p.num <= q.num)
    BY <1>1 DEF Ahead
  <1> QED BY <1>3, <1>4, <1>5

LEMMA LinedInLine ==
    ASSUME NEW S, Lined(S), NEW before, before = [q \in S |-> AheadOf(q, S)]
    PROVE  InLine(S, before) /\ \A q \in S : before[q] = AheadOf(q, S)
  <1>1. \A q \in S : before[q] = AheadOf(q, S) /\ AheadOf(q, S) \subseteq S
    BY DEF AheadOf
  <1>2. before \in [S -> SUBSET S]
    BY <1>1
  <1>3. \A q \in S : q \notin before[q]
    BY <1>1, AheadFacts DEF AheadOf
  <1>4. ASSUME NEW p \in S, NEW q \in S, Ahead(p, q) PROVE before[p] \cup {p} \subseteq before[q]
    <2>1. \A r \in AheadOf(p, S) : r \in S /\ Ahead(r, p)
      BY DEF AheadOf
    <2>2. \A r \in AheadOf(p, S) : Ahead(r, q)
      BY <1>4, <2>1, AheadFacts
    <2> QED BY <1>1, <1>4, <2>1, <2>2 DEF AheadOf
  <1>5. \A p, q \in S : p # q => before[p] \cup {p} \subseteq before[q] \/ before[q] \cup {q} \subseteq before[p]
    BY <1>4, AheadFacts
  <1> QED BY <1>1, <1>2, <1>3, <1>5 DEF InLine

LEMMA OrderedList ==
    ASSUME NEW S, Lined(S)
    PROVE  Listed(S, Ordered(S))
  <1> DEFINE n == Cardinality(S)
  <1>0. PICK before : before = [q \in S |-> AheadOf(q, S)]
    OBVIOUS
  <1>1. InLine(S, before) /\ \A q \in S : Cardinality(before[q]) = Place(q, S)
    BY <1>0, LinedInLine DEF Place
  <1>2. Numbered(S, before)
    BY <1>1, Ranks DEF Lined
  <1>3. /\ n \in Nat
        /\ \A q \in S : Place(q, S) \in 0..(n - 1)
        /\ \A p, q \in S : Place(p, S) = Place(q, S) => p = q
        /\ \A i \in 1..n : \E q \in S : Place(q, S) = i - 1
    BY <1>1, <1>2 DEF Numbered
  <1> DEFINE pick(i) == CHOOSE q \in S : Place(q, S) = i - 1
  <1>4. \A i \in 1..n : pick(i) \in S /\ Place(pick(i), S) = i - 1
    BY <1>3
  <1>5. Ordered(S) = [i \in 1..n |-> pick(i)]
    BY DEF Ordered, Place
  <1> HIDE DEF pick
  <1>6. PICK list : list = Ordered(S)
    OBVIOUS
  <1>7. list \in [1..n -> S] /\ \A i \in 1..n : list[i] = pick(i)
    BY <1>4, <1>5, <1>6
  <1>8. list \in Seq(S) /\ Len(list) = n
    BY <1>3, <1>7, ListOf
  <1>9. \A i \in 1..n : list[i] \in S /\ Place(list[i], S) = i - 1
    BY <1>4, <1>7
  <1>10. ASSUME NEW q \in S, NEW i \in 1..n, Place(q, S) = i - 1 PROVE list[i] = q
    BY <1>3, <1>9, <1>10
  <1> HIDE DEF n
  <1> QED BY <1>3, <1>6, <1>8, <1>9, <1>10 DEF Listed, n

\* The order of the places is that of the rows.
LEMMA PlacesOrder ==
    ASSUME NEW S, Lined(S), NEW p \in S, NEW q \in S, Place(p, S) < Place(q, S)
    PROVE  Ahead(p, q) /\ p.num <= q.num
  <1>1. \A r \in S : Place(r, S) \in Nat
    <2>1. Listed(S, Ordered(S)) 
      BY OrderedList
    <2> QED BY <2>1 DEF Listed
  <1>2. p # q
    BY <1>1
  <1>3. ASSUME Ahead(q, p) PROVE FALSE
    <2>1. AheadOf(q, S) \subseteq AheadOf(p, S)
      BY <1>3, AheadFacts DEF AheadOf
    <2>2. IsFiniteSet(AheadOf(p, S))
      BY FS_Subset DEF AheadOf, Lined
    <2>3. Place(q, S) <= Place(p, S)
      BY <2>1, <2>2, FS_Subset DEF Place
    <2> QED BY <1>1, <2>3
  <1> QED BY <1>2, <1>3, AheadFacts

\* OFFSET and LIMIT.
Sliced(part, order, offset, limit) ==
    /\ Len(part) \in Nat /\ Len(part) <= limit
    /\ \A i \in 1..Len(part) : offset + i \in 1..Len(order) /\ part[i] = order[offset + i]
    /\ \A j \in 1..Len(order) : offset < j /\ j <= offset + limit =>
          j - offset \in 1..Len(part) /\ part[j - offset] = order[j]

LEMMA SliceFacts ==
    ASSUME NEW T, NEW order \in Seq(T), NEW offset \in Nat, NEW limit \in Nat, NEW part, part = Slice(order, offset, limit)
    PROVE  part \in Seq(T) /\ Sliced(part, order, offset, limit)
  <1> DEFINE n == Len(order)
             hi == Min({offset + limit, n})
  <1>1. n \in Nat
    OBVIOUS
  <1>2. hi \in {offset + limit, n} /\ hi <= offset + limit /\ hi <= n
    <2> DEFINE Two == {offset + limit, n}
    <2>1. \E x \in Two : \A y \in Two : x =< y
      <3>1. CASE offset + limit <= n
        BY <1>1, <3>1
      <3>2. CASE n <= offset + limit
        BY <1>1, <3>2
      <3> QED BY <1>1, <3>1, <3>2
    <2>2. Min(Two) \in Two /\ \A y \in Two : Min(Two) =< y
      <3> HIDE DEF Two
      <3> QED BY <2>1 DEF Min
    <2> QED BY <2>2
  <1>3. part = SubSeq(order, offset + 1, hi)
    BY DEF Slice
  <1> HIDE DEF hi, n
  <1>4. hi \in Nat
    BY <1>1, <1>2
  <1>5. /\ SubSeq(order, offset + 1, hi) \in Seq(T)
        /\ Len(SubSeq(order, offset + 1, hi)) = IF offset + 1 <= hi THEN hi - offset ELSE 0
        /\ \A i \in 1..(hi - offset) : SubSeq(order, offset + 1, hi)[i] = order[offset + i]
    BY <1>1, <1>2, <1>4 DEF n
  <1>6. part \in Seq(T) /\ Len(part) = (IF offset + 1 <= hi THEN hi - offset ELSE 0) /\ \A i \in 1..(hi - offset) : part[i] = order[offset + i]
    BY <1>3, <1>5
  <1>7. Len(part) \in Nat /\ Len(part) <= limit
    BY <1>1, <1>2, <1>4, <1>6
  <1>8. \A i \in 1..Len(part) : offset + i \in 1..n /\ part[i] = order[offset + i]
    BY <1>1, <1>2, <1>4, <1>6
  <1>9. ASSUME NEW j \in 1..n, offset < j, j <= offset + limit
        PROVE  j - offset \in 1..Len(part) /\ part[j - offset] = order[j]
    <2>1. PICK i : i = j - offset
      OBVIOUS
    <2>2. i \in 1..Len(part) /\ i \in 1..(hi - offset) /\ offset + i = j
      BY <1>1, <1>2, <1>4, <1>6, <1>9, <2>1
    <2>3. part[i] = order[offset + i]
      BY <1>6, <2>2
    <2> QED BY <2>1, <2>2, <2>3
  <1> QED BY <1>6, <1>7, <1>8, <1>9 DEF n, Sliced

\* A row inserted into a table comes after those with the same number.
LEMMA NewRow ==
    ASSUME NEW S, Lined(S), \A p \in S : p.id <= Cardinality(S),
           NEW row, row.num \in Nat, row.id = Cardinality(S) + 1
    PROVE  /\ Lined(S \cup {row}) /\ row \notin S
           /\ \A p \in S \cup {row} : p.id <= Cardinality(S \cup {row})
           /\ \A p \in S : Place(p, S \cup {row}) \in Nat /\ Place(p, S) \in Nat /\ Place(p, S) <= Place(p, S \cup {row})
           /\ \A p \in S : p.num <= row.num => Place(p, S \cup {row}) = Place(p, S)
  <1> DEFINE U == S \cup {row}
  <1>1. IsFiniteSet(S) /\ Cardinality(S) \in Nat /\ IsFiniteSet(U)
    BY FS_CardinalityType, FS_AddElement DEF Lined
  <1>2. \A p \in S : p.id \in Nat /\ p.num \in Nat /\ p.id < row.id /\ p.id # row.id
    BY <1>1 DEF Lined
  <1>3. row \notin S
    BY <1>2
  <1>4. Cardinality(U) = Cardinality(S) + 1
    BY <1>1, <1>3, FS_AddElement
  <1>5. Lined(U)
    BY <1>1, <1>2 DEF Lined
  <1>6. \A p \in U : p.id <= Cardinality(U)
    BY <1>1, <1>2, <1>4
  <1>7. ASSUME NEW p \in S PROVE Place(p, U) \in Nat /\ Place(p, S) \in Nat /\ Place(p, S) <= Place(p, U)
    <2>1. AheadOf(p, S) \subseteq AheadOf(p, U) /\ AheadOf(p, S) \subseteq S /\ AheadOf(p, U) \subseteq U
      BY DEF AheadOf
    <2>2. IsFiniteSet(AheadOf(p, S)) /\ IsFiniteSet(AheadOf(p, U))
      BY <1>1, <2>1, FS_Subset
    <2> QED BY <2>1, <2>2, FS_Subset, FS_CardinalityType DEF Place
  <1>8. ASSUME NEW p \in S, p.num <= row.num PROVE Place(p, U) = Place(p, S)
    <2>0. p.num \in Nat /\ row.num \in Nat /\ p.id \in Nat /\ row.id \in Nat /\ p.id < row.id
      BY <1>1, <1>2
    <2>1. ~Ahead(row, p)
      BY <2>0, <1>8 DEF Ahead
    <2>2. AheadOf(p, U) = AheadOf(p, S)
      BY <2>1 DEF AheadOf
    <2> QED BY <2>2 DEF Place
  <1> QED BY <1>3, <1>5, <1>6, <1>7, <1>8

(***************************************************************************)
(* Types, tables, and the steps of the reader.                             *)
(***************************************************************************)
Table(S) == Lined(S) /\ \A p \in S : p.id <= Cardinality(S)

ReaderShape ==
    /\ reader.of = "none" <=> reader.step = "idle"
    /\ reader.of = "history" => reader.step \in {"begin", "page", "done", "failed"}
    /\ reader.of = "whole" => reader.step \in {"begin", "done", "failed"}
    /\ reader.of = "log" => reader.step \in {"count", "list", "done", "failed"}
    /\ reader.step \in {"idle", "begin"} => reader.got = <<>> /\ reader.at = 0
    /\ reader.of # "log" => met = {}

HistoryTypeInv == HistoryTypes /\ Table(histories) /\ Table(logs) /\ ReaderShape

\* The rows do not move, or one is inserted.
HistoryGrows ==
    \E row \in HistoryRow :
        row.id = Cardinality(histories) + 1 /\ histories' = histories \cup {row} /\ logs' = logs /\ met' = met

LogGrows ==
    \E row \in LogRow :
        row.id = Cardinality(logs) + 1 /\ logs' = logs \cup {row} /\ met' = met \cup Shifts(row.num) /\ histories' = histories

RowsMove ==
    /\ reader' = reader /\ present' = present
    /\ (histories' = histories /\ logs' = logs /\ met' = met) \/ HistoryGrows \/ LogGrows

ReaderFields ==
    /\ reader.of \in {"none", "history", "whole", "log"}
    /\ reader.step \in {"idle", "begin", "page", "count", "list", "done", "failed"}
    /\ reader.at \in Nat /\ reader.end \in Nat
    /\ reader.got \in Seq(HistoryRow \cup LogRow)

LEMMA ReaderType ==
    ASSUME HistoryTypes
    PROVE  ReaderFields
  BY DEF HistoryTypes, ReaderFields

LEMMA PassesType ==
    ASSUME HistoryTypes, Passes \/ Breaks
    PROVE  errors' \in 0..MaxErrors
  <1>1. MaxErrors \in Nat /\ errors \in 0..MaxErrors
    BY HistoryAssumption DEF HistoryAssumption, HistoryTypes
  <1> QED BY <1>1 DEF Passes, Breaks

LEMMA LineJoin ==
    ASSUME NEW body \in Body, NEW lines \in OrdersOf(body)
    PROVE  lines \in Seq(HistoryLine \cup LogLine)
  <1>1. body.history \in Seq(HistoryLine) /\ body.log \in Seq(LogLine)
    BY DEF Body
  <1>2. body.history \in Seq(HistoryLine \cup LogLine) /\ body.log \in Seq(HistoryLine \cup LogLine)
    BY <1>1, Longer
  <1>3. body.history \o body.log \in Seq(HistoryLine \cup LogLine)
    BY <1>2, JoinFacts
  <1>4. body.log \o body.history \in Seq(HistoryLine \cup LogLine)
    BY <1>2, JoinFacts
  <1> QED BY <1>3, <1>4 DEF OrdersOf

LEMMA AcceptFacts ==
    ASSUME HistoryTypes, NEW s \in Slots, Post(s) \/ Repeat(s)
    PROVE  /\ pending' \in [Slots -> Seq(HistoryLine \cup LogLine)]
           /\ awaited' \subseteq Slots /\ posted' \in 0..Len(Posts) /\ repeats' \in 0..MaxRepeats
           /\ UNCHANGED <<histories, logs, reader, present, met, errors>>
  <1>1. Posts \in Seq(Body) /\ MaxRepeats \in Nat
    BY HistoryAssumption DEF HistoryAssumption
  <1>2. pending \in [Slots -> Seq(HistoryLine \cup LogLine)] /\ posted \in 0..Len(Posts) /\ repeats \in 0..MaxRepeats
    BY DEF HistoryTypes
  <1>3. ASSUME NEW n \in 1..Len(Posts), Accept(s, Posts[n])
        PROVE  /\ pending' \in [Slots -> Seq(HistoryLine \cup LogLine)] /\ awaited' \subseteq Slots
               /\ UNCHANGED <<histories, logs, reader, present, met, errors>>
    <2>1. Posts[n] \in Body
      BY <1>1
    <2>2. PICK lines \in OrdersOf(Posts[n]) : pending' = [pending EXCEPT ![s] = lines]
      BY <1>3 DEF Accept
    <2>3. lines \in Seq(HistoryLine \cup LogLine)
      BY <2>1, LineJoin
    <2> QED BY <1>2, <1>3, <2>2, <2>3 DEF Accept, stored
  <1>4. CASE Post(s)
    <2>1. posted + 1 \in 1..Len(Posts) /\ Accept(s, Posts[posted + 1]) /\ posted' = posted + 1 /\ repeats' = repeats
      BY <1>1, <1>2, <1>4 DEF Post
    <2> QED BY <1>1, <1>2, <1>3, <2>1
  <1>5. CASE Repeat(s)
    <2>1. posted \in 1..Len(Posts) /\ Accept(s, Posts[posted]) /\ posted' = posted /\ repeats' = repeats + 1 /\ repeats < MaxRepeats
      BY <1>1, <1>2, <1>5 DEF Repeat
    <2> QED BY <1>1, <1>2, <1>3, <2>1
  <1> QED BY <1>4, <1>5

LEMMA TableSize ==
    ASSUME NEW S, Table(S)
    PROVE  Cardinality(S) \in Nat
  BY FS_CardinalityType DEF Table, Lined

LEMMA InsertLineFacts ==
    ASSUME HistoryTypeInv, NEW s \in Slots, InsertLine(s)
    PROVE  /\ pending' \in [Slots -> Seq(HistoryLine \cup LogLine)]
           /\ RowsMove /\ UNCHANGED <<awaited, posted, repeats>> /\ (Passes \/ Breaks)
  <1>1. pending \in [Slots -> Seq(HistoryLine \cup LogLine)]
    BY DEF HistoryTypeInv, HistoryTypes
  <1>2. /\ pending[s] # <<>> /\ pending' = [pending EXCEPT ![s] = Tail(@)]
        /\ UNCHANGED <<awaited, posted, reader, present, repeats>>
    BY DEF InsertLine
  <1>3. PICK lines \in Seq(HistoryLine \cup LogLine) : lines = pending[s]
    BY <1>1
  <1>4. lines # <<>>
    BY <1>2, <1>3
  <1>5. Head(lines) \in HistoryLine \cup LogLine /\ Tail(lines) \in Seq(HistoryLine \cup LogLine)
    BY <1>4
  <1>6. PICK line \in HistoryLine \cup LogLine : line = Head(pending[s])
    BY <1>3, <1>5
  <1>7. pending' = [pending EXCEPT ![s] = Tail(lines)]
    BY <1>2, <1>3
  <1>8. pending' \in [Slots -> Seq(HistoryLine \cup LogLine)]
    BY <1>1, <1>5, <1>7
  <1>9. Cardinality(histories) \in Nat /\ Cardinality(logs) \in Nat
    BY TableSize DEF HistoryTypeInv
  <1>10. \/ Breaks /\ UNCHANGED <<histories, logs, met>>
         \/ /\ Passes /\ line.file = "history"
            /\ histories' = histories \cup {[num |-> line.num, keys |-> line.keys, id |-> Cardinality(histories) + 1]}
            /\ UNCHANGED <<logs, met>>
         \/ /\ Passes /\ line.file = "log"
            /\ logs' = logs \cup {[num |-> line.num, id |-> Cardinality(logs) + 1]}
            /\ met' = met \cup Shifts(line.num)
            /\ UNCHANGED histories
    BY <1>6 DEF InsertLine, stored
  <1>11. CASE Breaks /\ UNCHANGED <<histories, logs, met>>
    BY <1>2, <1>8, <1>11 DEF RowsMove
  <1>12. CASE /\ Passes /\ line.file = "history"
              /\ histories' = histories \cup {[num |-> line.num, keys |-> line.keys, id |-> Cardinality(histories) + 1]}
              /\ UNCHANGED <<logs, met>>
    <2>1. line.num \in Nat /\ line.keys \in SUBSET Keys
      BY <1>12 DEF HistoryLine, LogLine
    <2>2. PICK row : row = [num |-> line.num, keys |-> line.keys, id |-> Cardinality(histories) + 1]
      OBVIOUS
    <2>3. row \in HistoryRow /\ row.id = Cardinality(histories) + 1
      BY <1>9, <2>1, <2>2 DEF HistoryRow
    <2>4. HistoryGrows
      BY <1>12, <2>2, <2>3 DEF HistoryGrows
    <2> QED BY <1>2, <1>8, <1>12, <2>4 DEF RowsMove
  <1>13. CASE /\ Passes /\ line.file = "log"
              /\ logs' = logs \cup {[num |-> line.num, id |-> Cardinality(logs) + 1]}
              /\ met' = met \cup Shifts(line.num)
              /\ UNCHANGED histories
    <2>1. line.num \in Nat
      BY DEF HistoryLine, LogLine
    <2>2. PICK row : row = [num |-> line.num, id |-> Cardinality(logs) + 1]
      OBVIOUS
    <2>3. row \in LogRow /\ row.id = Cardinality(logs) + 1 /\ row.num = line.num
      BY <1>9, <2>1, <2>2 DEF LogRow
    <2>4. logs' = logs \cup {row} /\ met' = met \cup Shifts(row.num) /\ histories' = histories
      BY <1>13, <2>2, <2>3
    <2>5. LogGrows
      BY <2>3, <2>4 DEF LogGrows
    <2> QED BY <1>2, <1>8, <1>13, <2>5 DEF RowsMove
  <1> QED BY <1>10, <1>11, <1>12, <1>13

\* What each step of the reader does.
ReaderAlone == UNCHANGED <<histories, logs, pending, awaited, posted, repeats>>

Turns(step, at, end, got) ==
    reader' = [of |-> reader.of, step |-> step, at |-> at, end |-> end, got |-> got]

LEMMA RecordShape ==
    ASSUME HistoryTypes
    PROVE  reader = [of |-> reader.of, step |-> reader.step, at |-> reader.at, end |-> reader.end, got |-> reader.got]
  BY DEF HistoryTypes

LEMMA BeginFacts ==
    ASSUME HistoryTypeInv, BeginReading
    PROVE  /\ ReaderAlone /\ errors' = errors /\ met' = {} /\ met = {}
           /\ \/ reader' = [of |-> "history", step |-> "begin", at |-> 0, end |-> reader.end, got |-> <<>>] /\ present' = histories
              \/ reader' = [of |-> "whole", step |-> "begin", at |-> 0, end |-> reader.end, got |-> <<>>] /\ present' = histories
              \/ reader' = [of |-> "log", step |-> "count", at |-> 0, end |-> reader.end, got |-> <<>>] /\ present' = logs
  <1>1. reader.of = "none" /\ reader.got = <<>> /\ reader.at = 0 /\ met = {}
    BY DEF BeginReading, HistoryTypeInv, ReaderShape
  <1>2. reader = [of |-> reader.of, step |-> reader.step, at |-> reader.at, end |-> reader.end, got |-> reader.got]
    BY RecordShape DEF HistoryTypeInv
  <1> QED BY <1>1, <1>2 DEF BeginReading, ReaderAlone, stored, posting

LEMMA LastStepFacts ==
    ASSUME HistoryTypeInv, LastStep
    PROVE  /\ ReaderAlone /\ present' = present /\ met' = met /\ (Passes \/ Breaks)
           /\ reader.of = "history" /\ reader.step = "begin"
           /\ \/ Turns("page", 0, StepAfter[Cardinality(histories)] + 1, <<>>)
              \/ Turns("failed", reader.at, reader.end, reader.got)
  <1>1. reader.of = "history" /\ reader.step = "begin" /\ reader.got = <<>> /\ reader.at = 0
    BY DEF LastStep, HistoryTypeInv, ReaderShape
  <1>2. reader = [of |-> reader.of, step |-> reader.step, at |-> reader.at, end |-> reader.end, got |-> reader.got]
    BY RecordShape DEF HistoryTypeInv
  <1>3. GetHistoryKeys.lastStep = StepAfter[Cardinality(histories)]
    BY DEF GetHistoryKeys
  <1> QED BY <1>1, <1>2, <1>3 DEF LastStep, Rejected, Turns, ReaderAlone, stored, posting

LEMMA ScanPageFacts ==
    ASSUME HistoryTypeInv, ScanPage
    PROVE  \E max \in {Min({reader.at + PageLength, reader.end})} :
           /\ ReaderAlone /\ present' = present /\ met' = met /\ (Passes \/ Breaks)
           /\ reader.of = "history" /\ reader.step = "page"
           /\ \/ Turns(IF max = reader.end THEN "done" ELSE "page", reader.at + PageLength, reader.end,
                       reader.got \o GetHistory({reader.at}, {max}, PageLength))
              \/ Turns("failed", reader.at, reader.end, reader.got)
  <1>1. reader.of = "history" /\ reader.step = "page"
    BY DEF ScanPage
  <1>2. reader = [of |-> reader.of, step |-> reader.step, at |-> reader.at, end |-> reader.end, got |-> reader.got]
    BY RecordShape DEF HistoryTypeInv
  <1>3. PICK max : max = Min({reader.at + PageLength, reader.end})
    OBVIOUS
  <1>4. /\ \/ Passes /\ reader' = [reader EXCEPT !.got  = @ \o GetHistory({reader.at}, {max}, PageLength),
                                                 !.at   = @ + PageLength,
                                                 !.step = IF max = reader.end THEN "done" ELSE "page"]
           \/ Rejected
        /\ UNCHANGED <<stored, posting, present, met>>
    BY <1>3 DEF ScanPage
  <1> QED BY <1>1, <1>2, <1>3, <1>4 DEF Rejected, Turns, ReaderAlone, stored, posting

LEMMA ReadWholeFacts ==
    ASSUME HistoryTypeInv, ReadWhole
    PROVE  /\ ReaderAlone /\ present' = present /\ met' = met /\ met = {} /\ (Passes \/ Breaks)
           /\ reader.of = "whole"
           /\ \/ \E limit \in {0, PageLength} : Turns("done", reader.at, limit, GetHistory({}, {}, limit))
              \/ Turns("failed", reader.at, reader.end, reader.got)
  <1>1. reader.of = "whole" /\ met = {}
    BY DEF ReadWhole, HistoryTypeInv, ReaderShape
  <1>2. reader = [of |-> reader.of, step |-> reader.step, at |-> reader.at, end |-> reader.end, got |-> reader.got]
    BY RecordShape DEF HistoryTypeInv
  <1>3. ReaderAlone /\ present' = present /\ met' = met
    BY DEF ReadWhole, ReaderAlone, stored, posting
  <1>4. CASE Rejected
    BY <1>1, <1>2, <1>3, <1>4 DEF Rejected, Turns
  <1>5. ASSUME NEW limit \in {0, PageLength},
               Passes, reader' = [reader EXCEPT !.got = GetHistory({}, {}, limit), !.end = limit, !.step = "done"]
        PROVE  Turns("done", reader.at, limit, GetHistory({}, {}, limit))
    BY <1>2, <1>5 DEF Turns
  <1> QED BY <1>1, <1>3, <1>4, <1>5 DEF ReadWhole

LEMMA CountLogsFacts ==
    ASSUME HistoryTypeInv, CountLogs
    PROVE  /\ ReaderAlone /\ present' = present /\ (Passes \/ Breaks)
           /\ reader.of = "log" /\ reader.step = "count"
           /\ \/ Turns("list", reader.at, Cardinality(logs), reader.got) /\ met' = met
              \/ Turns("list", reader.at, 0, reader.got) /\ met' = met \cup {"uncounted"}
  <1>1. reader.of = "log" /\ reader.step = "count"
    BY DEF CountLogs
  <1>2. reader = [of |-> reader.of, step |-> reader.step, at |-> reader.at, end |-> reader.end, got |-> reader.got]
    BY RecordShape DEF HistoryTypeInv
  <1> QED BY <1>1, <1>2 DEF CountLogs, Turns, ReaderAlone, stored, posting

LEMMA ListLogsFacts ==
    ASSUME HistoryTypeInv, ListLogs
    PROVE  /\ ReaderAlone /\ present' = present /\ met' = met /\ (Passes \/ Breaks)
           /\ reader.of = "log" /\ reader.step = "list"
           /\ \/ Turns(IF reader.at + Len(LogPage) < reader.end THEN "count" ELSE "done", reader.at + Len(LogPage), reader.end,
                       reader.got \o LogPage)
              \/ Turns("failed", reader.at, reader.end, reader.got)
  <1>1. reader.of = "log" /\ reader.step = "list"
    BY DEF ListLogs
  <1>2. reader = [of |-> reader.of, step |-> reader.step, at |-> reader.at, end |-> reader.end, got |-> reader.got]
    BY RecordShape DEF HistoryTypeInv
  <1> QED BY <1>1, <1>2 DEF ListLogs, Rejected, Turns, ReaderAlone, stored, posting

(***************************************************************************)
(* The last step and the history keys: what the loop over the rows gives,  *)
(* found as the one function that satisfies its equation.                  *)
(***************************************************************************)
LEMMA LeastNumber ==
    ASSUME NEW S, IsFiniteSet(S), S \subseteq Nat, S # {}
    PROVE  \E n \in S : \A m \in S : n <= m
  <1> DEFINE Least(X) == \E n \in X : \A m \in X : n <= m
             Bad      == {X \in SUBSET S : X # {} /\ ~Least(X)}
  <1>1. Bad = {}
    <2> SUFFICES ASSUME Bad # {} PROVE FALSE
      OBVIOUS
    <2>1. IsWellFoundedOn(StrictSubsetOrdering(S), SUBSET S)
      BY FS_StrictSubsetOrderingWellFounded, FS_FiniteSubsetsOfFinite
    <2>2. Bad \subseteq SUBSET S
      OBVIOUS
    <2> HIDE DEF Bad
    <2>3. PICK X \in Bad : \A Y \in Bad : <<Y, X>> \notin StrictSubsetOrdering(S)
      BY <2>1, <2>2, WFMin
    <2> USE DEF Bad
    <2>4. X \subseteq S /\ X # {} /\ ~Least(X)
      OBVIOUS
    <2>5. PICK x \in X : TRUE
      BY <2>4
    <2>6. x \in Nat
      BY <2>4
    <2>7. CASE X = {x}
      BY <2>4, <2>6, <2>7
    <2>8. CASE X # {x}
      <3>1. X \ {x} # {} /\ X \ {x} \subseteq S /\ X \ {x} # X
        BY <2>4, <2>8
      <3>2. <<X \ {x}, X>> \in StrictSubsetOrdering(S)
        BY <2>4, <3>1 DEF StrictSubsetOrdering
      <3>3. Least(X \ {x})
        BY <2>3, <3>1, <3>2
      <3>4. PICK n \in X \ {x} : \A m \in X \ {x} : n <= m
        BY <3>3
      <3>5. n \in Nat /\ \A m \in X : m \in Nat
        BY <2>4, <3>4
      <3>6. CASE n <= x
        BY <2>4, <3>4, <3>6
      <3>7. CASE ~(n <= x)
        <4>1. x <= n /\ x <= x
          BY <2>6, <3>5, <3>7
        <4>2. \A m \in X \ {x} : x <= m
          BY <2>6, <3>4, <3>5, <4>1
        <4> QED BY <2>4, <2>5, <4>1, <4>2
      <3> QED BY <3>6, <3>7
    <2> QED BY <2>7, <2>8
  <1>2. Least(S)
    BY <1>1
  <1> QED BY <1>2

FirstApart(n, f, g) == f[n] # g[n] /\ \A m \in 0..n : m < n => f[m] = g[m]

LEMMA FirstDifference ==
    ASSUME NEW N \in Nat, NEW f, NEW g, \E n \in 0..N : f[n] # g[n]
    PROVE  \E n \in 0..N : FirstApart(n, f, g)
  <1>1. PICK Bad : Bad = {n \in 0..N : f[n] # g[n]}
    OBVIOUS
  <1>2. Bad \subseteq 0..N /\ Bad # {} /\ Bad \subseteq Nat
    BY <1>1
  <1>3. IsFiniteSet(Bad)
    <2>1. 0 \in Int /\ N \in Int
      OBVIOUS
    <2>2. IsFiniteSet(0..N)
      BY <2>1, FS_Interval
    <2> QED BY <1>2, <2>2, FS_Subset
  <1>4. PICK n \in Bad : \A m \in Bad : n <= m
    BY <1>2, <1>3, LeastNumber
  <1>5. n \in 0..N /\ f[n] # g[n]
    BY <1>1, <1>4
  <1>6. ASSUME NEW m \in 0..n, m < n PROVE f[m] = g[m]
    <2>1. m \notin Bad /\ m \in 0..N
      BY <1>2, <1>4, <1>5, <1>6
    <2> QED BY <1>1, <2>1
  <1> QED BY <1>5, <1>6 DEF FirstApart

LEMMA LastStepIs ==
    ASSUME Table(histories), NEW N, N = Cardinality(histories)
    PROVE  N \in Nat /\ StepAfter[N] = IF N = 0 THEN 0 ELSE Visited[N].num
  <1>1. PICK order : order = Visited
    OBVIOUS
  <1>2. /\ N \in Nat /\ Len(order) = N /\ order \in Seq(histories)
        /\ \A i \in 1..N : order[i] \in histories /\ Place(order[i], histories) = i - 1
    BY <1>1, OrderedList DEF Listed, Table, Visited
  <1>3. \A i \in 1..N : order[i].num \in Nat
    BY <1>2 DEF Table, Lined
  <1>4. ASSUME NEW i \in 1..N, NEW j \in 1..N, i < j PROVE order[i].num <= order[j].num
    <2>1. Place(order[i], histories) < Place(order[j], histories)
      BY <1>2, <1>4
    <2> QED BY <1>2, <2>1, PlacesOrder DEF Table
  <1>5. PICK w : w = [n \in 0..N |-> IF n = 0 THEN 0 ELSE order[n].num]
    OBVIOUS
  <1> DEFINE Loop(f) == [n \in 0..N |-> IF n = 0 THEN 0 ELSE IF order[n].num > f[n - 1] THEN order[n].num ELSE f[n - 1]]
  <1>6. ASSUME NEW n \in 0..N
        PROVE  w[n] = IF n = 0 THEN 0 ELSE IF order[n].num > w[n - 1] THEN order[n].num ELSE w[n - 1]
    <2>1. CASE n = 0
      BY <1>5, <2>1
    <2>2. CASE n = 1
      <3>1. w[n] = order[n].num /\ w[n - 1] = 0 /\ order[n].num \in Nat
        BY <1>2, <1>3, <1>5, <2>2
      <3> QED BY <2>2, <3>1
    <2>3. CASE n # 0 /\ n # 1
      <3>1. PICK m : m = n - 1
        OBVIOUS
      <3>2. m \in 1..N /\ n \in 1..N /\ m < n /\ m \in 0..N /\ m # 0
        BY <1>2, <2>3, <3>1
      <3>3. w[n] = order[n].num /\ w[m] = order[m].num
        BY <1>5, <3>2
      <3>4. order[m].num <= order[n].num /\ order[m].num \in Nat /\ order[n].num \in Nat
        BY <1>3, <1>4, <3>2
      <3> QED BY <2>3, <3>1, <3>3, <3>4
    <2> QED BY <2>1, <2>2, <2>3
  <1>7. w = Loop(w)
    BY <1>5, <1>6
  <1>8. StepAfter = CHOOSE f : f = Loop(f)
    BY <1>1 DEF StepAfter
  <1>9. StepAfter = Loop(StepAfter)
    <2> HIDE DEF Loop
    <2> QED BY <1>7, <1>8
  <1>10. \A n \in 0..N : StepAfter[n] = IF n = 0 THEN 0 ELSE IF order[n].num > StepAfter[n - 1] THEN order[n].num ELSE StepAfter[n - 1]
    BY <1>9
  <1>11. ASSUME \E n \in 0..N : StepAfter[n] # w[n] PROVE FALSE
    <2>0. PICK n \in 0..N : FirstApart(n, StepAfter, w)
      BY <1>2, <1>11, FirstDifference
    <2>1. StepAfter[n] # w[n] /\ \A m \in 0..n : m < n => StepAfter[m] = w[m]
      BY <2>0 DEF FirstApart
    <2>2. CASE n = 0
      BY <1>6, <1>10, <2>1, <2>2
    <2>3. CASE n # 0
      <3>1. n - 1 \in 0..n /\ n - 1 < n
        BY <1>2, <2>3
      <3>2. StepAfter[n - 1] = w[n - 1]
        BY <2>1, <3>1
      <3> QED BY <1>6, <1>10, <2>1, <2>3, <3>2
    <2> QED BY <2>2, <2>3
  <1>12. StepAfter[N] = w[N]
    BY <1>2, <1>11
  <1> QED BY <1>1, <1>2, <1>5, <1>12

\* The rows before the n-th that log a metric.
Logged(k, n) == {m \in 1..n : k \in Visited[m].keys}

LEMMA LastLogged ==
    ASSUME NEW k, NEW n \in Nat
    PROVE  /\ Logged(k, n) # {} => Max(Logged(k, n)) \in Logged(k, n) /\ \A m \in Logged(k, n) : m <= Max(Logged(k, n))
           /\ n > 0 /\ k \in Visited[n].keys => n \in Logged(k, n) /\ Max(Logged(k, n)) = n
           /\ n > 0 /\ k \notin Visited[n].keys => Logged(k, n) = Logged(k, n - 1)
  <1>1. PICK S : S = Logged(k, n)
    OBVIOUS
  <1>2. S \subseteq 1..n
    BY <1>1 DEF Logged
  <1>3. ASSUME S # {} PROVE \E m \in S : \A j \in S : m >= j
    <2>1. PICK R : R = {i \in 0..n : n - i \in S}
      OBVIOUS
    <2>2. \A m \in S : n - m \in R
      <3> TAKE m \in S
      <3>1. n - m \in 0..n /\ n - (n - m) = m
        BY <1>2
      <3> QED BY <2>1, <3>1
    <2>3. R \subseteq Nat /\ R # {}
      <3>1. PICK m \in S : TRUE
        BY <1>3
      <3>2. n - m \in R
        BY <2>2, <3>1
      <3> QED BY <2>1, <3>2
    <2>4. IsFiniteSet(R)
      <3>1. 0 \in Int /\ n \in Int
        OBVIOUS
      <3>2. IsFiniteSet(0..n)
        BY <3>1, FS_Interval
      <3> QED BY <2>1, <3>2, FS_Subset
    <2>5. PICK i \in R : \A j \in R : i <= j
      BY <2>3, <2>4, LeastNumber
    <2>6. PICK m : m = n - i
      OBVIOUS
    <2>7. m \in S /\ i \in 0..n
      BY <2>1, <2>5, <2>6
    <2>8. ASSUME NEW j \in S PROVE m >= j
      <3>1. i <= n - j
        BY <2>2, <2>5
      <3> QED BY <1>2, <2>6, <2>7, <3>1
    <2> QED BY <2>7, <2>8
  <1>4. S # {} => Max(S) \in S /\ \A m \in S : Max(S) >= m
    BY <1>3 DEF Max
  <1>5. \A m \in S : m \in Nat /\ m <= n
    BY <1>2
  <1>6. S # {} => Max(S) \in Nat /\ Max(S) <= n /\ \A m \in S : m <= Max(S)
    BY <1>4, <1>5
  <1>7. ASSUME n > 0, k \in Visited[n].keys PROVE n \in S /\ Max(S) = n
    <2>1. n \in S
      BY <1>1, <1>7 DEF Logged
    <2>2. n <= Max(S)
      BY <1>6, <2>1
    <2> QED BY <1>6, <2>1, <2>2
  <1>8. ASSUME n > 0, k \notin Visited[n].keys PROVE S = Logged(k, n - 1)
    <2>1. \A m : m \in 1..n /\ m # n <=> m \in 1..(n - 1)
      BY <1>8
    <2> QED BY <1>1, <1>8, <2>1 DEF Logged
  <1> QED BY <1>1, <1>4, <1>6, <1>7, <1>8

LEMMA HistoryKeysAre ==
    ASSUME Table(histories), NEW N, N = Cardinality(histories), NEW key \in Keys
    PROVE  KeysAfter[N][key] = IF Logged(key, N) = {} THEN 0 ELSE Visited[Max(Logged(key, N))].id
  <1>1. PICK order : order = Visited
    OBVIOUS
  <1>2. N \in Nat
    BY TableSize
  <1> DEFINE value(n, k) == IF Logged(k, n) = {} THEN 0 ELSE order[Max(Logged(k, n))].id
             Loop(f) == [n \in 0..N |-> [k \in Keys |-> IF n = 0 THEN 0 ELSE IF k \in order[n].keys THEN order[n].id ELSE f[n - 1][k]]]
  <1>3. PICK w : w = [n \in 0..N |-> [k \in Keys |-> value(n, k)]]
    OBVIOUS
  <1>4. ASSUME NEW n \in 0..N, NEW k \in Keys
        PROVE  value(n, k) = IF n = 0 THEN 0 ELSE IF k \in order[n].keys THEN order[n].id ELSE w[n - 1][k]
    <2>1. CASE n = 0
      BY <2>1 DEF Logged
    <2>2. CASE n # 0 /\ k \in order[n].keys
      <3>1. n \in Nat /\ n > 0
        BY <2>2
      <3>2. Logged(k, n) # {} /\ Max(Logged(k, n)) = n
        BY <1>1, <2>2, <3>1, LastLogged
      <3> QED BY <2>2, <3>2
    <2>3. CASE n # 0 /\ k \notin order[n].keys
      <3>1. n \in Nat /\ n > 0 /\ n - 1 \in 0..N
        BY <1>2, <2>3
      <3>2. Logged(k, n) = Logged(k, n - 1)
        BY <1>1, <2>3, <3>1, LastLogged
      <3>3. w[n - 1][k] = value(n - 1, k)
        BY <1>3, <3>1
      <3> QED BY <2>3, <3>2, <3>3
    <2> QED BY <2>1, <2>2, <2>3
  <1>5. w = Loop(w)
    <2> HIDE DEF value
    <2>1. \A n \in 0..N : [k \in Keys |-> value(n, k)]
                            = [k \in Keys |-> IF n = 0 THEN 0 ELSE IF k \in order[n].keys THEN order[n].id ELSE w[n - 1][k]]
      BY <1>4
    <2> QED BY <1>3, <2>1
  <1>6. KeysAfter = CHOOSE f : f = Loop(f)
    BY <1>1 DEF KeysAfter
  <1>7. KeysAfter = Loop(KeysAfter)
    <2> HIDE DEF Loop
    <2> QED BY <1>5, <1>6
  <1>8. PICK g : g = KeysAfter
    OBVIOUS
  <1>9. \A n \in 0..N : g[n] = [k \in Keys |-> IF n = 0 THEN 0 ELSE IF k \in order[n].keys THEN order[n].id ELSE g[n - 1][k]]
    <2>1. g = Loop(g)
      <3> HIDE DEF Loop
      <3> QED BY <1>7, <1>8
    <2> QED BY <2>1
  <1>10. \A n \in 0..N : w[n] = [k \in Keys |-> IF n = 0 THEN 0 ELSE IF k \in order[n].keys THEN order[n].id ELSE w[n - 1][k]]
    BY <1>5
  <1>11. ASSUME \E n \in 0..N : g[n] # w[n] PROVE FALSE
    <2>1. PICK n \in 0..N : FirstApart(n, g, w)
      BY <1>2, <1>11, FirstDifference
    <2>2. g[n] # w[n] /\ \A m \in 0..n : m < n => g[m] = w[m]
      BY <2>1 DEF FirstApart
    <2>3. CASE n = 0
      <3>1. g[n] = [k \in Keys |-> IF n = 0 THEN 0 ELSE IF k \in order[n].keys THEN order[n].id ELSE g[n - 1][k]]
        BY <1>9
      <3>2. w[n] = [k \in Keys |-> IF n = 0 THEN 0 ELSE IF k \in order[n].keys THEN order[n].id ELSE w[n - 1][k]]
        BY <1>10
      <3>3. g[n] = [k \in Keys |-> 0]
        BY <2>3, <3>1
      <3>4. w[n] = [k \in Keys |-> 0]
        BY <2>3, <3>2
      <3> QED BY <2>2, <3>3, <3>4
    <2>4. CASE n # 0
      <3>1. n - 1 \in 0..n /\ n - 1 < n
        BY <1>2, <2>4
      <3>2. g[n - 1] = w[n - 1]
        BY <2>2, <3>1
      <3>3. PICK r : r = g[n - 1]
        OBVIOUS
      <3>4. g[n] = [k \in Keys |-> IF n = 0 THEN 0 ELSE IF k \in order[n].keys THEN order[n].id ELSE g[n - 1][k]]
        BY <1>9
      <3>5. w[n] = [k \in Keys |-> IF n = 0 THEN 0 ELSE IF k \in order[n].keys THEN order[n].id ELSE w[n - 1][k]]
        BY <1>10
      <3>6. g[n] = [k \in Keys |-> IF n = 0 THEN 0 ELSE IF k \in order[n].keys THEN order[n].id ELSE r[k]]
        BY <3>3, <3>4
      <3>7. w[n] = [k \in Keys |-> IF n = 0 THEN 0 ELSE IF k \in order[n].keys THEN order[n].id ELSE r[k]]
        BY <3>2, <3>3, <3>5
      <3> QED BY <2>2, <3>6, <3>7
    <2> QED BY <2>3, <2>4
  <1>12. N \in 0..N
    BY <1>2
  <1>13. g[N] = w[N]
    BY <1>11, <1>12
  <1>14. w[N][key] = value(N, key)
    BY <1>3, <1>12
  <1> QED BY <1>1, <1>8, <1>13, <1>14

(***************************************************************************)
(* Pages, and the types of what is read.                                   *)
(***************************************************************************)
\* A page of a table from an offset.
PartOf(part, S, offset) ==
    /\ part \in Seq(S) /\ Len(part) \in Nat /\ Len(part) <= PageLength
    /\ \A i \in 1..Len(part) : part[i] \in S /\ Place(part[i], S) = offset + i - 1
    /\ \A v \in S : offset <= Place(v, S) /\ Place(v, S) < offset + PageLength => \E i \in 1..Len(part) : part[i] = v

LEMMA PartFacts ==
    ASSUME NEW S, Lined(S), NEW offset \in Nat, NEW part, part = Slice(Ordered(S), offset, PageLength)
    PROVE  PartOf(part, S, offset)
  <1>1. PageLength \in Nat
    BY HistoryAssumption DEF HistoryAssumption
  <1>2. PICK order : order = Ordered(S)
    OBVIOUS
  <1>3. Listed(S, order)
    BY <1>2, OrderedList
  <1>4. /\ order \in Seq(S) /\ Len(order) \in Nat
        /\ \A i \in 1..Len(order) : order[i] \in S /\ Place(order[i], S) = i - 1
        /\ \A q \in S : Place(q, S) \in 0..(Len(order) - 1) /\ \A i \in 1..Len(order) : Place(q, S) = i - 1 => order[i] = q
    BY <1>3 DEF Listed
  <1>0. part \in Seq(S) /\ Sliced(part, order, offset, PageLength)
    BY <1>1, <1>2, <1>4, SliceFacts
  <1>5. /\ part \in Seq(S) /\ Len(part) \in Nat /\ Len(part) <= PageLength
        /\ \A i \in 1..Len(part) : offset + i \in 1..Len(order) /\ part[i] = order[offset + i]
        /\ \A j \in 1..Len(order) : offset < j /\ j <= offset + PageLength =>
              j - offset \in 1..Len(part) /\ part[j - offset] = order[j]
    BY <1>0 DEF Sliced
  <1>6. ASSUME NEW i \in 1..Len(part) PROVE part[i] \in S /\ Place(part[i], S) = offset + i - 1
    <2>1. PICK j : j = offset + i
      OBVIOUS
    <2>2. j \in 1..Len(order) /\ part[i] = order[j]
      BY <1>5, <2>1
    <2>3. Place(order[j], S) = j - 1 /\ order[j] \in S
      BY <1>4, <2>2
    <2> QED BY <2>1, <2>2, <2>3
  <1>7. ASSUME NEW v \in S, offset <= Place(v, S), Place(v, S) < offset + PageLength
        PROVE  \E i \in 1..Len(part) : part[i] = v
    <2>1. PICK j : j = Place(v, S) + 1
      OBVIOUS
    <2>2. j \in 1..Len(order) /\ Place(v, S) = j - 1
      BY <1>4, <2>1
    <2>3. order[j] = v
      BY <1>4, <2>2
    <2>4. offset < j /\ j <= offset + PageLength
      BY <1>1, <1>7, <2>1, <2>2
    <2>5. j - offset \in 1..Len(part) /\ part[j - offset] = order[j]
      BY <1>5, <2>2, <2>4
    <2> QED BY <2>3, <2>5
  <1> QED BY <1>5, <1>6, <1>7 DEF PartOf

LEMMA LogPageFacts ==
    ASSUME HistoryTypeInv, NEW part, part = LogPage
    PROVE  PartOf(part, logs, reader.at)
  <1>1. Lined(logs) /\ reader.at \in Nat
    BY ReaderType DEF HistoryTypeInv, Table, ReaderFields
  <1> QED BY <1>1, PartFacts DEF LogPage

LEMMA RangeFacts ==
    ASSUME HistoryTypeInv, NEW min, NEW max, NEW part, part = GetHistory(min, max, PageLength)
    PROVE  /\ Lined(Between(min, max)) /\ Between(min, max) \subseteq histories
           /\ PartOf(part, Between(min, max), 0)
  <1>1. Lined(histories)
    BY DEF HistoryTypeInv, Table
  <1>2. Between(min, max) \subseteq histories
    BY DEF Between
  <1>3. IsFiniteSet(Between(min, max))
    BY <1>1, <1>2, FS_Subset DEF Lined
  <1>4. Lined(Between(min, max))
    BY <1>1, <1>2, <1>3 DEF Lined
  <1>5. part = Slice(Ordered(Between(min, max)), 0, PageLength)
    BY HistoryAssumption DEF HistoryAssumption, GetHistory
  <1>6. 0 \in Nat
    OBVIOUS
  <1> QED BY <1>2, <1>4, <1>5, <1>6, PartFacts

\* Row number n of what a walk was given has n - 1 lines before it.
InPlace(list, S) == \A n \in 1..Len(list) : list[n] \in S /\ Place(list[n], S) = n - 1

LEMMA InPlaceOrder ==
    ASSUME NEW S, Lined(S), NEW list \in Seq(S), InPlace(list, S)
    PROVE  IsInjective(list) /\ InOrder(list)
  <1>1. DOMAIN list = 1..Len(list) /\ Len(list) \in Nat
    OBVIOUS
  <1>2. ASSUME NEW m \in 1..Len(list), NEW n \in 1..Len(list), list[m] = list[n] PROVE m = n
    <2>1. m - 1 = n - 1
      BY <1>2 DEF InPlace
    <2> QED BY <1>1, <2>1
  <1>3. ASSUME NEW m \in 1..Len(list), NEW n \in 1..Len(list), m < n PROVE list[m].num <= list[n].num
    <2>1. list[m] \in S /\ list[n] \in S /\ Place(list[m], S) = m - 1 /\ Place(list[n], S) = n - 1
      BY DEF InPlace
    <2>2. Place(list[m], S) < Place(list[n], S)
      BY <1>1, <1>3, <2>1
    <2> QED BY <2>1, <2>2, PlacesOrder
  <1>4. IsInjective(list)
    BY <1>1, <1>2 DEF IsInjective
  <1>5. InOrder(list)
    BY <1>1, <1>3 DEF InOrder
  <1> QED BY <1>4, <1>5

\* What a query for the whole history gives.
WholeOf(part, limit) ==
    /\ part \in Seq(histories) /\ IsInjective(part) /\ InOrder(part)
    /\ \A h \in histories :
          \/ \E i \in 1..Len(part) : part[i] = h
          \/ Len(part) = limit /\ \A i \in 1..Len(part) : part[i].num <= h.num

LEMMA WholeFacts ==
    ASSUME HistoryTypeInv, NEW limit \in {0, PageLength}, NEW part, part = GetHistory({}, {}, limit)
    PROVE  WholeOf(part, limit)
  <1>1. Lined(histories) /\ PageLength \in Nat /\ PageLength > 0
    BY HistoryAssumption DEF HistoryAssumption, HistoryTypeInv, Table
  <1>2. Between({}, {}) = histories
    BY DEF Between
  <1>3. PICK order : order = Ordered(histories)
    OBVIOUS
  <1>4. Listed(histories, order)
    BY <1>1, <1>3, OrderedList
  <1>5. /\ order \in Seq(histories) /\ Len(order) \in Nat
        /\ \A i \in 1..Len(order) : order[i] \in histories /\ Place(order[i], histories) = i - 1
        /\ \A q \in histories : Place(q, histories) \in 0..(Len(order) - 1) /\ \A i \in 1..Len(order) : Place(q, histories) = i - 1 => order[i] = q
    BY <1>4 DEF Listed
  <1>6. CASE limit = 0
    <2>1. part = order
      BY <1>2, <1>3, <1>6 DEF GetHistory
    <2>2. InPlace(order, histories)
      BY <1>5 DEF InPlace
    <2>3. IsInjective(order) /\ InOrder(order)
      BY <1>1, <1>5, <2>2, InPlaceOrder
    <2>4. ASSUME NEW h \in histories PROVE \E i \in 1..Len(order) : order[i] = h
      <3>1. PICK i : i = Place(h, histories) + 1
        OBVIOUS
      <3>2. i \in 1..Len(order) /\ Place(h, histories) = i - 1
        BY <1>5, <3>1
      <3> QED BY <1>5, <3>2
    <2> QED BY <1>5, <2>1, <2>3, <2>4 DEF WholeOf
  <1>7. CASE limit = PageLength
    <2>1. part = Slice(order, 0, PageLength)
      BY <1>1, <1>2, <1>3, <1>7 DEF GetHistory
    <2>2. PartOf(part, histories, 0)
      <3>1. 0 \in Nat
        OBVIOUS
      <3> QED BY <1>1, <1>3, <2>1, <3>1, PartFacts
    <2>3. /\ part \in Seq(histories) /\ Len(part) \in Nat /\ Len(part) <= PageLength
          /\ \A i \in 1..Len(part) : part[i] \in histories /\ Place(part[i], histories) = 0 + i - 1
          /\ \A v \in histories : 0 <= Place(v, histories) /\ Place(v, histories) < 0 + PageLength => \E i \in 1..Len(part) : part[i] = v
      BY <2>2 DEF PartOf
    <2>4. \A i \in 1..Len(part) : part[i] \in histories /\ Place(part[i], histories) = i - 1
      <3>1. \A i \in 1..Len(part) : 0 + i - 1 = i - 1
        OBVIOUS
      <3> QED BY <2>3, <3>1
    <2>5. IsInjective(part) /\ InOrder(part)
      <3>1. InPlace(part, histories)
        BY <2>4 DEF InPlace
      <3> QED BY <1>1, <2>3, <3>1, InPlaceOrder
    <2>6. ASSUME NEW h \in histories, ~\E i \in 1..Len(part) : part[i] = h
          PROVE  Len(part) = PageLength /\ \A i \in 1..Len(part) : part[i].num <= h.num
      <3>1. Place(h, histories) \in Nat /\ Place(h, histories) < Len(order) /\ ~(Place(h, histories) < PageLength)
        BY <1>1, <1>5, <2>3, <2>6
      <3>2. PageLength \in 1..Len(order)
        BY <1>1, <1>5, <3>1
      <3>3. order[PageLength] \in histories /\ Place(order[PageLength], histories) = PageLength - 1
        BY <1>5, <3>2
      <3>4. PICK i \in 1..Len(part) : part[i] = order[PageLength]
        BY <1>1, <2>3, <3>3
      <3>5. i - 1 = PageLength - 1
        BY <2>4, <3>3, <3>4
      <3>6. Len(part) = PageLength
        BY <1>1, <2>3, <3>4, <3>5
      <3>7. ASSUME NEW j \in 1..Len(part) PROVE part[j].num <= h.num
        <4>1. part[j] \in histories /\ Place(part[j], histories) = j - 1 /\ j - 1 < PageLength
          BY <1>1, <2>3, <2>4
        <4>2. Place(part[j], histories) < Place(h, histories)
          BY <1>1, <3>1, <4>1
        <4> QED BY <1>1, <4>1, <4>2, PlacesOrder
      <3> QED BY <3>6, <3>7
    <2> QED BY <1>7, <2>3, <2>5, <2>6 DEF WholeOf
  <1> QED BY <1>6, <1>7

LEMMA TableGrows ==
    ASSUME NEW S, Table(S), NEW row, row.num \in Nat, row.id = Cardinality(S) + 1
    PROVE  Table(S \cup {row})
  BY NewRow DEF Table

LEMMA RowsMoveType ==
    ASSUME HistoryTypeInv, RowsMove
    PROVE  /\ Table(histories') /\ Table(logs') /\ histories' \subseteq HistoryRow /\ logs' \subseteq LogRow
           /\ histories \subseteq histories' /\ logs \subseteq logs'
           /\ met' \subseteq {"early", "between", "uncounted"} /\ (reader.of # "log" => met' = met)
  <1>1. /\ Table(histories) /\ Table(logs) /\ histories \subseteq HistoryRow /\ logs \subseteq LogRow
        /\ met \subseteq {"early", "between", "uncounted"}
    BY DEF HistoryTypeInv, HistoryTypes
  <1>2. CASE histories' = histories /\ logs' = logs /\ met' = met
    BY <1>1, <1>2
  <1>3. CASE HistoryGrows
    <2>1. PICK row \in HistoryRow :
             row.id = Cardinality(histories) + 1 /\ histories' = histories \cup {row} /\ logs' = logs /\ met' = met
      BY <1>3 DEF HistoryGrows
    <2>2. row.num \in Nat
      BY DEF HistoryRow
    <2>3. Table(histories \cup {row})
      BY <1>1, <2>1, <2>2, TableGrows
    <2> QED BY <1>1, <2>1, <2>3
  <1>4. CASE LogGrows
    <2>1. PICK row \in LogRow :
             row.id = Cardinality(logs) + 1 /\ logs' = logs \cup {row} /\ met' = met \cup Shifts(row.num) /\ histories' = histories
      BY <1>4 DEF LogGrows
    <2>2. row.num \in Nat
      BY DEF LogRow
    <2>3. Table(logs \cup {row})
      BY <1>1, <2>1, <2>2, TableGrows
    <2>4. Shifts(row.num) \subseteq {"early", "between"} /\ (reader.of # "log" => Shifts(row.num) = {})
      BY DEF Shifts
    <2> QED BY <1>1, <2>1, <2>3, <2>4
  <1> QED BY <1>2, <1>3, <1>4 DEF RowsMove

RowType(of) == IF of = "log" THEN LogRow ELSE HistoryRow

LEMMA TurnsType ==
    ASSUME HistoryTypes, NEW of \in {"history", "whole", "log"}, NEW step \in {"begin", "page", "count", "list", "done", "failed"},
           NEW at \in Nat, NEW end \in Nat, NEW got \in Seq(RowType(of)),
           reader' = [of |-> of, step |-> step, at |-> at, end |-> end, got |-> got]
    PROVE  /\ reader' \in [of: {"none", "history", "whole", "log"}, step: {"idle", "begin", "page", "count", "list", "done", "failed"},
                           at: Nat, end: Nat, got: Seq(HistoryRow \cup LogRow)]
           /\ reader'.got \in Seq(IF reader'.of = "log" THEN LogRow ELSE HistoryRow)
           /\ reader'.of = of /\ reader'.step = step /\ reader'.at = at /\ reader'.end = end /\ reader'.got = got
  <1>1. RowType(of) \subseteq HistoryRow \cup LogRow
    BY DEF RowType
  <1>2. got \in Seq(HistoryRow \cup LogRow)
    BY <1>1, Longer
  <1>3. got \in Seq(IF of = "log" THEN LogRow ELSE HistoryRow)
    BY DEF RowType
  <1> QED BY <1>2, <1>3

\* What holds of the types after a step in which only the reader moves.
LEMMA ReaderMovesType ==
    ASSUME HistoryTypeInv, ReaderAlone, Passes \/ Breaks \/ errors' = errors,
           NEW of \in {"history", "whole", "log"}, NEW step \in {"begin", "page", "count", "list", "done", "failed"},
           NEW at \in Nat, NEW end \in Nat, NEW got \in Seq(RowType(of)),
           reader' = [of |-> of, step |-> step, at |-> at, end |-> end, got |-> got],
           of = "history" => step \in {"begin", "page", "done", "failed"},
           of = "whole" => step \in {"begin", "done", "failed"},
           of # "log" => met' = {},
           of = "log" => step \in {"count", "list", "done", "failed"},
           step = "begin" => got = <<>> /\ at = 0,
           met' \subseteq {"early", "between", "uncounted"},
           present' \subseteq IF of = "log" THEN logs ELSE histories
    PROVE  HistoryTypeInv'
  <1>1. HistoryTypes
    BY DEF HistoryTypeInv
  <1>2. /\ reader' \in [of: {"none", "history", "whole", "log"}, step: {"idle", "begin", "page", "count", "list", "done", "failed"},
                        at: Nat, end: Nat, got: Seq(HistoryRow \cup LogRow)]
        /\ reader'.got \in Seq(IF reader'.of = "log" THEN LogRow ELSE HistoryRow)
        /\ reader'.of = of /\ reader'.step = step /\ reader'.at = at /\ reader'.end = end /\ reader'.got = got
    BY <1>1, TurnsType
  <1>3. errors' \in 0..MaxErrors
    BY <1>1, PassesType DEF HistoryTypes
  <1>4. present' \subseteq IF reader'.of = "log" THEN logs' ELSE histories'
    BY <1>2 DEF ReaderAlone
  <1>5. HistoryTypes'
    BY <1>1, <1>2, <1>3, <1>4 DEF HistoryTypes, ReaderAlone
  <1>6. ReaderShape'
    BY <1>2 DEF ReaderShape
  <1>7. Table(histories') /\ Table(logs')
    BY DEF HistoryTypeInv, ReaderAlone
  <1> QED BY <1>5, <1>6, <1>7 DEF HistoryTypeInv

LEMMA SubList ==
    ASSUME NEW T, NEW U, T \subseteq U, NEW s \in Seq(U), NEW t \in Seq(T)
    PROVE  s \o t \in Seq(U)
  <1>1. t \in Seq(U)
    BY Longer
  <1> QED BY <1>1, JoinFacts

LEMMA HistoryMoves ==
    ASSUME HistoryTypeInv, [HistoryNext]_historical
    PROVE  RowsMove \/ BeginReading \/ LastStep \/ ScanPage \/ ReadWhole \/ CountLogs \/ ListLogs
  <1>1. ASSUME NEW s \in Slots, Post(s) \/ Repeat(s) PROVE RowsMove
    BY <1>1, AcceptFacts DEF HistoryTypeInv, RowsMove
  <1>2. ASSUME NEW s \in Slots, InsertLine(s) PROVE RowsMove
    BY <1>2, InsertLineFacts
  <1>3. CASE UNCHANGED historical
    BY <1>3 DEF historical, stored, posting, RowsMove
  <1> QED BY <1>1, <1>2, <1>3 DEF HistoryNext

LEMMA HistoryTypeNext ==
    ASSUME HistoryTypeInv, [HistoryNext]_historical
    PROVE  HistoryTypeInv'
  <1>1. HistoryTypes /\ ReaderFields /\ ReaderShape
    BY ReaderType DEF HistoryTypeInv
  <1>2. /\ PageLength \in Nat /\ met \subseteq {"early", "between", "uncounted"}
        /\ present \subseteq IF reader.of = "log" THEN logs ELSE histories
        /\ histories \subseteq HistoryRow /\ logs \subseteq LogRow
    BY <1>1, HistoryAssumption DEF HistoryAssumption, HistoryTypes
  <1>3. reader.got \in Seq(RowType(reader.of)) /\ reader.at \in Nat /\ reader.end \in Nat
    BY <1>1 DEF HistoryTypes, RowType, ReaderFields
  <1>4. ASSUME RowsMove, pending' \in [Slots -> Seq(HistoryLine \cup LogLine)],
               awaited' \subseteq Slots, posted' \in 0..Len(Posts), repeats' \in 0..MaxRepeats, errors' \in 0..MaxErrors
        PROVE  HistoryTypeInv'
    <2>1. /\ Table(histories') /\ Table(logs') /\ histories' \subseteq HistoryRow /\ logs' \subseteq LogRow
          /\ histories \subseteq histories' /\ logs \subseteq logs'
          /\ met' \subseteq {"early", "between", "uncounted"} /\ (reader.of # "log" => met' = met)
      BY <1>4, RowsMoveType
    <2>2. reader' = reader /\ present' = present
      BY <1>4 DEF RowsMove
    <2>3. present' \subseteq IF reader.of = "log" THEN logs' ELSE histories'
      BY <1>2, <2>1, <2>2
    <2>4. HistoryTypes'
      BY <1>1, <1>4, <2>1, <2>2, <2>3 DEF HistoryTypes
    <2>5. ReaderShape'
      BY <1>1, <2>1, <2>2 DEF ReaderShape
    <2> QED BY <2>1, <2>4, <2>5 DEF HistoryTypeInv
  <1>5. ASSUME NEW s \in Slots, Post(s) \/ Repeat(s) PROVE HistoryTypeInv'
    <2>1. errors \in 0..MaxErrors
      BY <1>1 DEF HistoryTypes
    <2> QED BY <1>1, <1>4, <1>5, <2>1, AcceptFacts DEF RowsMove
  <1>6. ASSUME NEW s \in Slots, InsertLine(s) PROVE HistoryTypeInv'
    <2>1. awaited \subseteq Slots /\ posted \in 0..Len(Posts) /\ repeats \in 0..MaxRepeats
      BY <1>1 DEF HistoryTypes
    <2> QED BY <1>1, <1>4, <1>6, <2>1, InsertLineFacts, PassesType
  <1>7. CASE BeginReading
    <2>1. <<>> \in Seq(RowType("history")) /\ <<>> \in Seq(RowType("whole")) /\ <<>> \in Seq(RowType("log"))
      OBVIOUS
    <2>2. /\ ReaderAlone /\ errors' = errors /\ met' = {}
          /\ \/ reader' = [of |-> "history", step |-> "begin", at |-> 0, end |-> reader.end, got |-> <<>>] /\ present' = histories
             \/ reader' = [of |-> "whole", step |-> "begin", at |-> 0, end |-> reader.end, got |-> <<>>] /\ present' = histories
             \/ reader' = [of |-> "log", step |-> "count", at |-> 0, end |-> reader.end, got |-> <<>>] /\ present' = logs
      BY <1>7, BeginFacts
    <2> QED BY <1>3, <2>1, <2>2, ReaderMovesType
  <1>8. CASE LastStep
    <2>1. /\ ReaderAlone /\ present' = present /\ met' = met /\ (Passes \/ Breaks)
          /\ reader.of = "history" /\ reader.step = "begin"
          /\ \/ Turns("page", 0, StepAfter[Cardinality(histories)] + 1, <<>>)
             \/ Turns("failed", reader.at, reader.end, reader.got)
      BY <1>8, LastStepFacts
    <2>2. met = {}
      BY <1>1, <2>1 DEF ReaderShape
    <2>3. PICK last : last = StepAfter[Cardinality(histories)]
      OBVIOUS
    <2>4. last \in Nat
      <3>1. PICK N : N = Cardinality(histories)
        OBVIOUS
      <3>2. Table(histories)
        BY DEF HistoryTypeInv
      <3>3. N \in Nat /\ last = IF N = 0 THEN 0 ELSE Visited[N].num
        BY <2>3, <3>1, <3>2, LastStepIs
      <3>4. N # 0 => Visited[N] \in histories
        BY <3>1, <3>2, <3>3, OrderedList DEF Listed, Table, Visited
      <3> QED BY <3>2, <3>3, <3>4 DEF Table, Lined
    <2>5. CASE Turns("page", 0, last + 1, <<>>)
      <3>1. <<>> \in Seq(RowType("history")) /\ last + 1 \in Nat /\ 0 \in Nat
        BY <2>4
      <3>2. reader' = [of |-> "history", step |-> "page", at |-> 0, end |-> last + 1, got |-> <<>>]
        BY <2>1, <2>5 DEF Turns
      <3> QED BY <1>2, <2>1, <2>2, <3>1, <3>2, ReaderMovesType
    <2>6. CASE Turns("failed", reader.at, reader.end, reader.got)
      <3>1. reader' = [of |-> "history", step |-> "failed", at |-> reader.at, end |-> reader.end, got |-> reader.got]
        BY <2>1, <2>6 DEF Turns
      <3> QED BY <1>2, <1>3, <2>1, <2>2, <3>1, ReaderMovesType
    <2> QED BY <2>1, <2>3, <2>5, <2>6
  <1>9. CASE ScanPage
    <2>1. PICK max \in {Min({reader.at + PageLength, reader.end})} :
             /\ ReaderAlone /\ present' = present /\ met' = met /\ (Passes \/ Breaks)
             /\ reader.of = "history" /\ reader.step = "page"
             /\ \/ Turns(IF max = reader.end THEN "done" ELSE "page", reader.at + PageLength, reader.end,
                         reader.got \o GetHistory({reader.at}, {max}, PageLength))
                \/ Turns("failed", reader.at, reader.end, reader.got)
      BY <1>9, ScanPageFacts
    <2>2. met = {}
      BY <1>1, <2>1 DEF ReaderShape
    <2>3. PICK part : part = GetHistory({reader.at}, {max}, PageLength)
      OBVIOUS
    <2>4. part \in Seq(Between({reader.at}, {max})) /\ Between({reader.at}, {max}) \subseteq histories
      BY <2>3, RangeFacts DEF PartOf
    <2>5. PICK all : all = reader.got \o part
      OBVIOUS
    <2>6. all \in Seq(RowType("history"))
      <3>1. Between({reader.at}, {max}) \subseteq RowType("history")
        BY <1>2, <2>4 DEF RowType
      <3>2. reader.got \in Seq(RowType("history"))
        BY <1>3, <2>1
      <3> QED BY <2>4, <2>5, <3>1, <3>2, SubList
    <2>7. CASE Turns(IF max = reader.end THEN "done" ELSE "page", reader.at + PageLength, reader.end, all)
      <3>1. PICK step \in {"done", "page"} : step = IF max = reader.end THEN "done" ELSE "page"
        OBVIOUS
      <3>2. PICK at \in Nat : at = reader.at + PageLength
        BY <1>2, <1>3
      <3>3. reader' = [of |-> "history", step |-> step, at |-> at, end |-> reader.end, got |-> all]
        BY <2>1, <2>7, <3>1, <3>2 DEF Turns
      <3> QED BY <1>2, <1>3, <2>1, <2>2, <2>6, <3>3, ReaderMovesType
    <2>8. CASE Turns("failed", reader.at, reader.end, reader.got)
      <3>1. reader' = [of |-> "history", step |-> "failed", at |-> reader.at, end |-> reader.end, got |-> reader.got]
        BY <2>1, <2>8 DEF Turns
      <3> QED BY <1>2, <1>3, <2>1, <2>2, <3>1, ReaderMovesType
    <2> QED BY <2>1, <2>3, <2>5, <2>7, <2>8
  <1>10. CASE CountLogs
    <2>1. /\ ReaderAlone /\ present' = present /\ (Passes \/ Breaks)
          /\ reader.of = "log" /\ reader.step = "count"
          /\ \/ Turns("list", reader.at, Cardinality(logs), reader.got) /\ met' = met
             \/ Turns("list", reader.at, 0, reader.got) /\ met' = met \cup {"uncounted"}
      BY <1>10, CountLogsFacts
    <2>2. Cardinality(logs) \in Nat
      BY TableSize DEF HistoryTypeInv
    <2>3. PICK end \in Nat : Turns("list", reader.at, end, reader.got)
      BY <2>1, <2>2
    <2>4. reader' = [of |-> "log", step |-> "list", at |-> reader.at, end |-> end, got |-> reader.got]
      BY <2>1, <2>3 DEF Turns
    <2>5. met' \subseteq {"early", "between", "uncounted"}
      BY <1>2, <2>1
    <2> QED BY <1>2, <1>3, <2>1, <2>4, <2>5, ReaderMovesType
  <1>11. CASE ListLogs
    <2>1. /\ ReaderAlone /\ present' = present /\ met' = met /\ (Passes \/ Breaks)
          /\ reader.of = "log" /\ reader.step = "list"
          /\ \/ Turns(IF reader.at + Len(LogPage) < reader.end THEN "count" ELSE "done", reader.at + Len(LogPage), reader.end,
                      reader.got \o LogPage)
             \/ Turns("failed", reader.at, reader.end, reader.got)
      BY <1>11, ListLogsFacts
    <2>2. PICK part : part = LogPage
      OBVIOUS
    <2>3. part \in Seq(logs) /\ Len(part) \in Nat
      BY <2>2, LogPageFacts DEF PartOf
    <2>4. PICK all : all = reader.got \o part
      OBVIOUS
    <2>5. all \in Seq(RowType("log"))
      <3>1. logs \subseteq RowType("log") /\ reader.got \in Seq(RowType("log"))
        BY <1>2, <1>3, <2>1 DEF RowType
      <3> QED BY <2>3, <2>4, <3>1, SubList
    <2>6. CASE Turns(IF reader.at + Len(part) < reader.end THEN "count" ELSE "done", reader.at + Len(part), reader.end, all)
      <3>1. PICK step \in {"done", "count"} : step = IF reader.at + Len(part) < reader.end THEN "count" ELSE "done"
        OBVIOUS
      <3>2. PICK at \in Nat : at = reader.at + Len(part)
        BY <1>3, <2>3
      <3>3. reader' = [of |-> "log", step |-> step, at |-> at, end |-> reader.end, got |-> all]
        BY <2>1, <2>6, <3>1, <3>2 DEF Turns
      <3> QED BY <1>2, <1>3, <2>1, <2>5, <3>3, ReaderMovesType
    <2>7. CASE Turns("failed", reader.at, reader.end, reader.got)
      <3>1. reader' = [of |-> "log", step |-> "failed", at |-> reader.at, end |-> reader.end, got |-> reader.got]
        BY <2>1, <2>7 DEF Turns
      <3> QED BY <1>2, <1>3, <2>1, <3>1, ReaderMovesType
    <2> QED BY <2>1, <2>2, <2>4, <2>6, <2>7
  <1>13. CASE ReadWhole
    <2>1. /\ ReaderAlone /\ present' = present /\ met' = met /\ met = {} /\ (Passes \/ Breaks)
          /\ reader.of = "whole"
          /\ \/ \E limit \in {0, PageLength} : Turns("done", reader.at, limit, GetHistory({}, {}, limit))
             \/ Turns("failed", reader.at, reader.end, reader.got)
      BY <1>13, ReadWholeFacts
    <2>2. CASE Turns("failed", reader.at, reader.end, reader.got)
      <3>1. reader' = [of |-> "whole", step |-> "failed", at |-> reader.at, end |-> reader.end, got |-> reader.got]
        BY <2>1, <2>2 DEF Turns
      <3> QED BY <1>2, <1>3, <2>1, <3>1, ReaderMovesType
    <2>3. ASSUME NEW limit \in {0, PageLength}, Turns("done", reader.at, limit, GetHistory({}, {}, limit))
          PROVE  HistoryTypeInv'
      <3>1. PICK part : part = GetHistory({}, {}, limit)
        OBVIOUS
      <3>2. part \in Seq(histories)
        BY <3>1, WholeFacts DEF WholeOf
      <3>3. part \in Seq(RowType("whole")) /\ limit \in Nat
        <4>1. histories \subseteq RowType("whole")
          BY <1>2 DEF RowType
        <4> QED BY <1>2, <3>2, <4>1, Longer
      <3>4. reader' = [of |-> "whole", step |-> "done", at |-> reader.at, end |-> limit, got |-> part]
        BY <2>1, <2>3, <3>1 DEF Turns
      <3> QED BY <1>2, <1>3, <2>1, <3>3, <3>4, ReaderMovesType
    <2> QED BY <2>1, <2>2, <2>3
  <1>12. CASE UNCHANGED historical
    <2>1. pending' = pending /\ awaited' = awaited /\ posted' = posted /\ repeats' = repeats /\ errors' = errors /\ RowsMove
      BY <1>12 DEF historical, stored, posting, RowsMove
    <2> QED BY <1>1, <1>4, <2>1 DEF HistoryTypes
  <1> QED BY <1>5, <1>6, <1>7, <1>8, <1>9, <1>10, <1>11, <1>12, <1>13 DEF HistoryNext

\* A step of the scan, with its page.
ScanStep(max, part) ==
    /\ max = Min({reader.at + PageLength, reader.end}) /\ part = GetHistory({reader.at}, {max}, PageLength)
    /\ ReaderAlone /\ present' = present /\ reader.of = "history" /\ reader.step = "page"
    /\ reader'.of = "history" /\ reader'.end = reader.end
    /\ \/ /\ reader'.step = IF max = reader.end THEN "done" ELSE "page"
          /\ reader'.at = reader.at + PageLength /\ reader'.got = reader.got \o part
       \/ reader'.step = "failed"

LEMMA ScanReads ==
    ASSUME HistoryTypeInv, ScanPage
    PROVE  reader'.of = "history" /\ \E max, part : ScanStep(max, part)
  <1>1. PICK max \in {Min({reader.at + PageLength, reader.end})} :
           /\ ReaderAlone /\ present' = present /\ met' = met /\ (Passes \/ Breaks)
           /\ reader.of = "history" /\ reader.step = "page"
           /\ \/ Turns(IF max = reader.end THEN "done" ELSE "page", reader.at + PageLength, reader.end,
                       reader.got \o GetHistory({reader.at}, {max}, PageLength))
              \/ Turns("failed", reader.at, reader.end, reader.got)
    BY ScanPageFacts
  <1>2. PICK part : part = GetHistory({reader.at}, {max}, PageLength)
    OBVIOUS
  <1>3. reader.of = "history"
    BY <1>1
  <1>4. ScanStep(max, part)
    <2>1. CASE Turns(IF max = reader.end THEN "done" ELSE "page", reader.at + PageLength, reader.end, reader.got \o part)
      BY <1>1, <1>2, <2>1 DEF Turns, ScanStep
    <2>2. CASE Turns("failed", reader.at, reader.end, reader.got)
      BY <1>1, <1>2, <2>2 DEF Turns, ScanStep
    <2> QED BY <1>1, <1>2, <2>1, <2>2
  <1> QED BY <1>4 DEF ScanStep

(***************************************************************************)
(* The inductive invariants of the walk of the log and of the scan.        *)
(***************************************************************************)
LogOrderInv ==
    reader.of = "log" =>
        /\ reader.at = Len(reader.got)
        /\ "early" \notin met =>
              /\ Reading => InPlace(reader.got, logs)
              /\ IsInjective(reader.got) /\ InOrder(reader.got)

\* A line that was there is given, or is still to come.
Given(row) == \E n \in 1..Len(reader.got) : reader.got[n] = row

LogCoverInv ==
    reader.of = "log" /\ reader.step # "failed" /\ met \cap {"between", "uncounted"} = {} =>
        \A v \in present :
            \/ Given(v)
            \/ /\ Reading /\ Place(v, logs) >= reader.at
               /\ reader.step = "list" => Place(v, logs) < reader.end

\* The pages before the offset are the only ones a scan has been given, and
\* of the rows on them only those are missing that a full page has no room for.
NoRoom(h) ==
    /\ Cardinality(PageOf(h.num)) > PageLength
    /\ \A n \in 1..Len(reader.got) : reader.got[n] \in PageOf(h.num) => reader.got[n].num <= h.num

ScanInv ==
    reader.of = "history" /\ reader.step \in {"page", "done"} =>
        /\ \E k \in Nat : reader.at = k * PageLength
        /\ \A n \in 1..Len(reader.got) : reader.got[n] \in histories /\ reader.got[n].num < reader.at
        /\ IsInjective(reader.got) /\ InOrder(reader.got)
        /\ \A h \in present : h.num < reader.end
        /\ \A h \in present : h.num < reader.at => Given(h) \/ NoRoom(h)
        /\ reader.step = "done" => reader.end <= reader.at

(***************************************************************************)
(* The walk of the log.                                                    *)
(***************************************************************************)
LEMMA InPlaceJoin ==
    ASSUME NEW S, NEW s \in Seq(S), NEW t, InPlace(s, S), PartOf(t, S, Len(s)), NEW all, all = s \o t
    PROVE  all \in Seq(S) /\ InPlace(all, S) /\ Len(all) = Len(s) + Len(t)
  <1>1. t \in Seq(S) /\ Len(t) \in Nat /\ Len(s) \in Nat
        /\ \A i \in 1..Len(t) : t[i] \in S /\ Place(t[i], S) = Len(s) + i - 1
    BY DEF PartOf
  <1>2. Joined(all, s, t) /\ all \in Seq(S)
    BY <1>1, Joins
  <1>3. ASSUME NEW n \in 1..Len(all) PROVE all[n] \in S /\ Place(all[n], S) = n - 1
    <2>1. CASE n \in 1..Len(s)
      BY <1>2, <2>1 DEF Joined, InPlace
    <2>2. CASE n \notin 1..Len(s)
      <3>1. n - Len(s) \in 1..Len(t) /\ all[n] = t[n - Len(s)]
        BY <1>2, <2>2 DEF Joined
      <3>2. PICK i \in 1..Len(t) : i = n - Len(s)
        BY <3>1
      <3>3. all[n] = t[i] /\ Place(t[i], S) = Len(s) + i - 1 /\ t[i] \in S
        BY <1>1, <3>1, <3>2
      <3>4. Len(s) + i - 1 = n - 1
        BY <1>1, <3>2
      <3> QED BY <3>3, <3>4
    <2> QED BY <2>1, <2>2
  <1> QED BY <1>2, <1>3 DEF InPlace, Joined

LEMMA ReadingIs ==
    ASSUME ReaderShape, reader.of = "log"
    PROVE  Reading <=> reader.step \in {"count", "list"}
  BY DEF ReaderShape, Reading

LEMMA LogOrderNext ==
    ASSUME HistoryTypeInv, LogOrderInv, [HistoryNext]_historical
    PROVE  LogOrderInv'
  <1> SUFFICES ASSUME reader'.of = "log"
               PROVE  /\ reader'.at = Len(reader'.got)
                      /\ "early" \notin met' =>
                            /\ Reading' => InPlace(reader'.got, logs')
                            /\ IsInjective(reader'.got) /\ InOrder(reader'.got)
    BY DEF LogOrderInv
  <1>1. HistoryTypes /\ ReaderFields /\ ReaderShape /\ Table(logs) /\ Lined(logs) /\ ReaderShape'
    BY ReaderType, HistoryTypeNext DEF HistoryTypeInv, Table
  <1>2. CASE RowsMove
    <2>1. reader' = reader /\ reader.of = "log" /\ reader.at = Len(reader.got)
      BY <1>2 DEF RowsMove, LogOrderInv
    <2>2. met \subseteq met'
      BY <1>2 DEF RowsMove, HistoryGrows, LogGrows
    <2> SUFFICES ASSUME "early" \notin met', Reading PROVE InPlace(reader.got, logs')
      BY <2>1, <2>2 DEF LogOrderInv, Reading
    <2>3. InPlace(reader.got, logs)
      BY <2>1, <2>2 DEF LogOrderInv
    <2>4. CASE logs' = logs
      BY <2>3, <2>4
    <2>5. CASE LogGrows
      <3>1. PICK row \in LogRow : row.id = Cardinality(logs) + 1 /\ logs' = logs \cup {row} /\ met' = met \cup Shifts(row.num)
        BY <2>5 DEF LogGrows
      <3>2. row.num \in Nat /\ "early" \notin Shifts(row.num)
        BY <3>1 DEF LogRow
      <3>3. DOMAIN reader.got = 1..Len(reader.got)
        BY <1>1 DEF ReaderFields
      <3>4. ~\E n \in DOMAIN reader.got : row.num < reader.got[n].num
        BY <2>1, <3>2 DEF Shifts
      <3>5. ASSUME NEW n \in 1..Len(reader.got) PROVE reader.got[n] \in logs' /\ Place(reader.got[n], logs') = n - 1
        <4>1. PICK p : p = reader.got[n]
          OBVIOUS
        <4>2. p \in logs /\ Place(p, logs) = n - 1 /\ ~(row.num < p.num)
          BY <2>3, <3>3, <3>4, <4>1 DEF InPlace
        <4>3. p.num \in Nat
          BY <1>1, <4>2 DEF Lined
        <4>4. p.num <= row.num
          BY <3>2, <4>2, <4>3
        <4>5. Place(p, logs \cup {row}) = Place(p, logs)
          BY <1>1, <3>1, <3>2, <4>2, <4>4, NewRow DEF Table
        <4> QED BY <3>1, <4>1, <4>2, <4>5
      <3> QED BY <3>5 DEF InPlace
    <2> QED BY <1>2, <2>4, <2>5 DEF RowsMove, HistoryGrows
  <1>3. CASE BeginReading
    <2>1. reader'.at = 0 /\ reader'.got = <<>>
      BY <1>3, BeginFacts
    <2>2. <<>> \in Seq(logs') /\ Len(<<>>) = 0 /\ DOMAIN <<>> = {} /\ 1..0 = {}
      OBVIOUS
    <2> QED BY <2>1, <2>2 DEF InPlace, IsInjective, InOrder
  <1>4. CASE LastStep
    <2>1. reader'.of = "history"
      BY <1>4, LastStepFacts DEF Turns
    <2> QED BY <2>1
  <1>5. CASE ScanPage
    <2>1. reader'.of = "history"
      BY <1>5, ScanReads
    <2> QED BY <2>1
  <1>6. CASE CountLogs
    <2>1. /\ logs' = logs /\ met \subseteq met' /\ reader.of = "log" /\ reader.step = "count"
          /\ reader'.at = reader.at /\ reader'.got = reader.got
      BY <1>6, CountLogsFacts DEF Turns, ReaderAlone
    <2>2. Reading
      BY <2>1 DEF Reading
    <2> QED BY <2>1, <2>2 DEF LogOrderInv
  <1>7. CASE ListLogs
    <2>1. /\ logs' = logs /\ met' = met /\ reader.of = "log" /\ reader.step = "list"
          /\ \/ reader'.at = reader.at + Len(LogPage) /\ reader'.got = reader.got \o LogPage
             \/ reader'.step = "failed" /\ reader'.at = reader.at /\ reader'.got = reader.got
      BY <1>7, ListLogsFacts DEF Turns, ReaderAlone
    <2>2. Reading /\ reader.at = Len(reader.got)
      BY <2>1 DEF Reading, LogOrderInv
    <2>3. CASE reader'.step = "failed" /\ reader'.at = reader.at /\ reader'.got = reader.got
      BY <2>1, <2>2, <2>3 DEF LogOrderInv
    <2>4. CASE reader'.at = reader.at + Len(LogPage) /\ reader'.got = reader.got \o LogPage
      <3>1. PICK part : part = LogPage
        OBVIOUS
      <3>2. PICK all : all = reader.got \o part
        OBVIOUS
      <3>3. PartOf(part, logs, Len(reader.got))
        BY <2>2, <3>1, LogPageFacts
      <3>4. reader.got \in Seq(HistoryRow \cup LogRow) /\ part \in Seq(HistoryRow \cup LogRow)
        <4>1. part \in Seq(logs) /\ logs \subseteq HistoryRow \cup LogRow
          BY <1>1, <3>3 DEF PartOf, HistoryTypes
        <4>2. part \in Seq(HistoryRow \cup LogRow)
          BY <4>1, Longer
        <4> QED BY <1>1, <4>2 DEF ReaderFields
      <3>5. Len(all) = Len(reader.got) + Len(part)
        BY <3>2, <3>4, JoinFacts
      <3>6. ASSUME "early" \notin met PROVE InPlace(all, logs) /\ IsInjective(all) /\ InOrder(all)
        <4>1. InPlace(reader.got, logs)
          BY <2>1, <2>2, <3>6 DEF LogOrderInv
        <4>2. reader.got \in Seq(logs)
          BY <3>4, <4>1 DEF InPlace
        <4>3. all \in Seq(logs) /\ InPlace(all, logs)
          BY <3>2, <3>3, <4>1, <4>2, InPlaceJoin
        <4> QED BY <1>1, <4>3, InPlaceOrder
      <3> QED BY <2>1, <2>2, <2>4, <3>1, <3>2, <3>5, <3>6
    <2> QED BY <2>1, <2>3, <2>4
  <1>8. CASE ReadWhole
    <2>1. reader'.of = "whole"
      BY <1>8, ReadWholeFacts DEF Turns
    <2> QED BY <2>1
  <1> QED BY <1>2, <1>3, <1>4, <1>5, <1>6, <1>7, <1>8, HistoryMoves

LEMMA LogCoverNext ==
    ASSUME HistoryTypeInv, LogCoverInv, [HistoryNext]_historical
    PROVE  LogCoverInv'
  <1> SUFFICES ASSUME reader'.of = "log", reader'.step # "failed", met' \cap {"between", "uncounted"} = {}, NEW v \in present'
               PROVE  \/ Given(v)'
                      \/ /\ Reading' /\ Place(v, logs') >= reader'.at
                         /\ reader'.step = "list" => Place(v, logs') < reader'.end
    BY DEF LogCoverInv
  <1>1. /\ HistoryTypes /\ ReaderFields /\ ReaderShape /\ Table(logs) /\ Lined(logs)
        /\ Cardinality(logs) \in Nat /\ Listed(logs, Ordered(logs)) /\ PageLength \in Nat
    BY ReaderType, TableSize, OrderedList, HistoryAssumption DEF HistoryTypeInv, Table, HistoryAssumption
  <1>2. reader.of = "log" => present \subseteq logs
    BY <1>1 DEF HistoryTypes
  <1>3. \A w \in logs : Place(w, logs) \in Nat /\ Place(w, logs) < Cardinality(logs)
    BY <1>1 DEF Listed
  <1>4. CASE RowsMove
    <2>1. reader' = reader /\ reader.of = "log" /\ present' = present /\ met \subseteq met' /\ v \in logs
      BY <1>2, <1>4 DEF RowsMove, HistoryGrows, LogGrows
    <2>2. Given(v)' = Given(v) /\ Reading' = Reading
      BY <2>1 DEF Given, Reading
    <2>3. \/ Given(v)
          \/ Reading /\ Place(v, logs) >= reader.at /\ (reader.step = "list" => Place(v, logs) < reader.end)
      BY <2>1 DEF LogCoverInv
    <2>4. CASE logs' = logs
      BY <2>1, <2>2, <2>3, <2>4
    <2>5. CASE LogGrows
      <3>1. PICK row \in LogRow : row.id = Cardinality(logs) + 1 /\ logs' = logs \cup {row} /\ met' = met \cup Shifts(row.num)
        BY <2>5 DEF LogGrows
      <3>2. row.num \in Nat /\ "between" \notin Shifts(row.num)
        BY <3>1 DEF LogRow
      <3>3. v.num \in Nat
        BY <1>1, <2>1 DEF Lined
      <3>4. /\ Place(v, logs') \in Nat /\ Place(v, logs) \in Nat /\ Place(v, logs) <= Place(v, logs')
            /\ v.num <= row.num => Place(v, logs') = Place(v, logs)
        BY <1>1, <2>1, <3>1, <3>2, NewRow DEF Table
      <3>5. Reading /\ reader.step = "list" => v.num <= row.num
        <4> SUFFICES ASSUME Reading, reader.step = "list", row.num < v.num PROVE FALSE
          BY <3>2, <3>3
        <4> QED BY <2>1, <3>2 DEF Shifts
      <3>6. reader.at \in Nat
        BY <1>1 DEF ReaderFields
      <3> QED BY <2>1, <2>2, <2>3, <3>4, <3>5, <3>6
    <2> QED BY <1>4, <2>4, <2>5 DEF RowsMove, HistoryGrows
  <1>5. CASE BeginReading
    <2>1. /\ reader' = [of |-> "log", step |-> "count", at |-> 0, end |-> reader.end, got |-> <<>>] /\ present' = logs /\ logs' = logs
      BY <1>5, BeginFacts DEF ReaderAlone
    <2>2. reader'.at = 0 /\ reader'.step = "count"
      BY <2>1
    <2> QED BY <1>3, <2>1, <2>2 DEF Reading
  <1>6. CASE LastStep
    <2>1. reader'.of = "history"
      BY <1>6, LastStepFacts DEF Turns
    <2> QED BY <2>1
  <1>7. CASE ScanPage
    <2>1. reader'.of = "history"
      BY <1>7, ScanReads
    <2> QED BY <2>1
  <1>8. CASE CountLogs
    <2>1. /\ logs' = logs /\ present' = present /\ reader.of = "log" /\ reader.step = "count"
          /\ reader' = [of |-> "log", step |-> "list", at |-> reader.at, end |-> Cardinality(logs), got |-> reader.got]
          /\ met' = met
      BY <1>8, CountLogsFacts DEF Turns, ReaderAlone
    <2>2. reader'.at = reader.at /\ reader'.end = Cardinality(logs) /\ reader'.got = reader.got /\ reader'.step = "list"
      BY <2>1
    <2>3. Given(v) \/ Place(v, logs) >= reader.at
      BY <2>1 DEF LogCoverInv
    <2>4. Place(v, logs) < Cardinality(logs)
      BY <1>2, <1>3, <2>1
    <2> QED BY <2>1, <2>2, <2>3, <2>4 DEF Given, Reading
  <1>9. CASE ListLogs
    <2>1. PICK part : part = LogPage
      OBVIOUS
    <2>2. PICK all : all = reader.got \o part
      OBVIOUS
    <2>3. /\ logs' = logs /\ present' = present /\ met' = met /\ reader.of = "log" /\ reader.step = "list"
          /\ reader' = [of |-> "log", step |-> IF reader.at + Len(part) < reader.end THEN "count" ELSE "done",
                        at |-> reader.at + Len(part), end |-> reader.end, got |-> all]
      BY <1>9, <2>1, <2>2, ListLogsFacts DEF Turns, ReaderAlone
    <2>4. /\ reader'.at = reader.at + Len(part) /\ reader'.end = reader.end /\ reader'.got = all
          /\ reader'.step = IF reader.at + Len(part) < reader.end THEN "count" ELSE "done"
      BY <2>3
    <2>5. PartOf(part, logs, reader.at)
      BY <2>1, LogPageFacts
    <2>6. v \in logs /\ Place(v, logs) \in Nat
      BY <1>2, <1>3, <2>3
    <2>7. Given(v) \/ (Place(v, logs) >= reader.at /\ Place(v, logs) < reader.end)
      BY <2>3 DEF LogCoverInv
    <2>8. reader.got \in Seq(HistoryRow \cup LogRow) /\ part \in Seq(HistoryRow \cup LogRow)
      <3>1. part \in Seq(logs) /\ logs \subseteq HistoryRow \cup LogRow
        BY <1>1, <2>5 DEF PartOf, HistoryTypes
      <3>2. part \in Seq(HistoryRow \cup LogRow)
        BY <3>1, Longer
      <3> QED BY <1>1, <3>2 DEF ReaderFields
    <2>9. Given(v)' <=> Given(v) \/ \E i \in 1..Len(part) : part[i] = v
      <3>1. Member(v, all) <=> Member(v, reader.got) \/ Member(v, part)
        BY <2>2, <2>8, MemberJoin
      <3> QED BY <2>4, <3>1 DEF Member, Given
    <2>10. CASE Given(v)
      BY <2>9, <2>10
    <2>11. CASE Place(v, logs) >= reader.at /\ Place(v, logs) < reader.end /\ Place(v, logs) < reader.at + PageLength
      <3>1. \E i \in 1..Len(part) : part[i] = v
        BY <2>5, <2>6, <2>11, <1>1 DEF PartOf, ReaderFields
      <3> QED BY <2>9, <3>1
    <2>12. CASE Place(v, logs) >= reader.at + PageLength /\ Place(v, logs) < reader.end
      <3>1. Len(part) \in Nat /\ Len(part) <= PageLength /\ reader.at \in Nat /\ reader.end \in Nat
        BY <1>1, <2>5 DEF PartOf, ReaderFields
      <3>2. Place(v, logs) >= reader.at + Len(part) /\ reader.at + Len(part) < reader.end
        BY <1>1, <2>6, <2>12, <3>1
      <3> QED BY <2>3, <2>4, <3>2 DEF Reading
    <2>13. reader.at \in Nat
      BY <1>1 DEF ReaderFields
    <2> QED BY <1>1, <2>6, <2>7, <2>10, <2>11, <2>12, <2>13
  <1>10. CASE ReadWhole
    <2>1. reader'.of = "whole"
      BY <1>10, ReadWholeFacts DEF Turns
    <2> QED BY <2>1
  <1> QED BY <1>4, <1>5, <1>6, <1>7, <1>8, <1>9, <1>10, HistoryMoves

(***************************************************************************)
(* The scan of the history.                                                *)
(***************************************************************************)
LEMMA MinOfTwo ==
    ASSUME NEW a \in Nat, NEW b \in Nat, NEW min, min = Min({a, b})
    PROVE  min \in Nat /\ min <= a /\ min <= b /\ (min = a \/ min = b)
  <1> DEFINE Two == {a, b}
  <1>1. \E x \in Two : \A y \in Two : x =< y
    <2>1. CASE a <= b
      BY <2>1
    <2>2. CASE b <= a
      BY <2>2
    <2> QED BY <2>1, <2>2
  <1>2. Min(Two) \in Two /\ \A y \in Two : Min(Two) =< y
    <2> HIDE DEF Two
    <2> QED BY <1>1 DEF Min
  <1> QED BY <1>2

\* The division by a page's length.
LEMMA Quotient ==
    ASSUME NEW n \in Nat, NEW d \in Nat \ {0}
    PROVE  /\ n \div d \in Nat /\ d * (n \div d) <= n /\ n < d * (n \div d) + d
  OBVIOUS

LEMMA QuotientIs ==
    ASSUME NEW n \in Nat, NEW d \in Nat \ {0}, NEW q \in Nat, d * q <= n, n < d * q + d
    PROVE  n \div d = q
  <1>1. PICK r : r = n \div d
    OBVIOUS
  <1>2. r \in Nat /\ d * r <= n /\ n < d * r + d
    BY <1>1, Quotient
  <1>3. ASSUME NEW a \in Nat, NEW b \in Nat, a < b PROVE d * a + d <= d * b
    <2>1. PICK c : c = b - a - 1
      OBVIOUS
    <2>2. c \in Nat /\ b = a + 1 + c
      BY <1>3, <2>1
    <2>3. d * b = d * a + d + d * c /\ d * c \in Nat /\ d * a \in Nat
      BY <2>2
    <2> QED BY <2>3
  <1>4. d * r \in Nat /\ d * q \in Nat
    BY <1>2
  <1>5. CASE r < q
    BY <1>2, <1>3, <1>4, <1>5
  <1>6. CASE q < r
    BY <1>2, <1>3, <1>4, <1>6
  <1> QED BY <1>1, <1>2, <1>5, <1>6

LEMMA Apart ==
    ASSUME NEW a \in Nat, NEW b \in Nat, NEW d \in Nat \ {0}, NEW k \in Nat, a < d * k, d * k <= b
    PROVE  a \div d # b \div d
  <1>1. PICK q : q = a \div d
    OBVIOUS
  <1>2. q \in Nat /\ d * q <= a
    BY <1>1, Quotient
  <1> SUFFICES ASSUME b \div d = q PROVE FALSE
    BY <1>1
  <1>3. b < d * q + d
    BY Quotient
  <1>4. d * q \in Nat /\ d * k \in Nat
    BY <1>2
  <1>5. CASE q < k
    <2>1. PICK c : c = k - q - 1
      OBVIOUS
    <2>2. c \in Nat /\ k = q + 1 + c
      BY <1>2, <1>5, <2>1
    <2>3. d * k = d * q + d + d * c /\ d * c \in Nat
      BY <1>2, <2>2
    <2> QED BY <1>3, <1>4, <2>3
  <1>6. CASE k <= q
    <2>1. PICK c : c = q - k
      OBVIOUS
    <2>2. c \in Nat /\ q = k + c
      BY <1>2, <1>6, <2>1
    <2>3. d * q = d * k + d * c /\ d * c \in Nat
      BY <1>2, <2>2
    <2> QED BY <1>2, <1>4, <2>3
  <1> QED BY <1>2, <1>5, <1>6

\* Rows with small numbers, and then rows with large ones.
LEMMA JoinInOrder ==
    ASSUME NEW T, \A p \in T : p.num \in Nat, NEW s \in Seq(T), NEW t \in Seq(T), NEW all, all = s \o t, NEW b \in Nat,
           IsInjective(s), InOrder(s), IsInjective(t), InOrder(t),
           \A n \in 1..Len(s) : s[n].num < b, \A n \in 1..Len(t) : b <= t[n].num
    PROVE  IsInjective(all) /\ InOrder(all)
  <1>1. Joined(all, s, t) /\ all \in Seq(T)
    BY Joins
  <1>2. /\ Len(s) \in Nat /\ Len(t) \in Nat /\ Len(all) = Len(s) + Len(t)
        /\ DOMAIN all = 1..Len(all) /\ DOMAIN s = 1..Len(s) /\ DOMAIN t = 1..Len(t)
    BY <1>1 DEF Joined
  <1>3. ASSUME NEW n \in 1..Len(all)
        PROVE  \/ n \in 1..Len(s) /\ all[n] = s[n] /\ s[n].num < b /\ s[n] \in T
               \/ \E i \in 1..Len(t) : i = n - Len(s) /\ all[n] = t[i] /\ b <= t[i].num /\ t[i] \in T
    <2>1. CASE n \in 1..Len(s)
      BY <1>1, <2>1 DEF Joined
    <2>2. CASE n \notin 1..Len(s)
      <3>1. n - Len(s) \in 1..Len(t) /\ all[n] = t[n - Len(s)]
        BY <1>1, <2>2 DEF Joined
      <3>2. PICK i \in 1..Len(t) : i = n - Len(s)
        BY <3>1
      <3> QED BY <3>1, <3>2
    <2> QED BY <2>1, <2>2
  <1>4. ASSUME NEW m \in 1..Len(all), NEW n \in 1..Len(all)
        PROVE  (all[m] = all[n] => m = n) /\ (m < n => all[m].num <= all[n].num)
    <2>1. CASE /\ m \in 1..Len(s) /\ all[m] = s[m] /\ s[m].num < b /\ s[m] \in T
               /\ n \in 1..Len(s) /\ all[n] = s[n]
      BY <1>2, <2>1 DEF IsInjective, InOrder
    <2>2. CASE /\ m \in 1..Len(s) /\ all[m] = s[m] /\ s[m].num < b /\ s[m] \in T
               /\ \E i \in 1..Len(t) : i = n - Len(s) /\ all[n] = t[i] /\ b <= t[i].num /\ t[i] \in T
      <3>1. PICK i \in 1..Len(t) : all[n] = t[i] /\ b <= t[i].num /\ t[i] \in T
        BY <2>2
      <3>2. PICK a \in Nat : a = s[m].num
        BY <2>2
      <3>3. PICK c \in Nat : c = t[i].num
        BY <3>1
      <3>4. a < b /\ b <= c
        BY <2>2, <3>1, <3>2, <3>3
      <3>5. a < c /\ a <= c /\ a # c
        BY <3>4
      <3>6. a = all[m].num /\ c = all[n].num
        BY <2>2, <3>1, <3>2, <3>3
      <3>7. all[m] # all[n] /\ all[m].num <= all[n].num
        BY <3>5, <3>6
      <3> QED BY <3>7
    <2>3. CASE /\ n \in 1..Len(s) /\ all[n] = s[n] /\ s[n].num < b /\ s[n] \in T
               /\ \E i \in 1..Len(t) : i = m - Len(s) /\ all[m] = t[i] /\ b <= t[i].num /\ t[i] \in T
      <3>1. PICK i \in 1..Len(t) : i = m - Len(s) /\ all[m] = t[i] /\ b <= t[i].num /\ t[i] \in T
        BY <2>3
      <3>2. PICK a \in Nat : a = s[n].num
        BY <2>3
      <3>3. PICK c \in Nat : c = t[i].num
        BY <3>1
      <3>4. a < b /\ b <= c
        BY <2>3, <3>1, <3>2, <3>3
      <3>5. a # c
        BY <3>4
      <3>6. a = all[n].num /\ c = all[m].num
        BY <2>3, <3>1, <3>2, <3>3
      <3>7. all[m] # all[n]
        BY <3>5, <3>6
      <3>8. ~(m < n)
        BY <1>2, <2>3, <3>1
      <3> QED BY <3>7, <3>8
    <2>4. CASE /\ \E i \in 1..Len(t) : i = m - Len(s) /\ all[m] = t[i]
               /\ \E i \in 1..Len(t) : i = n - Len(s) /\ all[n] = t[i]
      <3>1. PICK i \in 1..Len(t) : i = m - Len(s) /\ all[m] = t[i]
        BY <2>4
      <3>2. PICK j \in 1..Len(t) : j = n - Len(s) /\ all[n] = t[j]
        BY <2>4
      <3>3. (i = j => m = n) /\ (m < n => i < j)
        BY <1>2, <3>1, <3>2
      <3>4. t[i] = t[j] => i = j
        BY <1>2 DEF IsInjective
      <3>5. i < j => t[i].num <= t[j].num
        BY <1>2 DEF InOrder
      <3> QED BY <3>1, <3>2, <3>3, <3>4, <3>5
    <2> QED BY <1>3, <2>1, <2>2, <2>3, <2>4
  <1> QED BY <1>2, <1>4 DEF IsInjective, InOrder

\* What a page of the scan adds, and what it leaves out.
LEMMA ScanRange ==
    ASSUME HistoryTypeInv, NEW k \in Nat, reader.at = k * PageLength, NEW max, NEW part, ScanStep(max, part)
    PROVE  /\ max \in Nat /\ max <= reader.at + PageLength /\ (max = reader.end \/ max = reader.at + PageLength) /\ max <= reader.end
           /\ part \in Seq(histories) /\ IsInjective(part) /\ InOrder(part)
           /\ \A i \in 1..Len(part) : part[i] \in histories /\ reader.at <= part[i].num /\ part[i].num < max
           /\ \A h \in histories : reader.at <= h.num /\ h.num < max =>
                 \/ \E i \in 1..Len(part) : part[i] = h
                 \/ /\ Cardinality(PageOf(h.num)) > PageLength
                    /\ \A i \in 1..Len(part) : part[i].num <= h.num
  <1> DEFINE R == Between({reader.at}, {max})
  <1>1. /\ PageLength \in Nat \ {0} /\ reader.at \in Nat /\ reader.end \in Nat /\ Lined(histories)
    BY ReaderType, HistoryAssumption DEF HistoryAssumption, HistoryTypeInv, Table, ReaderFields
  <1>2. max \in Nat /\ max <= reader.at + PageLength /\ max <= reader.end /\ (max = reader.at + PageLength \/ max = reader.end)
    <2>1. reader.at + PageLength \in Nat
      BY <1>1
    <2> QED BY <1>1, <2>1, MinOfTwo DEF ScanStep
  <1>3. Lined(R) /\ R \subseteq histories /\ PartOf(part, R, 0)
    BY RangeFacts DEF ScanStep
  <1>4. /\ part \in Seq(R) /\ Len(part) \in Nat /\ Len(part) <= PageLength
        /\ \A i \in 1..Len(part) : part[i] \in R /\ Place(part[i], R) = 0 + i - 1
        /\ \A v \in R : 0 <= Place(v, R) /\ Place(v, R) < 0 + PageLength => \E i \in 1..Len(part) : part[i] = v
    BY <1>3 DEF PartOf
  <1>5. InPlace(part, R)
    <2>1. \A i \in 1..Len(part) : 0 + i - 1 = i - 1
      OBVIOUS
    <2> QED BY <1>4, <2>1 DEF InPlace
  <1>6. IsInjective(part) /\ InOrder(part)
    BY <1>3, <1>4, <1>5, InPlaceOrder
  <1>7. part \in Seq(histories)
    BY <1>3, <1>4, Longer
  <1>8. \A i \in 1..Len(part) : part[i] \in histories /\ reader.at <= part[i].num /\ part[i].num < max
    BY <1>4 DEF Between
  <1>9. ASSUME NEW h \in histories, reader.at <= h.num, h.num < max
        PROVE  \/ \E i \in 1..Len(part) : part[i] = h
               \/ /\ Cardinality(PageOf(h.num)) > PageLength
                  /\ \A i \in 1..Len(part) : part[i].num <= h.num
    <2>1. h \in R
      BY <1>9 DEF Between
    <2>2. Listed(R, Ordered(R))
      BY <1>3, OrderedList
    <2> HIDE DEF R
    <2>3. Place(h, R) \in Nat /\ Place(h, R) < Cardinality(R) /\ Cardinality(R) \in Nat
      BY <2>1, <2>2 DEF Listed
    <2>4. CASE Place(h, R) < PageLength
      BY <1>1, <1>4, <2>1, <2>3, <2>4
    <2>5. CASE ~(Place(h, R) < PageLength)
      <3>1. Cardinality(R) > PageLength
        BY <1>1, <2>3, <2>5
      <3>2. ASSUME NEW g \in R PROVE g.num \div PageLength = k
        <4>1. g.num \in Nat /\ reader.at <= g.num /\ g.num < max
          BY <1>1, <1>3 DEF R, Between, Lined
        <4>2. PageLength * k <= g.num /\ g.num < PageLength * k + PageLength
          BY <1>1, <1>2, <4>1
        <4> QED BY <1>1, <4>1, <4>2, QuotientIs
      <3>3. R \subseteq PageOf(h.num)
        BY <1>3, <2>1, <3>2 DEF PageOf
      <3>4. IsFiniteSet(PageOf(h.num)) /\ Cardinality(PageOf(h.num)) \in Nat
        <4>1. PageOf(h.num) \subseteq histories
          BY DEF PageOf
        <4> QED BY <1>1, <4>1, FS_Subset, FS_CardinalityType DEF Lined
      <3>5. Cardinality(R) <= Cardinality(PageOf(h.num))
        BY <3>3, <3>4, FS_Subset
      <3>6. ASSUME NEW i \in 1..Len(part) PROVE part[i].num <= h.num
        <4>1. part[i] \in R /\ Place(part[i], R) = i - 1
          BY <1>5 DEF InPlace
        <4>2. Place(part[i], R) < Place(h, R)
          BY <1>1, <1>4, <2>3, <2>5, <4>1
        <4> QED BY <1>3, <2>1, <4>1, <4>2, PlacesOrder
      <3> QED BY <1>1, <2>3, <3>1, <3>4, <3>5, <3>6
    <2> QED BY <2>4, <2>5
  <1> QED BY <1>2, <1>6, <1>7, <1>8, <1>9

LEMMA ScanGrows ==
    ASSUME HistoryTypeInv, ScanInv, RowsMove
    PROVE  ScanInv'
  <1> SUFFICES ASSUME reader.of = "history", reader.step \in {"page", "done"}
               PROVE  ScanInv'
    BY DEF ScanInv, RowsMove
  <1>1. reader' = reader /\ present' = present
    BY DEF RowsMove
  <1>2. histories \subseteq histories' /\ IsFiniteSet(histories) /\ IsFiniteSet(histories')
    BY RowsMoveType DEF HistoryTypeInv, Table, Lined
  <1>3. PageLength \in Nat
    BY HistoryAssumption DEF HistoryAssumption
  <1>4. /\ \E k \in Nat : reader.at = k * PageLength
        /\ \A n \in 1..Len(reader.got) : reader.got[n] \in histories /\ reader.got[n].num < reader.at
        /\ IsInjective(reader.got) /\ InOrder(reader.got)
        /\ \A h \in present : h.num < reader.end
        /\ \A h \in present : h.num < reader.at => Given(h) \/ NoRoom(h)
        /\ reader.step = "done" => reader.end <= reader.at
    BY DEF ScanInv
  <1>5. ASSUME NEW h, NoRoom(h) PROVE NoRoom(h)'
    <2>1. PageOf(h.num) \subseteq PageOf(h.num)' /\ PageOf(h.num) \subseteq histories /\ PageOf(h.num)' \subseteq histories'
      BY <1>2 DEF PageOf
    <2>2. IsFiniteSet(PageOf(h.num)) /\ IsFiniteSet(PageOf(h.num)')
      BY <1>2, <2>1, FS_Subset
    <2>3. Cardinality(PageOf(h.num)) \in Nat /\ Cardinality(PageOf(h.num)') \in Nat /\ Cardinality(PageOf(h.num)) <= Cardinality(PageOf(h.num)')
      BY <2>1, <2>2, FS_Subset, FS_CardinalityType
    <2>4. Cardinality(PageOf(h.num)') > PageLength
      BY <1>3, <1>5, <2>3 DEF NoRoom
    <2>5. ASSUME NEW n \in 1..Len(reader.got), reader.got[n] \in PageOf(h.num)' PROVE reader.got[n].num <= h.num
      <3>1. reader.got[n] \in PageOf(h.num)
        BY <1>4, <2>5 DEF PageOf
      <3> QED BY <1>5, <3>1 DEF NoRoom
    <2> QED BY <1>1, <2>4, <2>5 DEF NoRoom
  <1>6. \A h : Given(h)' <=> Given(h)
    BY <1>1 DEF Given
  <1> QED BY <1>1, <1>2, <1>4, <1>5, <1>6 DEF ScanInv

LEMMA ScanPageInv ==
    ASSUME HistoryTypeInv, ScanInv, ScanPage
    PROVE  ScanInv'
  <1>1. PICK max, part : ScanStep(max, part)
    BY ScanReads
  <1>2. /\ histories' = histories /\ present' = present /\ reader.of = "history" /\ reader.step = "page"
        /\ reader'.of = "history" /\ reader'.end = reader.end
    BY <1>1 DEF ScanStep, ReaderAlone
  <1>3. CASE reader'.step = "failed"
    BY <1>3 DEF ScanInv
  <1> SUFFICES ASSUME reader'.step # "failed" PROVE ScanInv'
    BY <1>3
  <1>4. PICK all : all = reader.got \o part
    OBVIOUS
  <1>5. /\ reader'.step = IF max = reader.end THEN "done" ELSE "page"
        /\ reader'.at = reader.at + PageLength /\ reader'.got = all
    BY <1>1, <1>4 DEF ScanStep
  <1>6. /\ \E k \in Nat : reader.at = k * PageLength
        /\ \A n \in 1..Len(reader.got) : reader.got[n] \in histories /\ reader.got[n].num < reader.at
        /\ IsInjective(reader.got) /\ InOrder(reader.got)
        /\ \A h \in present : h.num < reader.end
        /\ \A h \in present : h.num < reader.at => Given(h) \/ NoRoom(h)
    BY <1>2 DEF ScanInv
  <1>7. PICK k \in Nat : reader.at = k * PageLength
    BY <1>6
  <1>8. /\ PageLength \in Nat \ {0} /\ reader.at \in Nat /\ reader.end \in Nat /\ Lined(histories)
        /\ \A h \in histories : h.num \in Nat
    BY ReaderType, HistoryAssumption DEF HistoryAssumption, HistoryTypeInv, Table, Lined, ReaderFields
  <1>9. present \subseteq histories
    BY <1>2 DEF HistoryTypeInv, HistoryTypes
  <1>10. /\ max \in Nat /\ max <= reader.at + PageLength /\ (max = reader.end \/ max = reader.at + PageLength) /\ max <= reader.end
         /\ part \in Seq(histories) /\ IsInjective(part) /\ InOrder(part)
         /\ \A i \in 1..Len(part) : part[i] \in histories /\ reader.at <= part[i].num /\ part[i].num < max
         /\ \A h \in histories : reader.at <= h.num /\ h.num < max =>
               \/ \E i \in 1..Len(part) : part[i] = h
               \/ /\ Cardinality(PageOf(h.num)) > PageLength
                  /\ \A i \in 1..Len(part) : part[i].num <= h.num
    BY <1>1, <1>7, ScanRange
  <1>11. reader.got \in Seq(histories)
    <2>1. reader.got \in Seq(HistoryRow \cup LogRow)
      BY ReaderType DEF HistoryTypeInv, ReaderFields
    <2> QED BY <1>6, <2>1
  <1>12. Joined(all, reader.got, part) /\ all \in Seq(histories)
    BY <1>4, <1>10, <1>11, Joins
  <1>13. IsInjective(all) /\ InOrder(all)
    <2>1. PICK got \in Seq(histories) : got = reader.got
      BY <1>11
    <2>2. IsInjective(got) /\ InOrder(got) /\ \A n \in 1..Len(got) : got[n].num < reader.at
      BY <1>6, <2>1
    <2>3. IsInjective(part) /\ InOrder(part) /\ \A n \in 1..Len(part) : reader.at <= part[n].num
      BY <1>10
    <2>4. all = got \o part /\ part \in Seq(histories) /\ reader.at \in Nat /\ \A p \in histories : p.num \in Nat
      BY <1>4, <1>8, <1>10, <2>1
    <2> QED BY <2>2, <2>3, <2>4, JoinInOrder
  <1>14. ASSUME NEW n \in 1..Len(all)
         PROVE  \/ n \in 1..Len(reader.got) /\ all[n] = reader.got[n]
                \/ \E i \in 1..Len(part) : all[n] = part[i]
    BY <1>12 DEF Joined
  <1>15. \A n \in 1..Len(all) : all[n] \in histories /\ all[n].num < reader.at + PageLength
    <2> TAKE n \in 1..Len(all)
    <2>1. all[n] \in histories /\ (all[n].num < reader.at \/ all[n].num < max)
      BY <1>6, <1>10, <1>14
    <2>2. all[n].num \in Nat
      BY <1>8, <2>1
    <2> QED BY <1>8, <1>10, <2>1, <2>2
  <1>16. \E j \in Nat : reader.at + PageLength = j * PageLength
    <2>1. k + 1 \in Nat /\ (k + 1) * PageLength = k * PageLength + PageLength
      BY <1>8
    <2> QED BY <1>7, <2>1
  <1>17. \A h : Given(h)' <=> Given(h) \/ \E i \in 1..Len(part) : part[i] = h
    <2> TAKE h
    <2>1. Member(h, all) <=> Member(h, reader.got) \/ Member(h, part)
      BY <1>4, <1>10, <1>11, MemberJoin
    <2> QED BY <1>5, <2>1 DEF Member, Given
  <1>18. PageLength * k = reader.at
    BY <1>7, <1>8
  <1>19. ASSUME NEW h \in present, h.num < reader.at + PageLength
         PROVE  Given(h)' \/ NoRoom(h)'
    <2>1. h \in histories /\ h.num \in Nat /\ h.num < reader.end
      BY <1>6, <1>8, <1>9
    <2>2. CASE h.num < reader.at
      <3>1. Given(h) \/ NoRoom(h)
        BY <1>6, <2>2
      <3>2. ASSUME NoRoom(h) PROVE NoRoom(h)'
        <4>1. ASSUME NEW n \in 1..Len(all), all[n] \in PageOf(h.num) PROVE all[n].num <= h.num
          <5>1. CASE n \in 1..Len(reader.got) /\ all[n] = reader.got[n]
            BY <3>2, <4>1, <5>1 DEF NoRoom
          <5>2. CASE \E i \in 1..Len(part) : all[n] = part[i]
            <6>1. reader.at <= all[n].num /\ all[n].num \in Nat
              BY <1>8, <1>10, <5>2
            <6>2. h.num \div PageLength # all[n].num \div PageLength
              BY <1>8, <1>18, <2>1, <2>2, <6>1, Apart
            <6> QED BY <4>1, <6>2 DEF PageOf
          <5> QED BY <1>14, <5>1, <5>2
        <4> QED BY <1>2, <1>5, <3>2, <4>1 DEF NoRoom, PageOf
      <3> QED BY <1>17, <3>1, <3>2
    <2>3. CASE ~(h.num < reader.at)
      <3>1. reader.at <= h.num /\ h.num < max
        BY <1>8, <1>10, <1>19, <2>1, <2>3
      <3>2. CASE \E i \in 1..Len(part) : part[i] = h
        BY <1>17, <3>2
      <3>3. CASE Cardinality(PageOf(h.num)) > PageLength /\ \A i \in 1..Len(part) : part[i].num <= h.num
        <4>1. ASSUME NEW n \in 1..Len(all) PROVE all[n].num <= h.num
          <5>1. CASE n \in 1..Len(reader.got) /\ all[n] = reader.got[n]
            <6>1. all[n].num < reader.at /\ all[n].num \in Nat
              BY <1>6, <1>8, <5>1
            <6> QED BY <1>8, <2>1, <3>1, <6>1
          <5>2. CASE \E i \in 1..Len(part) : all[n] = part[i]
            BY <3>3, <5>2
          <5> QED BY <1>14, <5>1, <5>2
        <4> QED BY <1>2, <1>5, <3>3, <4>1 DEF NoRoom, PageOf
      <3> QED BY <1>10, <2>1, <3>1, <3>2, <3>3
    <2> QED BY <2>2, <2>3
  <1>20. reader'.step = "done" => reader'.end <= reader'.at
    BY <1>2, <1>5, <1>8, <1>10
  <1> QED BY <1>2, <1>5, <1>6, <1>13, <1>15, <1>16, <1>19, <1>20 DEF ScanInv

LEMMA ScanNext ==
    ASSUME HistoryTypeInv, ScanInv, [HistoryNext]_historical
    PROVE  ScanInv'
  <1>1. CASE RowsMove
    BY <1>1, ScanGrows
  <1>2. CASE BeginReading
    <2>1. reader'.step \in {"begin", "count"}
      BY <1>2, BeginFacts
    <2> QED BY <2>1 DEF ScanInv
  <1>3. CASE LastStep
    <2>1. PICK N : N = Cardinality(histories)
      OBVIOUS
    <2>2. /\ histories' = histories /\ present' = present /\ reader.of = "history"
          /\ \/ Turns("page", 0, StepAfter[N] + 1, <<>>)
             \/ Turns("failed", reader.at, reader.end, reader.got)
      BY <1>3, <2>1, LastStepFacts DEF ReaderAlone
    <2>3. CASE Turns("failed", reader.at, reader.end, reader.got)
      <3>1. reader'.step = "failed"
        BY <2>3 DEF Turns
      <3> QED BY <3>1 DEF ScanInv
    <2>4. CASE Turns("page", 0, StepAfter[N] + 1, <<>>)
      <3>1. reader'.step = "page" /\ reader'.at = 0 /\ reader'.end = StepAfter[N] + 1 /\ reader'.got = <<>>
        BY <2>4 DEF Turns
      <3>2. Table(histories) /\ Lined(histories) /\ present \subseteq histories
        BY <2>2 DEF HistoryTypeInv, HistoryTypes, Table
      <3>3. N \in Nat /\ StepAfter[N] = IF N = 0 THEN 0 ELSE Visited[N].num
        BY <2>1, <3>2, LastStepIs
      <3>4. PICK order : order = Visited
        OBVIOUS
      <3>5. Listed(histories, order)
        BY <3>2, <3>4, OrderedList DEF Visited
      <3>6. /\ \A i \in 1..N : order[i] \in histories /\ Place(order[i], histories) = i - 1
            /\ \A q \in histories : Place(q, histories) \in 0..(N - 1)
               /\ \A i \in 1..N : Place(q, histories) = i - 1 => order[i] = q
        BY <2>1, <3>5 DEF Listed
      <3>7. ASSUME NEW h \in present PROVE h.num < StepAfter[N] + 1
        <4>1. h \in histories /\ h.num \in Nat /\ Place(h, histories) \in 0..(N - 1)
          BY <3>2, <3>6 DEF Lined
        <4>2. N \in 1..N
          BY <3>3, <4>1
        <4>3. order[N] \in histories /\ Place(order[N], histories) = N - 1 /\ order[N].num \in Nat
          BY <3>2, <3>6, <4>2 DEF Lined
        <4>4. h.num <= order[N].num
          <5>1. CASE Place(h, histories) = N - 1
            <6>1. order[N] = h
              BY <3>6, <4>1, <4>2, <5>1
            <6> QED BY <4>1, <6>1
          <5>2. CASE Place(h, histories) # N - 1
            <6>1. Place(h, histories) < Place(order[N], histories)
              BY <3>3, <4>1, <4>3, <5>2
            <6> QED BY <3>2, <4>1, <4>3, <6>1, PlacesOrder
          <5> QED BY <5>1, <5>2
        <4>5. StepAfter[N] = order[N].num
          BY <3>3, <3>4, <4>2
        <4> QED BY <4>1, <4>3, <4>4, <4>5
      <3>8. \E k \in Nat : 0 = k * PageLength
        <4>1. 0 = 0 * PageLength /\ 0 \in Nat
          BY HistoryAssumption DEF HistoryAssumption
        <4> QED BY <4>1
      <3>9. IsInjective(<<>>) /\ InOrder(<<>>) /\ 1..Len(<<>>) = {}
        BY DEF IsInjective, InOrder
      <3>10. \A h \in present : ~(h.num < 0)
        BY <3>2 DEF Lined
      <3> QED BY <2>2, <3>1, <3>7, <3>8, <3>9, <3>10 DEF ScanInv
    <2> QED BY <2>2, <2>3, <2>4
  <1>4. CASE ScanPage
    BY <1>4, ScanPageInv
  <1>5. CASE CountLogs
    <2>1. reader'.of = "log"
      BY <1>5, CountLogsFacts DEF Turns
    <2> QED BY <2>1 DEF ScanInv
  <1>6. CASE ListLogs
    <2>1. reader'.of = "log"
      BY <1>6, ListLogsFacts DEF Turns
    <2> QED BY <2>1 DEF ScanInv
  <1>7. CASE ReadWhole
    <2>1. reader'.of = "whole"
      BY <1>7, ReadWholeFacts DEF Turns
    <2> QED BY <2>1 DEF ScanInv
  <1> QED BY <1>1, <1>2, <1>3, <1>4, <1>5, <1>6, <1>7, HistoryMoves

\* The rows of the query for the whole history, when it was answered, and
\* those that were there when it was asked.
WholeInv ==
    reader.of = "whole" /\ reader.step = "done" =>
        /\ IsInjective(reader.got) /\ InOrder(reader.got)
        /\ \A h \in present :
              \/ Given(h)
              \/ Len(reader.got) = reader.end /\ \A n \in 1..Len(reader.got) : reader.got[n].num <= h.num

LEMMA WholeNext ==
    ASSUME HistoryTypeInv, WholeInv, [HistoryNext]_historical
    PROVE  WholeInv'
  <1>1. CASE RowsMove
    BY <1>1 DEF RowsMove, WholeInv, Given
  <1>2. CASE BeginReading
    <2>1. reader'.step \in {"begin", "count"}
      BY <1>2, BeginFacts
    <2> QED BY <2>1 DEF WholeInv
  <1>3. CASE LastStep
    <2>1. reader'.of = "history"
      BY <1>3, LastStepFacts DEF Turns
    <2> QED BY <2>1 DEF WholeInv
  <1>4. CASE ScanPage
    <2>1. reader'.of = "history"
      BY <1>4, ScanReads
    <2> QED BY <2>1 DEF WholeInv
  <1>5. CASE CountLogs
    <2>1. reader'.of = "log"
      BY <1>5, CountLogsFacts DEF Turns
    <2> QED BY <2>1 DEF WholeInv
  <1>6. CASE ListLogs
    <2>1. reader'.of = "log"
      BY <1>6, ListLogsFacts DEF Turns
    <2> QED BY <2>1 DEF WholeInv
  <1>7. CASE ReadWhole
    <2>1. /\ ReaderAlone /\ present' = present /\ reader.of = "whole"
          /\ \/ \E limit \in {0, PageLength} : Turns("done", reader.at, limit, GetHistory({}, {}, limit))
             \/ Turns("failed", reader.at, reader.end, reader.got)
      BY <1>7, ReadWholeFacts
    <2>2. CASE Turns("failed", reader.at, reader.end, reader.got)
      BY <2>2 DEF Turns, WholeInv
    <2>3. ASSUME NEW limit \in {0, PageLength}, Turns("done", reader.at, limit, GetHistory({}, {}, limit))
          PROVE  WholeInv'
      <3>1. PICK part : part = GetHistory({}, {}, limit)
        OBVIOUS
      <3>2. WholeOf(part, limit)
        BY <3>1, WholeFacts
      <3>3. present \subseteq histories
        BY <2>1 DEF HistoryTypeInv, HistoryTypes
      <3>4. reader'.got = part /\ reader'.end = limit
        BY <2>3, <3>1 DEF Turns
      <3> QED BY <2>1, <3>2, <3>3, <3>4 DEF WholeOf, WholeInv, Given
    <2> QED BY <2>1, <2>2, <2>3
  <1> QED BY <1>1, <1>2, <1>3, <1>4, <1>5, <1>6, <1>7, HistoryMoves

(***************************************************************************)
(* Samples and history keys.                                               *)
(***************************************************************************)
LEMMA QuotientSum ==
    ASSUME NEW p \in Nat, NEW m \in Nat, NEW d \in Nat \ {0}
    PROVE  (p + m) \div d - p \div d \in (m \div d)..(m \div d + 1)
  <1>1. PICK a \in Nat : a = p \div d /\ d * a <= p /\ p < d * a + d
    BY Quotient
  <1>2. PICK b \in Nat : b = m \div d /\ d * b <= m /\ m < d * b + d
    BY Quotient
  <1>3. PICK x \in Nat, y \in Nat : x = d * a /\ y = d * b
    OBVIOUS
  <1>4. x <= p /\ p < x + d /\ y <= m /\ m < y + d
    BY <1>1, <1>2, <1>3
  <1>5. d * (a + b) = x + y /\ d * (a + b + 1) = x + y + d
    BY <1>3
  <1>6. p + m \in Nat /\ a + b \in Nat /\ a + b + 1 \in Nat
    OBVIOUS
  <1>7. CASE p + m < x + y + d
    <2>1. (p + m) \div d = a + b
      BY <1>4, <1>5, <1>6, <1>7, QuotientIs
    <2> QED BY <1>1, <1>2, <2>1
  <1>8. CASE ~(p + m < x + y + d)
    <2>1. d * (a + b + 1) <= p + m /\ p + m < d * (a + b + 1) + d
      BY <1>4, <1>5, <1>8
    <2>2. (p + m) \div d = a + b + 1
      BY <1>6, <2>1, QuotientIs
    <2> QED BY <1>1, <1>2, <2>2
  <1> QED BY <1>7, <1>8

\* Indices of samples: the last row, and the first one if there is more than
\* one sample, at even distances.
SpreadOver(f, n, samples) ==
    /\ f \in [1..samples -> 1..n]
    /\ f[samples] = n
    /\ samples > 1 =>
          /\ f[1] = 1
          /\ \A i \in 1..(samples - 1) :
                f[i + 1] - f[i] \in ((n - 1) \div (samples - 1))..(((n - 1) \div (samples - 1)) + 1) \ {0}

LEMMA IndexSpread ==
    ASSUME NEW n \in Nat, NEW samples \in Nat, 1 < samples, samples < n,
           NEW f, f = [i \in 1..samples |-> Index(i - 1, n, samples)]
    PROVE  SpreadOver(f, n, samples)
  <1>1. PICK d \in Nat \ {0} : d = samples - 1
    OBVIOUS
  <1>2. PICK m \in Nat : m = n - 1
    OBVIOUS
  <1>3. \A i \in 1..samples : f[i] = 1 + ((i - 1) * m) \div d
    BY <1>1, <1>2 DEF Index
  <1>4. PICK g \in Nat : g = m \div d
    BY Quotient
  <1>5. g >= 1
    <2>1. m < d * g + d
      BY <1>4, Quotient
    <2>2. d < m
      BY <1>1, <1>2
    <2> SUFFICES ASSUME g = 0 PROVE FALSE
      OBVIOUS
    <2>3. d * g = 0
      OBVIOUS
    <2> QED BY <2>1, <2>2, <2>3
  <1>6. ASSUME NEW i \in 1..samples
        PROVE  f[i] \in 1..n /\ (i = 1 => f[i] = 1) /\ (i = samples => f[i] = n)
    <2>1. PICK j \in Nat : j = i - 1
      OBVIOUS
    <2>2. PICK p \in Nat : p = j * m
      OBVIOUS
    <2>3. PICK q \in Nat : q = p \div d /\ d * q <= p /\ p < d * q + d
      BY Quotient
    <2>4. f[i] = 1 + q
      BY <1>3, <2>1, <2>2, <2>3
    <2>5. j <= d
      BY <1>1, <2>1
    <2>6. p <= d * m
      <3>1. PICK e \in Nat : d = j + e
        BY <2>5
      <3>2. d * m = j * m + e * m /\ e * m \in Nat
        BY <3>1
      <3> QED BY <2>2, <3>2
    <2>7. q <= m
      <3> SUFFICES ASSUME m < q PROVE FALSE
        OBVIOUS
      <3>1. PICK e \in Nat : q = m + 1 + e
        <4>1. q - m - 1 \in Nat /\ q = m + 1 + (q - m - 1)
          OBVIOUS
        <4> QED BY <4>1
      <3>2. d * q = d * m + d + d * e /\ d * e \in Nat /\ d * m \in Nat
        BY <3>1
      <3> QED BY <2>3, <2>6, <3>2
    <2>8. i = 1 => q = 0
      <3> SUFFICES ASSUME i = 1 PROVE q = 0
        OBVIOUS
      <3>1. p = 0
        BY <2>1, <2>2
      <3>2. d * 0 <= 0 /\ 0 < d * 0 + d /\ 0 \in Nat
        OBVIOUS
      <3>3. 0 \div d = 0
        BY <3>2, QuotientIs
      <3> QED BY <2>3, <3>1, <3>3
    <2>9. i = samples => q = m
      <3> SUFFICES ASSUME i = samples PROVE q = m
        OBVIOUS
      <3>1. p = d * m
        BY <1>1, <2>1, <2>2
      <3>2. d * m <= p /\ p < d * m + d
        BY <3>1
      <3>3. p \div d = m
        BY <3>2, QuotientIs
      <3> QED BY <2>3, <3>3
    <2> QED BY <1>2, <2>4, <2>7, <2>8, <2>9
  <1>7. ASSUME NEW i \in 1..(samples - 1)
        PROVE  f[i + 1] - f[i] \in g..(g + 1) \ {0}
    <2>1. PICK j \in Nat : j = i - 1
      OBVIOUS
    <2>2. PICK p \in Nat : p = j * m
      OBVIOUS
    <2>3. (i + 1 - 1) * m = p + m /\ i \in 1..samples /\ i + 1 \in 1..samples
      BY <2>1, <2>2
    <2>4. f[i + 1] = 1 + (p + m) \div d /\ f[i] = 1 + p \div d
      <3>3. PICK e \in 1..samples : e = i + 1
        BY <2>3
      <3>4. f[e] = 1 + ((e - 1) * m) \div d
        BY <1>3
      <3>5. (e - 1) * m = p + m
        BY <2>3, <3>3
      <3>1. f[i + 1] = 1 + (p + m) \div d
        BY <3>3, <3>4, <3>5
      <3>2. f[i] = 1 + ((i - 1) * m) \div d
        BY <1>3, <2>3
      <3> QED BY <2>1, <2>2, <3>1, <3>2
    <2>8. PICK a \in Nat : a = (p + m) \div d
      <3>1. p + m \in Nat
        OBVIOUS
      <3> QED BY <3>1, Quotient
    <2>5. PICK b \in Nat : b = p \div d
      BY Quotient
    <2>6. a - b \in g..(g + 1)
      BY <1>4, <2>8, <2>5, QuotientSum
    <2> QED BY <1>5, <2>4, <2>8, <2>5, <2>6
  <1>8. f \in [1..samples -> 1..n]
    BY <1>6
  <1>9. 1 \in 1..samples /\ samples \in 1..samples
    OBVIOUS
  <1>10. f[samples] = n /\ f[1] = 1
    BY <1>6, <1>9
  <1>11. g = (n - 1) \div (samples - 1)
    BY <1>1, <1>2, <1>4
  <1> QED BY <1>7, <1>8, <1>10, <1>11 DEF SpreadOver

Takes(f, order, samples) ==
    SpreadOver(f, Len(order), samples) /\ Downsampled(order, samples) = [i \in 1..samples |-> order[f[i]]]

LEMMA DownsampledIs ==
    ASSUME NEW T, NEW order \in Seq(T), NEW samples \in 1..Len(order)
    PROVE  \E f : Takes(f, order, samples)
  <1> DEFINE n == Len(order)
  <1>1. n \in Nat /\ samples \in Nat /\ samples # 0 /\ samples <= n
    OBVIOUS
  <1>2. CASE n <= samples
    <2>1. PICK f : f = [i \in 1..n |-> i]
      OBVIOUS
    <2>2. samples = n
      BY <1>1, <1>2
    <2>3. Downsampled(order, samples) = order
      BY <1>2 DEF Downsampled
    <2>4. order = [i \in 1..samples |-> order[f[i]]]
      BY <2>1, <2>2
    <2>5. ASSUME n > 1 PROVE (n - 1) \div (n - 1) = 1
      <3>1. PICK d \in Nat \ {0} : d = n - 1
        BY <1>1, <2>5
      <3>2. d * 1 <= d /\ d < d * 1 + d /\ 1 \in Nat
        OBVIOUS
      <3>3. d \div d = 1
        BY <3>2, QuotientIs
      <3> QED BY <3>1, <3>3
    <2>6. f \in [1..n -> 1..n] /\ f[n] = n /\ \A i \in 1..n : f[i] = i
      BY <1>1, <2>1, <2>2
    <2>7. ASSUME n > 1 PROVE f[1] = 1 /\ \A i \in 1..(n - 1) : f[i + 1] - f[i] = 1
      BY <1>1, <2>6, <2>7
    <2>8. 1 \in 1..(1 + 1) \ {0}
      OBVIOUS
    <2>9. SpreadOver(f, n, samples)
      BY <2>2, <2>5, <2>6, <2>7, <2>8 DEF SpreadOver
    <2> QED BY <2>3, <2>4, <2>9 DEF Takes
  <1>3. CASE samples = 1 /\ n > 1
    <2>1. PICK f : f = [i \in 1..samples |-> n]
      OBVIOUS
    <2>2. Downsampled(order, samples) = <<order[n]>>
      BY <1>1, <1>3 DEF Downsampled
    <2>3. 1..samples = {1}
      BY <1>3
    <2>4. <<order[n]>> = [i \in {1} |-> order[n]]
      <3>1. 1..1 = {1}
        OBVIOUS
      <3>2. <<order[n]>> = [i \in 1..1 |-> order[n]]
        OBVIOUS
      <3> QED BY <3>1, <3>2
    <2>5. [i \in {1} |-> order[n]] = [i \in 1..samples |-> order[f[i]]]
      BY <2>1, <2>3
    <2>6. SpreadOver(f, n, samples)
      BY <1>1, <1>3, <2>1, <2>3 DEF SpreadOver
    <2> QED BY <2>2, <2>4, <2>5, <2>6 DEF Takes
  <1>4. CASE ~(n <= samples) /\ samples # 1
    <2>1. PICK f : f = [i \in 1..samples |-> Index(i - 1, n, samples)]
      OBVIOUS
    <2>2. SpreadOver(f, n, samples)
      BY <1>1, <1>4, <2>1, IndexSpread
    <2>3. Downsampled(order, samples) = [i \in 1..samples |-> order[Index(i - 1, n, samples)]]
      BY <1>1, <1>4 DEF Downsampled
    <2>4. \A i \in 1..samples : f[i] = Index(i - 1, n, samples)
      BY <2>1
    <2> QED BY <2>2, <2>3, <2>4 DEF Takes
  <1> QED BY <1>1, <1>2, <1>3, <1>4

LEMMA TableRows ==
    ASSUME Table(histories), NEW order, order = Ordered(histories), NEW n, n = Cardinality(histories)
    PROVE  /\ n \in Nat /\ order \in Seq(histories) /\ Len(order) = n /\ DOMAIN order = 1..n
           /\ \A i, j \in 1..n : order[i].id = order[j].id => i = j
  <1>1. Listed(histories, order)
    BY OrderedList DEF Table
  <1>2. /\ n \in Nat /\ order \in Seq(histories) /\ Len(order) = n
        /\ \A i \in 1..n : order[i] \in histories /\ Place(order[i], histories) = i - 1
    BY <1>1 DEF Listed
  <1>3. ASSUME NEW i \in 1..n, NEW j \in 1..n, order[i].id = order[j].id PROVE i = j
    <2>1. order[i] = order[j]
      BY <1>2, <1>3 DEF Table, Lined
    <2>2. i - 1 = j - 1
      BY <1>2, <2>1
    <2> QED BY <1>2, <2>2
  <1> QED BY <1>2, <1>3

SpreadOut(order, got, at, samples) ==
    LET gap == (Len(order) - 1) \div (samples - 1) IN
    /\ Len(got) = samples
    /\ at[samples] = Len(order)
    /\ samples > 1 =>
          /\ at[1] = 1
          /\ \A i \in 1..(samples - 1) : at[i + 1] - at[i] \in gap..(gap + 1) \ {0}

LEMMA SamplesAreSpread ==
    ASSUME Table(histories)
    PROVE  SamplesSpread
  <1>1. ASSUME NEW samples \in 1..Cardinality(histories), NEW order, order = Ordered(histories),
               NEW got, got = GetSampledHistory({}, samples),
               NEW at, at = [i \in DOMAIN got |-> CHOOSE n \in DOMAIN order : order[n].id = got[i].id]
        PROVE  SpreadOut(order, got, at, samples)
    <2>1. PICK n : n = Cardinality(histories)
      OBVIOUS
    <2>2. /\ n \in Nat /\ order \in Seq(histories) /\ Len(order) = n /\ DOMAIN order = 1..n
          /\ \A i, j \in 1..n : order[i].id = order[j].id => i = j
      BY <1>1, <2>1, TableRows
    <2>3. samples \in 1..n /\ samples \in Nat
      BY <2>1
    <2>0. PICK f : Takes(f, order, samples)
      BY <2>2, <2>3, DownsampledIs
    <2>4. SpreadOver(f, n, samples) /\ Downsampled(order, samples) = [i \in 1..samples |-> order[f[i]]]
      BY <2>2, <2>0 DEF Takes
    <2>5. PICK list : list = Downsampled(order, samples)
      OBVIOUS
    <2>6. DOMAIN list = 1..samples /\ \A i \in 1..samples : list[i] = order[f[i]]
      BY <2>4, <2>5
    <2>7. got = [m \in DOMAIN list |-> [num |-> list[m].num, id |-> list[m].id, keys |-> list[m].keys]]
      BY <1>1, <2>5 DEF GetSampledHistory
    <2>8. DOMAIN got = 1..samples /\ \A i \in 1..samples : got[i].id = order[f[i]].id
      BY <2>6, <2>7
    <2>9. Len(got) = samples
      <3>1. PICK T : T = {got[i] : i \in 1..samples}
        OBVIOUS
      <3>2. got \in [1..samples -> T]
        BY <2>6, <2>7, <2>8, <3>1
      <3> QED BY <2>3, <3>2, ListOf
    <2>10. ASSUME NEW i \in 1..samples PROVE at[i] = f[i]
      <3>1. f[i] \in 1..n
        BY <2>4 DEF SpreadOver
      <3>2. at[i] = CHOOSE m \in 1..n : order[m].id = got[i].id
        BY <1>1, <2>2, <2>8
      <3>3. PICK c : c = got[i].id
        OBVIOUS
      <3>4. order[f[i]].id = c /\ \A m \in 1..n : order[m].id = c => m = f[i]
        BY <2>2, <2>8, <3>1, <3>3
      <3>5. (CHOOSE m \in 1..n : order[m].id = c) = f[i]
        BY <3>1, <3>4
      <3> QED BY <3>2, <3>3, <3>5
    <2>11. \A i \in 1..(samples - 1) : i \in 1..samples /\ i + 1 \in 1..samples
      BY <2>3
    <2>12. 1 \in 1..samples /\ samples \in 1..samples
      BY <2>3
    <2>13. at[samples] = f[samples] /\ at[1] = f[1] /\ \A i \in 1..(samples - 1) : at[i + 1] = f[i + 1] /\ at[i] = f[i]
      BY <2>10, <2>11, <2>12
    <2> QED BY <2>2, <2>4, <2>9, <2>13 DEF SpreadOver, SpreadOut
  <1>2. ASSUME NEW samples \in 1..Cardinality(histories)
        PROVE  SpreadOut(Ordered(histories), GetSampledHistory({}, samples),
                         [i \in DOMAIN GetSampledHistory({}, samples) |->
                             CHOOSE n \in DOMAIN Ordered(histories) : Ordered(histories)[n].id = GetSampledHistory({}, samples)[i].id],
                         samples)
    BY <1>1
  <1> QED BY <1>2 DEF SamplesSpread, SpreadOut

Shown(k, chart, given) == GetHistoryKeys.keys[k] = IF given = {} THEN 0 ELSE chart[Max(given)].id

LEMMA KeysDoAgree ==
    ASSUME Table(histories)
    PROVE  KeysAgree
  <1>1. PICK n : n = Cardinality(histories)
    OBVIOUS
  <1>2. PICK order : order = Ordered(histories)
    OBVIOUS
  <1>3. n \in Nat /\ order \in Seq(histories) /\ Len(order) = n /\ DOMAIN order = 1..n
    BY <1>1, <1>2, TableRows
  <1>4. order = Visited
    BY <1>2 DEF Visited
  <1>5. ASSUME NEW k \in Keys, NEW chart, chart = GetSampledHistory({k}, 0),
               NEW given, given = {m \in DOMAIN chart : chart[m].keys # {}}
        PROVE  Shown(k, chart, given)
    <2>1. Downsampled(order, 0) = order
      BY DEF Downsampled
    <2>2. chart = [m \in DOMAIN order |-> [num |-> order[m].num, id |-> order[m].id,
                                          keys |-> IF {k} = {} THEN order[m].keys ELSE order[m].keys \cap {k}]]
      BY <1>2, <1>5, <2>1 DEF GetSampledHistory
    <2>3. DOMAIN chart = 1..n /\ \A m \in 1..n : chart[m].id = order[m].id /\ chart[m].keys = order[m].keys \cap {k}
      BY <1>3, <2>2
    <2>4. given = Logged(k, n)
      BY <1>4, <1>5, <2>3 DEF Logged
    <2>5. GetHistoryKeys.keys[k] = IF Logged(k, n) = {} THEN 0 ELSE order[Max(Logged(k, n))].id
      <3>1. KeysAfter[n][k] = IF Logged(k, n) = {} THEN 0 ELSE Visited[Max(Logged(k, n))].id
        BY <1>1, HistoryKeysAre
      <3>2. GetHistoryKeys.keys = KeysAfter[n]
        BY <1>1 DEF GetHistoryKeys
      <3> QED BY <1>4, <3>1, <3>2
    <2>6. given # {} => Max(given) \in 1..n
      <3> SUFFICES ASSUME given # {} PROVE Max(given) \in 1..n
        OBVIOUS
      <3>1. Max(Logged(k, n)) \in Logged(k, n)
        BY <1>3, <2>4, LastLogged
      <3> QED BY <2>4, <3>1 DEF Logged
    <2> QED BY <2>3, <2>4, <2>5, <2>6 DEF Shown
  <1>6. ASSUME histories # {} PROVE GetHistoryKeys.lastStep = Last(GetSampledHistory({}, 1)).num
    <2>1. IsFiniteSet(histories)
      BY DEF Table, Lined
    <2>2. n # 0
      BY <1>1, <1>6, <2>1, FS_EmptySet
    <2>3. GetHistoryKeys.lastStep = order[n].num
      <3>1. StepAfter[n] = Visited[n].num
        BY <1>1, <2>2, LastStepIs
      <3> QED BY <1>1, <1>4, <3>1 DEF GetHistoryKeys
    <2>4. 1 \in 1..n
      BY <1>3, <2>2
    <2>0. PICK f : Takes(f, order, 1)
      BY <1>3, <2>4, DownsampledIs
    <2>5. SpreadOver(f, n, 1) /\ Downsampled(order, 1) = [i \in 1..1 |-> order[f[i]]]
      BY <1>3, <2>0 DEF Takes
    <2>6. f[1] = n
      BY <2>5 DEF SpreadOver
    <2>7. PICK got : got = GetSampledHistory({}, 1)
      OBVIOUS
    <2>8. PICK list : list = Downsampled(order, 1)
      OBVIOUS
    <2>9. DOMAIN list = 1..1 /\ list[1] = order[n]
      BY <2>5, <2>6, <2>8
    <2>10. got = [m \in DOMAIN list |-> [num |-> list[m].num, id |-> list[m].id, keys |-> list[m].keys]]
      BY <1>2, <2>7, <2>8 DEF GetSampledHistory
    <2>11. got[1].num = order[n].num /\ Len(got) = 1
      <3>1. got[1].num = order[n].num
        BY <2>9, <2>10
      <3>2. PICK T : T = {got[i] : i \in 1..1}
        OBVIOUS
      <3>3. got \in [1..1 -> T]
        BY <2>9, <2>10, <3>2
      <3>4. 1 \in Nat
        OBVIOUS
      <3> QED BY <3>1, <3>3, <3>4, ListOf
    <2> QED BY <2>3, <2>7, <2>11 DEF Last
  <1>7. ASSUME NEW k \in Keys
        PROVE  Shown(k, GetSampledHistory({k}, 0),
                     {m \in DOMAIN GetSampledHistory({k}, 0) : GetSampledHistory({k}, 0)[m].keys # {}})
    BY <1>5
  <1> QED BY <1>6, <1>7 DEF KeysAgree, Shown

(***************************************************************************)
(* The theorems.                                                           *)
(***************************************************************************)
HistoryInv == HistoryTypeInv /\ LogOrderInv /\ LogCoverInv /\ ScanInv /\ WholeInv

LEMMA HistoryInitInv ==
    ASSUME HistoryInit
    PROVE  HistoryInv
  <1>1. /\ histories = {} /\ logs = {} /\ pending = [s \in Slots |-> <<>>] /\ awaited = {} /\ posted = 0
        /\ reader = [of |-> "none", step |-> "idle", at |-> 0, end |-> 0, got |-> <<>>]
        /\ present = {} /\ met = {} /\ repeats = 0 /\ errors = 0
    BY DEF HistoryInit
  <1>2. Len(Posts) \in Nat /\ MaxRepeats \in Nat /\ MaxErrors \in Nat
    BY HistoryAssumption DEF HistoryAssumption
  <1>3. HistoryTypes
    BY <1>1, <1>2 DEF HistoryTypes
  <1>4. Table(histories) /\ Table(logs)
    BY <1>1, FS_EmptySet DEF Table, Lined
  <1>5. ReaderShape
    BY <1>1 DEF ReaderShape
  <1>6. LogOrderInv /\ LogCoverInv /\ ScanInv /\ WholeInv
    BY <1>1 DEF LogOrderInv, LogCoverInv, ScanInv, WholeInv
  <1> QED BY <1>3, <1>4, <1>5, <1>6 DEF HistoryInv, HistoryTypeInv

LEMMA HistoryInvHolds == HistorySpec => []HistoryInv
  <1>1. HistoryInit => HistoryInv
    BY HistoryInitInv
  <1>2. HistoryInv /\ [HistoryNext]_historical => HistoryInv'
    BY HistoryTypeNext, LogOrderNext, LogCoverNext, ScanNext, WholeNext DEF HistoryInv
  <1> QED BY <1>1, <1>2, PTL DEF HistorySpec

\* A reader that pages through the history or the log of a run that is still
\* writing gets every row that was there when it began, but for what repeated
\* POSTs, insertions before what it reads and failing COUNTs explain.
THEOREM ReadsAreComplete == HistorySpec => []ReadsComplete
  <1>1. ASSUME HistoryInv PROVE ReadsComplete
    <2>1. HistoryTypes /\ ReaderFields /\ DOMAIN reader.got = 1..Len(reader.got)
      BY <1>1, ReaderType DEF HistoryInv, HistoryTypeInv, ReaderFields
    <2>2. \A v : Given(v) <=> v \in Range(reader.got)
      BY <2>1 DEF Given, Range
    <2>3. ScanComplete
      <3> SUFFICES ASSUME reader.of = "history", reader.step = "done" PROVE ScanComplete
        BY DEF ScanComplete
      <3>1. /\ IsInjective(reader.got) /\ InOrder(reader.got) /\ reader.end <= reader.at
            /\ \A h \in present : h.num < reader.end
            /\ \A h \in present : h.num < reader.at => Given(h) \/ NoRoom(h)
        BY <1>1 DEF HistoryInv, ScanInv
      <3>2. present \subseteq histories /\ reader.end \in Nat /\ reader.at \in Nat /\ \A h \in histories : h.num \in Nat
        BY <1>1, <2>1 DEF HistoryInv, HistoryTypeInv, HistoryTypes, Table, Lined, ReaderFields
      <3>3. ASSUME NEW h \in present PROVE Given(h) \/ NoRoom(h)
        <4>1. h.num \in Nat /\ h.num < reader.end
          BY <3>1, <3>2
        <4>2. h.num < reader.at
          BY <3>1, <3>2, <4>1
        <4> QED BY <3>1, <4>2
      <3> QED BY <2>1, <2>2, <3>1, <3>3 DEF ScanComplete, NoRoom
    <2>4. LogComplete
      <3> SUFFICES ASSUME reader.of = "log", reader.step = "done" PROVE LogComplete
        BY DEF LogComplete
      <3>1. ~Reading
        BY DEF Reading
      <3> QED BY <1>1, <2>2, <3>1 DEF HistoryInv, LogOrderInv, LogCoverInv, LogComplete
    <2>5. WholeComplete
      <3> SUFFICES ASSUME reader.of = "whole", reader.step = "done" PROVE WholeComplete
        BY DEF WholeComplete
      <3> QED BY <1>1, <2>1, <2>2 DEF HistoryInv, WholeInv, WholeComplete
    <2> QED BY <2>1, <2>3, <2>4, <2>5 DEF ReadsComplete
  <1> QED BY <1>1, HistoryInvHolds, PTL

\* A downsampled chart has the rows asked for, evenly spread from the first
\* to the last one, and the history keys agree with the charts.
THEOREM ChartsAreFaithful == HistorySpec => []ChartsFaithful
  <1>1. ASSUME HistoryInv PROVE ChartsFaithful
    BY <1>1, SamplesAreSpread, KeysDoAgree DEF HistoryInv, HistoryTypeInv, ChartsFaithful
  <1> QED BY <1>1, HistoryInvHolds, PTL

(***************************************************************************)
(* Servers.  The inductive invariant: what a server that migrates or seeds *)
(* has stored so far, and what the others know of it.                      *)
(***************************************************************************)
Up      == {"open", "serving", "draining"}
Account == {"user", "entity", "link"}

OneSeeds == \A s, t \in Servers : phase[s] \in Seeding /\ phase[t] \in Seeding => s = t

Stages ==
    \A s \in Servers :
        /\ phase[s] = "entity" => seed = {"user"} /\ keys = 0
        /\ phase[s] = "link"   => seed = {"user", "entity"} /\ keys = 0
        /\ phase[s] = "key"    => seed = Account /\ keys = 0

UserFirst == "user" \notin seed => seed = {} /\ keys = 0

KeyLast == keys # 0 => keys = 1 /\ seed = Account /\ \A s \in Servers : phase[s] \notin Seeding

Explained == "user" \in seed => Seeded \/ cut \/ \E s \in Servers : phase[s] \in Seeding

UpHasUser == \A s \in Servers : phase[s] \in Up => "user" \in seed

SeedInv == OneSeeds /\ Stages /\ UserFirst /\ KeyLast /\ Explained /\ UpHasUser

\* What is known of a login that is being handled, and of one that was
\* refused.
Handled(k) ==
    /\ call[k].step = "viewer" => keys # 0
    /\ call[k].step # "idle" => outcome[k] = "none" /\ "user" \in seed /\ (k \in unready \/ Seeded)

Refused(k) ==
    /\ outcome[k] \in {"unauthorized", "error"} /\ failures = 0 => k \in unready /\ "user" \in seed
    /\ outcome[k] = "error" => failures > 0

LoginInv == \A k \in Clients : Handled(k) /\ Refused(k)

ServerInv == ServerTypes /\ SchemaReady /\ SeedInv /\ LoginInv

(***************************************************************************)
(* Types.                                                                  *)
(***************************************************************************)
LEMMA GotoType ==
    ASSUME ServerTypes, NEW s \in Servers, NEW step \in Phases, Enter(s, step)
    PROVE  phase' \in [Servers -> Phases] /\ place' \in [Servers -> 1..Objects] /\ cut' \in BOOLEAN
  BY DEF ServerTypes, Enter

LEMMA AdvanceType ==
    ASSUME ServerTypes, NEW s \in Servers, NEW step \in Phases, Advance(s, step)
    PROVE  phase' \in [Servers -> Phases] /\ place' \in [Servers -> 1..Objects] /\ cut' \in BOOLEAN
  <1>1. phase' \in [Servers -> Phases] /\ cut' \in BOOLEAN
    BY DEF ServerTypes, Advance, Phases
  <1>2. Objects \in Nat \ {0} /\ place[s] \in 1..Objects
    BY LifecycleAssumption DEF LifecycleAssumption, ServerTypes
  <1>3. (IF place[s] = Objects THEN 1 ELSE place[s] + 1) \in 1..Objects
    BY <1>2
  <1>4. place' \in [Servers -> 1..Objects]
    BY <1>3 DEF ServerTypes, Advance
  <1> QED BY <1>1, <1>4

LEMMA EndType ==
    ASSUME ServerTypes, NEW s \in Servers, End(s)
    PROVE  phase' \in [Servers -> Phases] /\ place' \in [Servers -> 1..Objects] /\ cut' \in BOOLEAN
  <1>1. phase' \in [Servers -> Phases] /\ cut' \in BOOLEAN
    BY DEF ServerTypes, End, Phases
  <1>2. 1 \in 1..Objects
    BY LifecycleAssumption DEF LifecycleAssumption
  <1> QED BY <1>1, <1>2 DEF ServerTypes, End

LEMMA CountersType ==
    ASSUME ServerTypes, Works \/ Errs, Dies \/ deaths' = deaths
    PROVE  failures' \in 0..MaxFailures /\ deaths' \in 0..MaxDeaths
  <1>1. MaxFailures \in Nat /\ MaxDeaths \in Nat
    BY LifecycleAssumption DEF LifecycleAssumption
  <1>2. failures \in 0..MaxFailures /\ deaths \in 0..MaxDeaths
    BY DEF ServerTypes
  <1>3. failures' \in 0..MaxFailures
    BY <1>1, <1>2 DEF Works, Errs
  <1>4. deaths' \in 0..MaxDeaths
    BY <1>1, <1>2 DEF Dies
  <1> QED BY <1>3, <1>4

\* A step of a server before it serves keeps the logins.
RunFrame == UNCHANGED <<call, outcome, unready, deaths>>

LEMMA RunShape ==
    ASSUME ServerTypes, NEW s \in Servers, Run(s)
    PROVE  /\ RunFrame
           /\ Works \/ Errs
           /\ End(s) \/ \E step \in Phases : Enter(s, step) \/ Advance(s, step)
           /\ made' \in 0..Objects /\ seed' \subseteq Account /\ keys' \in Nat
           /\ seed \subseteq seed' /\ (keys # 0 => keys' # 0)
  <1>0. DEFINE Framed == RunFrame /\ (Works \/ Errs)
               Moved == End(s) \/ \E step \in Phases : Enter(s, step) \/ Advance(s, step)
               Grows == /\ made' \in 0..Objects /\ seed' \subseteq Account /\ keys' \in Nat
                        /\ seed \subseteq seed' /\ (keys # 0 => keys' # 0)
  <1>1. Framed
    BY DEF Run, Start, Schema, Migrate, Count, InsertUser, InsertEntity, Link, InsertKey, Open, Drained, RunFrame, Works, database
  <1>2. Moved
    BY DEF Run, Start, Schema, Migrate, Count, InsertUser, InsertEntity, Link, InsertKey, Open, Drained, Phases, Seeding
  <1>3. Grows
    <2>1. made' = place[s] \/ made' = made
      BY DEF Run, Start, Schema, Migrate, Count, InsertUser, InsertEntity, Link, InsertKey, Open, Drained, database
    <2>2. made' \in 0..Objects
      <3>1. made \in 0..Objects /\ place[s] \in 1..Objects
        BY DEF ServerTypes
      <3> QED BY <2>1, <3>1
    <2>3. seed' = seed \/ \E x \in Account : seed' = seed \cup {x}
      BY DEF Run, Start, Schema, Migrate, Count, InsertUser, InsertEntity, Link, InsertKey, Open, Drained, database, Account
    <2>4. seed \subseteq Account /\ keys \in Nat
      BY DEF ServerTypes, Account
    <2>5. keys' = keys \/ keys' = keys + 1
      BY DEF Run, Start, Schema, Migrate, Count, InsertUser, InsertEntity, Link, InsertKey, Open, Drained, database
    <2> QED BY <2>2, <2>3, <2>4, <2>5
  <1> QED BY <1>1, <1>2, <1>3

LEMMA ServerTypeNext ==
    ASSUME ServerTypes, [ServerNext]_lifecycle
    PROVE  ServerTypes'
  <1>1. ASSUME NEW s \in Servers, Run(s) PROVE ServerTypes'
    <2>1. phase' \in [Servers -> Phases] /\ place' \in [Servers -> 1..Objects] /\ cut' \in BOOLEAN
      BY <1>1, RunShape, GotoType, AdvanceType, EndType
    <2>2. failures' \in 0..MaxFailures /\ deaths' \in 0..MaxDeaths
      BY <1>1, RunShape, CountersType DEF RunFrame
    <2> QED BY <1>1, <2>1, <2>2, RunShape DEF RunFrame, ServerTypes, Account
  <1>2. ASSUME NEW s \in Servers, Signal(s) PROVE ServerTypes'
    <2>1. phase' \in [Servers -> Phases] /\ place' \in [Servers -> 1..Objects] /\ cut' \in BOOLEAN
      BY <1>2, GotoType DEF Signal, Phases
    <2>2. failures' \in 0..MaxFailures /\ deaths' \in 0..MaxDeaths
      BY <1>2, CountersType DEF Signal, Works
    <2> QED BY <1>2, <2>1, <2>2 DEF Signal, ServerTypes, database
  <1>3. ASSUME NEW s \in Servers, Die(s) PROVE ServerTypes'
    <2>1. phase' \in [Servers -> Phases] /\ place' \in [Servers -> 1..Objects] /\ cut' \in BOOLEAN
      BY <1>3, EndType DEF Die
    <2>2. failures' \in 0..MaxFailures /\ deaths' \in 0..MaxDeaths
      BY <1>3, CountersType DEF Die, Works
    <2>3. /\ call' \in [Clients -> [server: Servers, step: {"auth", "viewer"}] \cup {Idle}]
          /\ outcome' \in [Clients -> {"none", "ok", "unauthorized", "error", "cut off"}]
      BY <1>3 DEF Die, CutOff, ServerTypes
    <2> QED BY <1>3, <2>1, <2>2, <2>3 DEF Die, ServerTypes, database
  <1>4. ASSUME NEW k \in Clients, NEW s \in Servers, Login(k, s) PROVE ServerTypes'
    BY <1>4 DEF Login, ServerTypes, database, Idle
  <1>5. ASSUME NEW k \in Clients, Auth(k) PROVE ServerTypes'
    <2>1. failures' \in 0..MaxFailures /\ deaths' \in 0..MaxDeaths
      BY <1>5, CountersType DEF Auth
    <2>2. call[k] \in [server: Servers, step: {"auth", "viewer"}]
      <3>1. call[k] \in [server: Servers, step: {"auth", "viewer"}] \cup {Idle}
        BY DEF ServerTypes
      <3>2. call[k].step # Idle.step
        BY <1>5 DEF Auth, Idle
      <3> QED BY <3>1, <3>2
    <2>3. [call[k] EXCEPT !.step = "viewer"] \in [server: Servers, step: {"auth", "viewer"}]
      BY <2>2
    <2>4. call' \in [Clients -> [server: Servers, step: {"auth", "viewer"}] \cup {Idle}]
      <3>1. CASE call' = [call EXCEPT ![k].step = "viewer"]
        <4>1. call' = [call EXCEPT ![k] = [call[k] EXCEPT !.step = "viewer"]]
          BY <3>1
        <4> QED BY <4>1, <2>3 DEF ServerTypes
      <3>2. CASE call' = [call EXCEPT ![k] = Idle]
        BY <3>2 DEF ServerTypes
      <3> QED BY <1>5, <3>1, <3>2 DEF Auth, Answer
    <2> QED BY <1>5, <2>1, <2>4 DEF Auth, Answer, ServerTypes, database
  <1>6. ASSUME NEW k \in Clients, Viewer(k) PROVE ServerTypes'
    <2>1. failures' \in 0..MaxFailures /\ deaths' \in 0..MaxDeaths
      BY <1>6, CountersType DEF Viewer
    <2> QED BY <1>6, <2>1 DEF Viewer, Answer, ServerTypes, database
  <1>7. CASE UNCHANGED lifecycle BY <1>7 DEF lifecycle, database, ServerTypes
  <1> QED BY <1>1, <1>2, <1>3, <1>4, <1>5, <1>6, <1>7 DEF ServerNext, Handle

(***************************************************************************)
(* The schema.                                                             *)
(***************************************************************************)
LEMMA PlaceNat ==
    ASSUME ServerTypes
    PROVE  /\ Objects \in Nat \ {0} /\ made \in 0..Objects
           /\ \A s \in Servers : place[s] \in 1..Objects
  BY LifecycleAssumption DEF LifecycleAssumption, ServerTypes

\* A server that goes on, or starts again from the first object.
LEMMA ReadyKept ==
    ASSUME ServerTypes, SchemaReady, NEW s \in Servers, NEW x, NEW n, n \in {1, place[s]},
           phase' = [phase EXCEPT ![s] = x], place' = [place EXCEPT ![s] = n], made' = made,
           x \in {"down", "schema", "migrate"} \/ made = Objects
    PROVE  SchemaReady'
  <1>1. n <= made + 1
    BY PlaceNat DEF SchemaReady
  <1>2. \A t \in Servers : /\ phase'[t] = IF t = s THEN x ELSE phase[t]
                           /\ place'[t] = IF t = s THEN n ELSE place[t]
    BY DEF ServerTypes
  <1> QED BY <1>1, <1>2 DEF SchemaReady

LEMMA ReadyGoto ==
    ASSUME ServerTypes, SchemaReady, NEW s \in Servers, NEW x, Enter(s, x), made' = made,
           x \in {"down", "schema", "migrate"} \/ phase[s] \notin {"down", "schema", "migrate"}
    PROVE  SchemaReady'
  <1>1. place' = [place EXCEPT ![s] = place[s]]
    BY DEF Enter, ServerTypes
  <1>2. x \in {"down", "schema", "migrate"} \/ made = Objects
    BY DEF SchemaReady
  <1> QED BY <1>1, <1>2, ReadyKept DEF Enter

LEMMA ReadyEnd ==
    ASSUME ServerTypes, SchemaReady, NEW s \in Servers, End(s), made' = made
    PROVE  SchemaReady'
  BY ReadyKept DEF End

\* An object that is there, or is made, is the next one.
LEMMA ReadyAdvance ==
    ASSUME ServerTypes, SchemaReady, NEW s \in Servers, NEW x \in {"schema", "migrate"}, Advance(s, x),
           \/ place[s] <= made /\ made' = made
           \/ place[s] > made /\ made' = place[s]
    PROVE  SchemaReady'
  <1>1. /\ made' \in Nat /\ made <= made' /\ place[s] <= made' /\ made' <= Objects
        /\ made = Objects => made' = Objects
    BY PlaceNat
  <1>2. CASE place[s] = Objects
    <2>1. made' = Objects
      BY <1>1, <1>2, PlaceNat
    <2>2. \A t \in Servers : place'[t] = IF t = s THEN 1 ELSE place[t]
      BY <1>2 DEF ServerTypes, Advance
    <2>3. \A t \in Servers : place'[t] <= made' + 1
      BY <2>1, <2>2, PlaceNat
    <2> QED BY <2>1, <2>3 DEF SchemaReady
  <1>3. CASE place[s] # Objects
    <2>1. \A t \in Servers : /\ phase'[t] = IF t = s THEN x ELSE phase[t]
                             /\ place'[t] = IF t = s THEN place[s] + 1 ELSE place[t]
      BY <1>3 DEF ServerTypes, Advance
    <2>2. \A t \in Servers : place'[t] <= made' + 1
      BY <1>1, <2>1, PlaceNat DEF SchemaReady
    <2>3. \A t \in Servers : phase'[t] \notin {"down", "schema", "migrate"} => made' = Objects
      BY <1>1, <2>1 DEF SchemaReady
    <2> QED BY <2>2, <2>3 DEF SchemaReady
  <1> QED BY <1>2, <1>3

LEMMA ReadyNext ==
    ASSUME ServerTypes, SchemaReady, [ServerNext]_lifecycle
    PROVE  SchemaReady'
  <1>1. ASSUME NEW s \in Servers, Run(s) PROVE SchemaReady'
    <2>1. CASE Start(s)
      BY <2>1, ReadyGoto DEF Start, database
    <2>2. CASE Schema(s)
      BY <2>2, ReadyGoto, ReadyEnd, ReadyAdvance DEF Schema, database
    <2>3. CASE Migrate(s)
      BY <2>3, ReadyEnd, ReadyAdvance DEF Migrate
    <2>4. CASE Count(s) \/ InsertUser(s) \/ Open(s)
      BY <2>4, ReadyGoto, ReadyEnd DEF Count, InsertUser, Open, database
    <2>5. CASE InsertEntity(s) \/ Link(s) \/ InsertKey(s)
      BY <2>5, ReadyGoto, ReadyEnd DEF InsertEntity, Link, InsertKey
    <2>6. CASE Drained(s)
      BY <2>6, ReadyEnd DEF Drained, database
    <2> QED BY <1>1, <2>1, <2>2, <2>3, <2>4, <2>5, <2>6 DEF Run
  <1>2. ASSUME NEW s \in Servers, Signal(s) PROVE SchemaReady'
    BY <1>2, ReadyGoto DEF Signal, database
  <1>3. ASSUME NEW s \in Servers, Die(s) PROVE SchemaReady'
    BY <1>3, ReadyEnd DEF Die, database
  <1>4. CASE phase' = phase /\ place' = place /\ made' = made
    BY <1>4 DEF SchemaReady
  <1>5. ASSUME NEW k \in Clients, Handle(k) \/ \E s \in Servers : Login(k, s)
        PROVE  phase' = phase /\ place' = place /\ made' = made
    BY <1>5 DEF Handle, Auth, Viewer, Login, database
  <1> QED BY <1>1, <1>2, <1>3, <1>4, <1>5 DEF ServerNext, lifecycle, database

(***************************************************************************)
(* Steps of the servers.                                                   *)
(***************************************************************************)
\* A server that does not seed afterwards, and stores nothing.
LEMMA MoveInv ==
    ASSUME ServerTypes, SeedInv, NEW s \in Servers, NEW x \in Phases \ Seeding,
           phase' = [phase EXCEPT ![s] = x], cut => cut', phase[s] \in Seeding => cut',
           seed' = seed, keys' = keys, x \in Up => "user" \in seed
    PROVE  SeedInv'
  <1>1. \A t \in Servers : phase'[t] = IF t = s THEN x ELSE phase[t]
    BY DEF ServerTypes
  <1>2. OneSeeds'
    BY <1>1 DEF SeedInv, OneSeeds, Seeding
  <1>3. Stages'
    BY <1>1 DEF SeedInv, Stages, Seeding
  <1>4. UserFirst' /\ UpHasUser'
    BY <1>1 DEF SeedInv, UserFirst, UpHasUser
  <1>5. KeyLast'
    BY <1>1 DEF SeedInv, KeyLast
  <1>6. Explained'
    <2>1. CASE phase[s] \in Seeding
      BY <2>1 DEF Explained
    <2>2. CASE phase[s] \notin Seeding
      BY <1>1, <2>2 DEF SeedInv, Explained, Seeded
    <2> QED BY <2>1, <2>2
  <1> QED BY <1>2, <1>3, <1>4, <1>5, <1>6 DEF SeedInv

LEMMA EndInv ==
    ASSUME ServerTypes, SeedInv, NEW s \in Servers, End(s), seed' = seed, keys' = keys
    PROVE  SeedInv'
  BY MoveInv DEF End, Phases, Seeding, Up

\* A server that goes on, before or after the seeding.
LEMMA GotoInv ==
    ASSUME ServerTypes, SeedInv, NEW s \in Servers, NEW x \in Phases \ Seeding, Enter(s, x),
           phase[s] \notin Seeding, seed' = seed, keys' = keys, x \in Up => "user" \in seed
    PROVE  SeedInv'
  BY MoveInv DEF Enter

LEMMA AdvanceInv ==
    ASSUME ServerTypes, SeedInv, NEW s \in Servers, NEW x \in {"schema", "migrate"}, Advance(s, x),
           phase[s] \notin Seeding, seed' = seed, keys' = keys
    PROVE  SeedInv'
  BY MoveInv DEF Advance, Phases, Seeding, Up

\* The server that inserts the user is the only one that seeds, because the
\* names of users are unique.
LEMMA InsertUserInv ==
    ASSUME ServerTypes, SeedInv, NEW s \in Servers, InsertUser(s)
    PROVE  SeedInv'
  <1>1. CASE End(s) /\ seed' = seed
    BY <1>1, EndInv DEF InsertUser
  <1>2. CASE "user" \notin seed /\ seed' = seed \cup {"user"} /\ Enter(s, "entity")
    <2>1. seed = {} /\ keys = 0 /\ keys' = 0 /\ seed' = {"user"}
      BY <1>2 DEF InsertUser, SeedInv, UserFirst
    <2>2. \A t \in Servers : phase[t] \notin Seeding
      BY <2>1 DEF SeedInv, Stages, Seeding, Account
    <2>3. \A t \in Servers : phase'[t] = IF t = s THEN "entity" ELSE phase[t]
      BY <1>2 DEF ServerTypes, Enter
    <2>4. OneSeeds'
      BY <2>2, <2>3 DEF OneSeeds
    <2>5. Stages'
      BY <2>1, <2>2, <2>3 DEF Stages, Seeding
    <2>6. UserFirst' /\ UpHasUser' /\ KeyLast'
      BY <2>1 DEF UserFirst, UpHasUser, KeyLast
    <2>7. Explained'
      BY <2>3 DEF Explained, Seeding
    <2> QED BY <2>4, <2>5, <2>6, <2>7 DEF SeedInv
  <1> QED BY <1>1, <1>2 DEF InsertUser

\* The one that seeds stores the next row.
LEMMA SeedStepInv ==
    ASSUME ServerTypes, SeedInv, NEW s \in Servers, InsertEntity(s) \/ Link(s)
    PROVE  SeedInv'
  <1>1. CASE End(s) /\ seed' = seed
    BY <1>1, EndInv DEF InsertEntity, Link
  <1>2. ASSUME NEW x \in Seeding, NEW new \in Account,
               Enter(s, x), seed' = seed \cup {new}, phase[s] \in Seeding, keys' = keys,
               x \in {"link", "key"},
               seed' = IF x = "link" THEN {"user", "entity"} ELSE Account
        PROVE  SeedInv'
    <2>1. keys = 0 /\ "user" \in seed'
      BY <1>2 DEF SeedInv, Stages, Seeding, Account
    <2>2. \A t \in Servers : phase[t] \in Seeding => t = s
      BY <1>2 DEF SeedInv, OneSeeds
    <2>3. \A t \in Servers : phase'[t] = IF t = s THEN x ELSE phase[t]
      BY <1>2 DEF ServerTypes, Enter
    <2>4. OneSeeds'
      BY <2>2, <2>3 DEF OneSeeds
    <2>5. Stages'
      BY <1>2, <2>1, <2>2, <2>3 DEF Stages, Seeding
    <2>6. UserFirst' /\ UpHasUser' /\ KeyLast'
      BY <1>2, <2>1 DEF UserFirst, UpHasUser, KeyLast
    <2>7. Explained'
      BY <1>2, <2>3 DEF Explained
    <2> QED BY <2>4, <2>5, <2>6, <2>7 DEF SeedInv
  <1>3. CASE InsertEntity(s) /\ Enter(s, "link") /\ seed' = seed \cup {"entity"}
    <2>1. seed' = {"user", "entity"} /\ keys' = keys
      BY <1>3 DEF InsertEntity, SeedInv, Stages
    <2> QED BY <1>2, <1>3, <2>1 DEF InsertEntity, Seeding, Account
  <1>4. CASE Link(s) /\ Enter(s, "key") /\ seed' = seed \cup {"link"}
    <2>1. seed' = Account /\ keys' = keys
      BY <1>4 DEF Link, SeedInv, Stages, Account
    <2> QED BY <1>2, <1>4, <2>1 DEF Link, Seeding, Account
  <1> QED BY <1>1, <1>3, <1>4 DEF InsertEntity, Link

LEMMA InsertKeyInv ==
    ASSUME ServerTypes, SeedInv, NEW s \in Servers, InsertKey(s)
    PROVE  SeedInv'
  <1>1. CASE End(s) /\ keys' = keys
    BY <1>1, EndInv DEF InsertKey
  <1>2. CASE keys' = keys + 1 /\ Enter(s, "open")
    <2>1. seed = Account /\ seed' = Account /\ keys' = 1
      BY <1>2 DEF InsertKey, SeedInv, Stages
    <2>2. \A t \in Servers : phase[t] \in Seeding => t = s
      BY DEF InsertKey, SeedInv, OneSeeds, Seeding
    <2>3. \A t \in Servers : phase'[t] = IF t = s THEN "open" ELSE phase[t]
      BY <1>2 DEF ServerTypes, Enter
    <2>4. \A t \in Servers : phase'[t] \notin Seeding
      BY <2>2, <2>3 DEF Seeding
    <2>5. OneSeeds' /\ Stages' /\ UserFirst' /\ UpHasUser'
      BY <2>1, <2>4 DEF OneSeeds, Stages, UserFirst, UpHasUser, Seeding, Account
    <2>6. KeyLast' /\ Explained'
      BY <2>1, <2>4 DEF KeyLast, Explained, Seeded, Account
    <2> QED BY <2>5, <2>6 DEF SeedInv
  <1> QED BY <1>1, <1>2 DEF InsertKey

LEMMA SeedNext ==
    ASSUME ServerTypes, SeedInv, [ServerNext]_lifecycle
    PROVE  SeedInv'
  <1>1. ASSUME NEW s \in Servers, Run(s) PROVE SeedInv'
    <2>1. CASE Start(s)
      BY <2>1, GotoInv DEF Start, database, Phases, Seeding, Up
    <2>2. CASE Schema(s)
      BY <2>2, GotoInv, AdvanceInv, EndInv DEF Schema, database, Phases, Seeding, Up
    <2>3. CASE Migrate(s)
      BY <2>3, AdvanceInv, EndInv DEF Migrate, Seeding
    <2>4. CASE Count(s)
      BY <2>4, GotoInv DEF Count, database, Phases, Seeding, Up
    <2>5. CASE Open(s)
      <3>1. "user" \in seed
        BY <2>5 DEF Open, SeedInv, UpHasUser, Up
      <3> QED BY <2>5, <3>1, GotoInv, EndInv DEF Open, database, Phases, Seeding
    <2>6. CASE Drained(s)
      BY <2>6, EndInv DEF Drained, database
    <2> QED BY <1>1, <2>1, <2>2, <2>3, <2>4, <2>5, <2>6, InsertUserInv, SeedStepInv, InsertKeyInv DEF Run
  <1>2. ASSUME NEW s \in Servers, Signal(s) PROVE SeedInv'
    <2>1. "user" \in seed
      BY <1>2 DEF Signal, SeedInv, UpHasUser, Up
    <2> QED BY <1>2, <2>1, GotoInv DEF Signal, database, Phases, Seeding
  <1>3. ASSUME NEW s \in Servers, Die(s) PROVE SeedInv'
    BY <1>3, EndInv DEF Die, database
  <1>4. CASE phase' = phase /\ seed' = seed /\ keys' = keys /\ cut' = cut
    BY <1>4 DEF SeedInv, OneSeeds, Stages, UserFirst, KeyLast, Explained, UpHasUser, Seeded
  <1>5. ASSUME NEW k \in Clients, Handle(k) \/ \E s \in Servers : Login(k, s)
        PROVE  phase' = phase /\ seed' = seed /\ keys' = keys /\ cut' = cut
    BY <1>5 DEF Handle, Auth, Viewer, Login, database
  <1> QED BY <1>1, <1>2, <1>3, <1>4, <1>5 DEF ServerNext, lifecycle, database

(***************************************************************************)
(* Steps of the logins.                                                    *)
(***************************************************************************)
LEMMA FaultsNat ==
    ASSUME ServerTypes, ServerTypes'
    PROVE  failures \in Nat /\ failures' \in Nat
  <1>1. failures \in 0..MaxFailures /\ failures' \in 0..MaxFailures
    BY DEF ServerTypes
  <1> QED BY <1>1

\* What the rest of the system does to a login: the account only grows, so
\* what the login relies on stays.
LEMMA Kept ==
    ASSUME ServerTypes, ServerTypes', SeedInv, SeedInv', LoginInv, NEW k \in Clients,
           seed \subseteq seed', keys # 0 => keys' # 0, failures <= failures', unready' = unready,
           call'[k] = call[k] /\ outcome'[k] = outcome[k]
    PROVE  Handled(k)' /\ Refused(k)'
  <1>1. Seeded => Seeded'
    <2>1. keys' \in Nat /\ seed' \subseteq Account /\ keys \in Nat
      BY DEF ServerTypes, Account
    <2>2. keys > 0 => keys' > 0
      BY <2>1
    <2>3. seed = Account => seed' = Account
      BY <2>1
    <2> QED BY <2>2, <2>3 DEF Seeded, Account
  <1>2. Handled(k)'
    BY <1>1 DEF LoginInv, Handled
  <1>3. Refused(k)'
    <2>1. failures \in Nat /\ failures' \in Nat
      BY FaultsNat
    <2> QED BY <2>1 DEF LoginInv, Refused
  <1> QED BY <1>2, <1>3

\* A login that has ended well, or was cut off.
LEMMA Closed ==
    ASSUME NEW k \in Clients, call'[k] = Idle, outcome'[k] \in {"ok", "cut off"}
    PROVE  Handled(k)' /\ Refused(k)'
  <1>1. call'[k].step = "idle"
    <2>1. Idle.step = "idle"
      BY DEF Idle
    <2> QED BY <2>1
  <1>2. outcome'[k] \notin {"unauthorized", "error"}
    OBVIOUS
  <1> QED BY <1>1, <1>2 DEF Handled, Refused

LEMMA LoginNext ==
    ASSUME ServerTypes, ServerTypes', SeedInv, SeedInv', LoginInv, [ServerNext]_lifecycle
    PROVE  LoginInv'
  <1>0. failures \in Nat /\ failures' \in Nat /\ keys \in Nat
    BY FaultsNat DEF ServerTypes
  <1>1. ASSUME NEW s \in Servers, Run(s), NEW k \in Clients PROVE Handled(k)' /\ Refused(k)'
    <2>1. failures <= failures'
      BY <1>0, <1>1, RunShape DEF Works, Errs
    <2> QED BY <1>1, <2>1, RunShape, Kept DEF RunFrame
  <1>2. ASSUME NEW s \in Servers, Signal(s), NEW k \in Clients PROVE Handled(k)' /\ Refused(k)'
    BY <1>0, <1>2, Kept DEF Signal, database
  <1>3. ASSUME NEW s \in Servers, Die(s), NEW k \in Clients PROVE Handled(k)' /\ Refused(k)'
    <2>1. CASE k \in CallsAt(s)
      <3>1. call'[k] = Idle /\ outcome'[k] = "cut off"
        BY <1>3, <2>1 DEF Die, CutOff
      <3> QED BY <3>1, Closed
    <2>2. CASE k \notin CallsAt(s)
      <3>1. call'[k] = call[k] /\ outcome'[k] = outcome[k]
        BY <1>3, <2>2 DEF Die, CutOff
      <3>2. seed' = seed /\ keys' = keys /\ unready' = unready /\ failures' = failures
        BY <1>3 DEF Die, database
      <3> QED BY <1>0, <3>1, <3>2, Kept
    <2> QED BY <2>1, <2>2
  <1>4. ASSUME NEW l \in Clients, NEW s \in Servers, Login(l, s), NEW k \in Clients
        PROVE  Handled(k)' /\ Refused(k)'
    <2>1. seed' = seed /\ keys' = keys /\ failures' = failures
      BY <1>4 DEF Login, database
    <2>2. "user" \in seed
      BY <1>4 DEF Login, SeedInv, UpHasUser, Up
    <2>3. CASE k = l
      <3>1. call'[k].step = "auth" /\ outcome'[k] = "none"
        BY <1>4, <2>3 DEF Login, ServerTypes
      <3>2. k \in unready' \/ Seeded
        BY <1>4, <2>3 DEF Login
      <3> QED BY <2>1, <2>2, <3>1, <3>2 DEF Handled, Refused, Seeded
    <2>4. CASE k # l
      <3>1. call'[k] = call[k] /\ outcome'[k] = outcome[k] /\ (k \in unready <=> k \in unready')
        BY <1>4, <2>4 DEF Login, ServerTypes
      <3> QED BY <2>1, <3>1 DEF LoginInv, Handled, Refused, Seeded
    <2> QED BY <2>3, <2>4
  <1>5. ASSUME NEW l \in Clients, Handle(l), NEW k \in Clients
        PROVE  Handled(k)' /\ Refused(k)'
    <2>1. seed' = seed /\ keys' = keys /\ unready' = unready /\ failures <= failures'
      BY <1>0, <1>5 DEF Handle, Auth, Viewer, database, Works, Errs
    <2>2. CASE k # l
      <3>1. call'[k] = call[k] /\ outcome'[k] = outcome[k]
        BY <1>5, <2>2 DEF Handle, Auth, Viewer, Answer, ServerTypes
      <3> QED BY <2>1, <3>1, Kept
    <2>3. CASE k = l /\ Auth(l)
      <3>1. outcome[k] = "none" /\ "user" \in seed /\ (k \in unready \/ Seeded)
        BY <2>3 DEF LoginInv, Handled, Auth
      <3>2. CASE keys > 0 /\ call' = [call EXCEPT ![l].step = "viewer"] /\ outcome' = outcome
        <4>1. call'[k].step = "viewer" /\ outcome'[k] = "none"
          <5>1. call[k] \in [server: Servers, step: {"auth", "viewer"}]
            <6>1. call[k] \in [server: Servers, step: {"auth", "viewer"}] \cup {Idle}
              BY DEF ServerTypes
            <6>2. call[k].step # Idle.step
              BY <2>3 DEF Auth, Idle
            <6> QED BY <6>1, <6>2
          <5>2. call' = [call EXCEPT ![k] = [call[k] EXCEPT !.step = "viewer"]]
            BY <3>2, <2>3
          <5>3. call'[k] = [call[k] EXCEPT !.step = "viewer"]
            BY <5>2 DEF ServerTypes
          <5> QED BY <3>1, <3>2, <5>1, <5>3
        <4> QED BY <1>0, <2>1, <3>1, <3>2, <4>1 DEF Handled, Refused, Seeded
      <3>3. CASE Answer(l, "unauthorized") /\ (keys = 0 \/ Errs)
        <4>1. call'[k] = Idle /\ outcome'[k] = "unauthorized"
          BY <2>3, <3>3 DEF Answer, ServerTypes
        <4>2. keys = 0 => k \in unready
          BY <3>1 DEF Seeded
        <4>3. Errs => failures' # 0
          BY <1>0 DEF Errs
        <4> QED BY <2>1, <3>1, <3>3, <4>1, <4>2, <4>3 DEF Handled, Refused, Idle
      <3> QED BY <2>3, <3>2, <3>3 DEF Auth
    <2>4. CASE k = l /\ Viewer(l)
      <3>1. seed = Account
        BY <2>4 DEF LoginInv, Handled, Viewer, SeedInv, KeyLast
      <3>2. CASE Answer(l, "ok")
        BY <2>4, <3>2, Closed DEF Answer, ServerTypes
      <3>3. CASE Answer(l, "error") /\ Errs
        <4>1. call'[k] = Idle /\ outcome'[k] = "error"
          BY <2>4, <3>3 DEF Answer, ServerTypes
        <4>2. failures' > 0
          BY <1>0, <3>3 DEF Errs
        <4> QED BY <4>1, <4>2 DEF Handled, Refused, Idle
      <3> QED BY <2>4, <3>1, <3>2, <3>3 DEF Viewer, Account
    <2> QED BY <1>5, <2>2, <2>3, <2>4 DEF Handle
  <1>6. ASSUME UNCHANGED lifecycle, NEW k \in Clients PROVE Handled(k)' /\ Refused(k)'
    BY <1>6 DEF lifecycle, database, LoginInv, Handled, Refused, Seeded
  <1> QED BY <1>1, <1>2, <1>3, <1>4, <1>5, <1>6 DEF ServerNext, LoginInv

(***************************************************************************)
(* The theorem.                                                            *)
(***************************************************************************)
LEMMA ServerInitInv ==
    ASSUME ServerInit
    PROVE  ServerInv
  <1>1. MaxFailures \in Nat /\ MaxDeaths \in Nat
    BY LifecycleAssumption DEF LifecycleAssumption
  <1>2. ServerTypes
    <2>1. cut \in BOOLEAN
      BY Zenon DEF ServerInit
    <2>a. Objects \in Nat \ {0} /\ 1 \in 1..Objects /\ 0 \in 0..Objects
      BY LifecycleAssumption DEF LifecycleAssumption
    <2>2. failures \in 0..MaxFailures /\ deaths \in 0..MaxDeaths
      BY <1>1 DEF ServerInit
    <2> QED BY <2>1, <2>a, <2>2 DEF ServerInit, ServerTypes, Phases
  <1>5. SchemaReady
    BY DEF ServerInit, SchemaReady
  <1>3. SeedInv
    BY DEF ServerInit, SeedInv, OneSeeds, Stages, UserFirst, KeyLast, Explained, UpHasUser, Seeding, Up
  <1>4. LoginInv
    BY DEF ServerInit, LoginInv, Handled, Refused, Idle
  <1> QED BY <1>2, <1>3, <1>4, <1>5 DEF ServerInv

LEMMA ServerInvHolds ==
    ASSUME ServerInv
    PROVE  SeedHolds
  <1> USE DEF ServerInv
  <1>1. keys \in Nat
    BY DEF ServerTypes
  <1>2. SeededOnce
    <2> DEFINE busy == {s \in Servers : phase[s] \in Seeding}
    <2>1. keys <= 1 /\ (keys = 1 => Seeded /\ ~\E s \in Servers : phase[s] \in Seeding)
      BY <1>1 DEF SeedInv, KeyLast, Seeded, Account
    <2>2. busy = {} \/ \E s \in Servers : busy = {s}
      BY DEF SeedInv, OneSeeds
    <2>3. Cardinality(busy) = 0 \/ Cardinality(busy) = 1
      <3> HIDE DEF busy
      <3>1. CASE busy = {}
        BY <3>1, FS_EmptySet
      <3>2. ASSUME NEW s \in Servers, busy = {s} PROVE Cardinality(busy) = 1
        BY <3>2, FS_Singleton
      <3> QED BY <2>2, <3>1, <3>2
    <2>4. Cardinality(busy) <= 1
      <3>1. PICK n : n = Cardinality(busy)
        OBVIOUS
      <3> QED BY <2>3, <3>1
    <2> QED BY <2>1, <2>4 DEF SeededOnce
  <1>3. KeyWorks
    BY DEF KeyWorks, SeedInv, UpHasUser, Explained, Up
  <1>4. LoginExplained
    BY DEF LoginExplained, LoginInv, Refused, SeedInv, Explained
  <1> QED BY <1>2, <1>3, <1>4 DEF SeedHolds

\* However many servers start, migrate, seed, stop and die in whatever order:
\* none seeds or serves before the schema is complete, the account of
\* SeedDefaults is stored once, and a login is refused only for what SeedHolds
\* allows.
THEOREM AccountHolds == ServerSpec => []SeedHolds
  <1>1. ServerInit => ServerInv
    BY ServerInitInv
  <1>2. ServerInv /\ [ServerNext]_lifecycle => ServerInv'
    BY ServerTypeNext, ReadyNext, SeedNext, LoginNext DEF ServerInv
  <1>3. ServerInv => SeedHolds
    BY ServerInvHolds
  <1> QED BY <1>1, <1>2, <1>3, PTL DEF ServerSpec

====
