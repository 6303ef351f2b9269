------------------------ MODULE ArtifactAliasesProof ------------------------
(***************************************************************************)
(* Proofs about ArtifactAliases, for every set of requests, versions,      *)
(* collections and alias lists, every number of overlapping requests and   *)
(* every number of failing statements.                                     *)
(***************************************************************************)
EXTENDS ArtifactAliases, FiniteSetTheorems, TLAPS

(***************************************************************************)
(* Where a request is and what it holds there.                             *)
(***************************************************************************)
Locals == [todo: SUBSET Key, cur: Key \cup {None}, held: SUBSET [key: Key, by: Requests], count: 0..MaxVersion]

\* The statements of an operation.
StepOf(s, op) ==
    /\ s \in {"commit", "drop latest", "put latest", "find version", "put version"} => op = "commit"
    /\ s \in {"read aliases", "drop held", "set"} => op = "update"
    /\ s \in {"add", "insert"} => op = "add"
    /\ s = "remove" => op = "remove"
    /\ s = "unlink" => op = "unlink"
    /\ s \in {"drop aliases", "mark deleted"} => op = "delete"
    /\ s \in {"type", "new type", "portfolio", "new portfolio", "count", "linked", "put link",
              "find alias", "put alias", "move alias"} => op = "link"

InPlace == {"count", "linked", "put link", "find alias", "put alias", "move alias"}

\* What the locals l may be at statement s of a request with input i, when
\* the collections c exist.
Fits(i, c, s, l) ==
    /\ s \in Steps /\ l \in Locals
    /\ s # "idle" => i \in Input /\ WellFormed(i)
    /\ s \in Working => StepOf(s, i.op) /\ l.todo \subseteq i.list
    /\ s \notin Working => l = NoLocals
    /\ s = "insert" => l.cur \in l.todo /\ l.cur[2] # Latest /\ l.cur[1] \in c
    /\ s = "put alias" => l.cur \in i.list
    /\ s = "move alias" => \A h \in l.held : \E k \in i.list : h.key = <<i.coll, k[2]>>
    /\ s = "drop held" => \A h \in l.held : h.key[2] \notin AutoManaged
    /\ s \notin {"drop held", "move alias"} => l.held = {}
    /\ s \in InPlace => i.coll \in c

Placed == \A r \in Requests : Fits(req[r], colls, pc[r], local[r])

\* The type invariant as it is inductive.
RowsOK ==
    /\ state \in [Arts -> {"PENDING", "COMMITTED", "DELETED"}]
    /\ colls \subseteq Colls /\ Sequences \subseteq colls
    /\ linkable \in BOOLEAN
    /\ aliases \in [Key -> Row \cup {None}]
    /\ IsFiniteSet({k \in Key : Taken(k)})

ControlOK ==
    /\ pc \in [Requests -> Steps]
    /\ req \in [Requests -> Input \cup {None}]
    /\ local \in [Requests -> Locals]
    /\ before \in [Requests -> SUBSET Requests]
    /\ faults \in 0..MaxFaults

TypeInv == RowsOK /\ ControlOK /\ Placed

(***************************************************************************)
(* The constants.                                                          *)
(***************************************************************************)
LEMMA KeyType ==
    /\ \A k \in Key : k = <<k[1], k[2]>> /\ k[1] \in Colls /\ k[2] \in Names
    /\ \A c \in Colls, n \in Names : <<c, n>> \in Key
    /\ Latest \in Names /\ \A n \in 0..MaxVersion : V(n) \in Names
  BY DEF Key, Names

LEMMA NoneIsNoRow == None \notin Key /\ None \notin Row /\ None \notin Requests
  BY AliasAssumption DEF AliasAssumption

LEMMA ArtKeys ==
    ASSUME NEW a \in Arts
    PROVE  /\ SequenceOf[a] \in Sequences /\ SequenceOf[a] \in Colls
           /\ <<SequenceOf[a], Latest>> \in Key
           /\ <<SequenceOf[a], V(VersionOf[a])>> \in Key
  BY AliasAssumption, KeyType DEF AliasAssumption, Colls

LEMMA InputType ==
    ASSUME NEW i \in Input, WellFormed(i)
    PROVE  /\ i.op \in Operations /\ i.art \in Arts /\ i.list \subseteq Key /\ i.drop \in BOOLEAN
           /\ i.coll \in Colls
           /\ i.op \in {"commit", "update", "add", "remove", "link", "unlink", "delete"}
  BY AliasAssumption DEF AliasAssumption, Input

LEMMA NoLocalsType == NoLocals \in Locals
  BY AliasAssumption DEF AliasAssumption, NoLocals, Locals

(***************************************************************************)
(* What a step does to its request.                                        *)
(***************************************************************************)
\* The request r goes on to a statement and locals that fit.
Moves(r) ==
    \E s \in Steps \ {"idle"}, l \in Locals :
        Set(r, s, l) /\ Fits(req[r], colls', s, l)

\* Nothing else of it changes, and no collection goes away.
Frame(r) ==
    /\ pc[r] \in Working
    /\ req' = req /\ before' = before
    /\ colls' \subseteq Colls /\ colls \subseteq colls'
    /\ linkable' \in BOOLEAN
    /\ Succeeds \/ Fails

LEMMA FinishMoves ==
    ASSUME TypeInv, NEW r \in Requests, NEW s \in {"done", "failed"}, pc[r] \in Working, Finish(r, s)
    PROVE  Moves(r)
  <1>1. Fits(req[r], colls, pc[r], local[r])
    BY DEF TypeInv, Placed
  <1>2. req[r] \in Input /\ WellFormed(req[r])
    BY <1>1 DEF Fits, Working
  <1>3. Fits(req[r], colls', s, NoLocals)
    BY <1>2, NoLocalsType DEF Fits, Steps, Working, InPlace, NoLocals
  <1> QED BY <1>3, NoLocalsType DEF Finish, Moves, Steps, Working

LEMMA SetMoves ==
    ASSUME TypeInv, NEW r \in Requests, pc[r] \in Working, NEW s \in Working, NEW l \in Locals, Set(r, s, l),
           StepOf(s, req[r].op), l.todo \subseteq req[r].list,
           s = "insert" => l.cur \in l.todo /\ l.cur[2] # Latest /\ l.cur[1] \in colls',
           s = "put alias" => l.cur \in req[r].list,
           s = "move alias" => \A h \in l.held : \E k \in req[r].list : h.key = <<req[r].coll, k[2]>>,
           s = "drop held" => \A h \in l.held : h.key[2] \notin AutoManaged,
           s \notin {"drop held", "move alias"} => l.held = {},
           s \in InPlace => req[r].coll \in colls'
    PROVE  Moves(r)
  <1>1. Fits(req[r], colls, pc[r], local[r])
    BY DEF TypeInv, Placed
  <1>2. req[r] \in Input /\ WellFormed(req[r])
    BY <1>1 DEF Fits, Working
  <1>3. Fits(req[r], colls', s, l)
    BY <1>2 DEF Fits, Steps
  <1>4. s \in Steps \ {"idle"}
    BY DEF Steps, Working
  <1> QED BY <1>3, <1>4 DEF Moves

LEMMA GotoIsSet ==
    ASSUME TypeInv, NEW r \in Requests, NEW s, Goto(r, s)
    PROVE  Set(r, s, local[r])
  BY DEF TypeInv, ControlOK, Goto, Set

\* What is known of a request at work.
LEMMA AtWork ==
    ASSUME TypeInv, NEW r \in Requests, pc[r] \in Working
    PROVE  /\ req[r] \in Input /\ WellFormed(req[r])
           /\ local[r] \in Locals
           /\ StepOf(pc[r], req[r].op) /\ local[r].todo \subseteq req[r].list
           /\ Fits(req[r], colls, pc[r], local[r])
           /\ req[r].art \in Arts /\ req[r].list \subseteq Key /\ req[r].coll \in Colls
  <1>1. Fits(req[r], colls, pc[r], local[r])
    BY DEF TypeInv, Placed
  <1>2. req[r] \in Input /\ WellFormed(req[r])
    BY <1>1 DEF Fits, Working
  <1> QED BY <1>1, <1>2, InputType DEF Fits, Working

LEMMA RestType ==
    ASSUME TypeInv, NEW r \in Requests, NEW k
    PROVE  /\ Rest(r, k) \in Locals
           /\ Rest(r, k).todo = local[r].todo \ {k} /\ Rest(r, k).held = local[r].held
           /\ Rest(r, k).count = local[r].count
  <1>1. local[r] \in Locals
    BY DEF TypeInv, ControlOK
  <1> QED BY <1>1 DEF Rest, Locals

\* A step to another statement of the same operation that needs no more.
Plain == {"drop latest", "put latest", "find version", "put version", "mark deleted", "add", "remove",
          "new type", "portfolio", "new portfolio"}

LEMMA GotoPlain ==
    ASSUME TypeInv, NEW r \in Requests, pc[r] \in Working \ {"drop held", "move alias"},
           NEW s \in Plain, Goto(r, s), StepOf(s, req[r].op)
    PROVE  Moves(r)
  <1>1. Set(r, s, local[r]) /\ s \in Working
    BY GotoIsSet DEF Plain, Working
  <1>2. local[r] \in Locals /\ local[r].todo \subseteq req[r].list /\ local[r].held = {}
    BY AtWork DEF Fits
  <1> QED BY <1>1, <1>2, SetMoves DEF Plain, InPlace

\* A step from one statement in the portfolio to another one.
LEMMA GotoInPlace ==
    ASSUME TypeInv, NEW r \in Requests, pc[r] \in Working, NEW s \in {"count", "linked", "put link", "find alias"},
           NEW l \in Locals, Set(r, s, l), l.todo \subseteq req[r].list, l.held = {}, req[r].op = "link",
           req[r].coll \in colls'
    PROVE  Moves(r)
  BY SetMoves DEF StepOf, InPlace, Working

(***************************************************************************)
(* One fact per action: its request moves.                                 *)
(***************************************************************************)
LEMMA CommitMoves ==
    ASSUME TypeInv, NEW r \in Requests,
           \/ CommitState(r) \/ DropLatest(r) \/ PutLatest(r) \/ FindVersion(r) \/ PutVersion(r)
    PROVE  Moves(r) /\ Frame(r)
  <1>1. pc[r] \in Working
    BY DEF CommitState, DropLatest, PutLatest, FindVersion, PutVersion, Working
  <1>2. StepOf(pc[r], req[r].op)
    BY <1>1, AtWork
  <1>3. req[r].op = "commit"
    BY <1>2 DEF CommitState, DropLatest, PutLatest, FindVersion, PutVersion, StepOf
  <1>4. \/ \E s \in {"drop latest", "put latest", "find version", "put version"} : Goto(r, s)
        \/ \E s \in {"done", "failed"} : Finish(r, s)
    BY DEF CommitState, DropLatest, PutLatest, FindVersion, PutVersion
  <1>5. Moves(r)
    <2>1. pc[r] \notin {"drop held", "move alias"}
      BY DEF CommitState, DropLatest, PutLatest, FindVersion, PutVersion
    <2> QED BY <1>1, <1>3, <1>4, <2>1, FinishMoves, GotoPlain DEF StepOf, Plain
  <1>6. Frame(r)
    <2>1. linkable' = linkable /\ colls' = colls /\ req' = req /\ before' = before /\ (Succeeds \/ Fails)
      BY DEF CommitState, DropLatest, PutLatest, FindVersion, PutVersion, Try, tables, Succeeds
    <2> QED BY <1>1, <2>1 DEF Frame, TypeInv, RowsOK
  <1> QED BY <1>5, <1>6

LEMMA DeleteMoves ==
    ASSUME TypeInv, NEW r \in Requests, DropAliases(r) \/ MarkDeleted(r)
    PROVE  Moves(r) /\ Frame(r)
  <1>1. pc[r] \in Working
    BY DEF DropAliases, MarkDeleted, Working
  <1>2. req[r].op = "delete"
    BY <1>1, AtWork DEF DropAliases, MarkDeleted, StepOf
  <1>3. Goto(r, "mark deleted") \/ \E s \in {"done", "failed"} : Finish(r, s)
    BY DEF DropAliases, MarkDeleted
  <1>4. Moves(r)
    BY <1>1, <1>2, <1>3, FinishMoves, GotoPlain DEF StepOf, Plain, DropAliases, MarkDeleted
  <1>5. linkable' = linkable /\ colls' = colls /\ req' = req /\ before' = before /\ (Succeeds \/ Fails)
    BY DEF DropAliases, MarkDeleted
  <1> QED BY <1>1, <1>4, <1>5 DEF Frame, TypeInv, RowsOK

LEMMA ListMoves ==
    ASSUME TypeInv, NEW r \in Requests,
           \/ AddCheck(r) \/ AddInsert(r) \/ Remove(r)
           \/ \E s \in {"add", "remove", "set", "find alias"} : EndOfList(r, s)
    PROVE  Moves(r) /\ Frame(r)
  <1>1. pc[r] \in Working
    BY DEF AddCheck, AddInsert, Remove, EndOfList, Working
  <1>2. /\ StepOf(pc[r], req[r].op) /\ local[r].todo \subseteq req[r].list /\ local[r] \in Locals
        /\ req[r].list \subseteq Key
        /\ pc[r] \notin {"drop held", "move alias"} => local[r].held = {}
    BY <1>1, AtWork DEF Fits
  <1>3. linkable' = linkable /\ colls' = colls /\ req' = req /\ before' = before /\ (Succeeds \/ Fails)
    BY DEF AddCheck, AddInsert, Remove, EndOfList, Try, tables, Succeeds
  <1>4. Frame(r)
    BY <1>1, <1>3 DEF Frame, TypeInv, RowsOK
  <1>5. CASE \E s \in {"done", "failed"} : Finish(r, s)
    BY <1>1, <1>4, <1>5, FinishMoves
  <1>6. CASE \E s \in {"add", "remove"}, k \in Key : pc[r] \in {"add", "insert", "remove"} /\ Set(r, s, Rest(r, k)) /\ StepOf(s, req[r].op)
    <2>1. PICK s \in {"add", "remove"}, k \in Key : Set(r, s, Rest(r, k)) /\ StepOf(s, req[r].op)
      BY <1>6
    <2>2. Rest(r, k) \in Locals /\ Rest(r, k).todo \subseteq req[r].list /\ Rest(r, k).held = {} /\ s \in Working
      BY <1>2, <1>6, RestType DEF Working
    <2> QED BY <1>1, <1>4, <2>1, <2>2, SetMoves DEF InPlace
  <1>7. CASE AddCheck(r) /\ \E k \in local[r].todo :
               k[2] # Latest /\ k[1] \in colls /\ Set(r, "insert", [local[r] EXCEPT !.cur = k])
    <2>1. PICK k \in local[r].todo :
               k[2] # Latest /\ k[1] \in colls /\ Set(r, "insert", [local[r] EXCEPT !.cur = k])
      BY <1>7
    <2> DEFINE l == [local[r] EXCEPT !.cur = k]
    <2>2. k \in req[r].list /\ k \in Key
      BY <1>2
    <2>3. l \in Locals /\ l.todo = local[r].todo /\ l.cur = k /\ l.held = {}
      BY <1>2, <1>7, <2>2 DEF Locals, AddCheck
    <2>4. StepOf("insert", req[r].op)
      BY <1>2, <1>7 DEF AddCheck, StepOf
    <2>5. k[1] \in colls' /\ l.todo \subseteq req[r].list
      BY <1>2, <1>3, <2>1, <2>3
    <2>6. Moves(r)
      BY <1>1, <2>1, <2>2, <2>3, <2>4, <2>5, SetMoves DEF InPlace, Working
    <2> QED BY <1>4, <2>6
  <1>8. \/ \E s \in {"done", "failed"} : Finish(r, s)
        \/ \E k \in local[r].todo : pc[r] = "add" /\ Set(r, "add", Rest(r, k))
        \/ pc[r] = "insert" /\ Set(r, "add", Rest(r, local[r].cur))
        \/ \E k \in local[r].todo : pc[r] = "remove" /\ Set(r, "remove", Rest(r, k))
        \/ AddCheck(r) /\ \E k \in local[r].todo :
               k[2] # Latest /\ k[1] \in colls /\ Set(r, "insert", [local[r] EXCEPT !.cur = k])
    BY DEF AddCheck, AddInsert, Remove, EndOfList
  <1>9. pc[r] = "insert" => local[r].cur \in Key
    BY <1>1, <1>2, AtWork DEF Fits
  <1> QED BY <1>2, <1>5, <1>6, <1>7, <1>8, <1>9 DEF StepOf

LEMMA UpdateMoves ==
    ASSUME TypeInv, NEW r \in Requests,
           ReadAliases(r) \/ DropHeld(r) \/ HeldDropped(r) \/ SetAlias(r)
    PROVE  Moves(r) /\ Frame(r)
  <1>1. pc[r] \in Working
    BY DEF ReadAliases, DropHeld, HeldDropped, SetAlias, Working
  <1>2. /\ StepOf(pc[r], req[r].op) /\ local[r].todo \subseteq req[r].list /\ local[r] \in Locals
        /\ req[r].list \subseteq Key
        /\ Fits(req[r], colls, pc[r], local[r])
    BY <1>1, AtWork
  <1>3. linkable' = linkable /\ colls' = colls /\ req' = req /\ before' = before /\ (Succeeds \/ Fails)
    BY DEF ReadAliases, DropHeld, HeldDropped, SetAlias, Try, tables, Succeeds
  <1>4. Frame(r)
    BY <1>1, <1>3 DEF Frame, TypeInv, RowsOK
  <1>5. req[r].op = "update"
    BY <1>2 DEF ReadAliases, DropHeld, HeldDropped, SetAlias, StepOf
  <1>6. CASE ReadAliases(r)
    <2> DEFINE keys == {x \in RowsOf(req[r].art) : x[2] \notin AutoManaged}
               l    == [local[r] EXCEPT !.held = {Held(k) : k \in keys}]
    <2>1. \A k \in keys : aliases[k] \in Row
      BY DEF TypeInv, RowsOK, RowsOf, Taken
    <2>2. {Held(k) : k \in keys} \subseteq [key: Key, by: Requests]
      BY <2>1 DEF Held, Row, RowsOf
    <2>3. l \in Locals /\ l.todo = local[r].todo /\ l.held = {Held(k) : k \in keys}
      BY <1>2, <2>2 DEF Locals
    <2>4. \A h \in l.held : h.key[2] \notin AutoManaged
      BY <2>3 DEF Held
    <2>5. ASSUME Set(r, "drop held", l) PROVE Moves(r)
      BY <1>1, <1>2, <1>5, <2>3, <2>4, <2>5, SetMoves DEF StepOf, InPlace, Working
    <2>6. ASSUME Goto(r, "drop held") PROVE Moves(r)
      <3>1. local[r].held = {}
        BY <1>2, <1>6 DEF ReadAliases, Fits
      <3> QED BY <1>1, <1>2, <1>5, <2>6, <3>1, GotoIsSet, SetMoves DEF StepOf, InPlace, Working
    <2> QED BY <1>4, <1>6, <2>5, <2>6 DEF ReadAliases
  <1>7. CASE DropHeld(r)
    <2>1. PICK h \in local[r].held : Set(r, "drop held", [local[r] EXCEPT !.held = @ \ {h}])
      BY <1>7 DEF DropHeld
    <2> DEFINE l == [local[r] EXCEPT !.held = @ \ {h}]
    <2>2. l \in Locals /\ l.todo = local[r].todo /\ l.held = local[r].held \ {h}
      BY <1>2 DEF Locals
    <2>3. \A g \in l.held : g.key[2] \notin AutoManaged
      BY <1>2, <1>7, <2>2 DEF DropHeld, Fits
    <2> QED BY <1>1, <1>2, <1>4, <1>5, <2>1, <2>2, <2>3, SetMoves DEF StepOf, InPlace, Working
  <1>8. CASE HeldDropped(r)
    BY <1>1, <1>2, <1>4, <1>5, <1>8, GotoIsSet, SetMoves DEF HeldDropped, StepOf, InPlace, Working
  <1>9. CASE SetAlias(r)
    <2>1. Finish(r, "failed") \/ \E k \in Key : Set(r, "set", Rest(r, k))
      BY <1>2, <1>9 DEF SetAlias
    <2>2. ASSUME NEW k \in Key, Set(r, "set", Rest(r, k)) PROVE Moves(r)
      <3>1. Rest(r, k) \in Locals /\ Rest(r, k).todo \subseteq req[r].list /\ Rest(r, k).held = {}
        BY <1>2, <1>9, RestType DEF SetAlias, Fits
      <3> QED BY <1>1, <1>5, <2>2, <3>1, SetMoves DEF StepOf, InPlace, Working
    <2> QED BY <1>1, <1>4, <2>1, <2>2, FinishMoves
  <1> QED BY <1>6, <1>7, <1>8, <1>9

LEMMA PortfolioMoves ==
    ASSUME TypeInv, NEW r \in Requests,
           FindPortfolioType(r) \/ NewPortfolioType(r) \/ FindPortfolio(r) \/ NewPortfolio(r) \/ Unlink(r)
    PROVE  Moves(r) /\ Frame(r)
  <1>1. pc[r] \in Working \ {"drop held", "move alias"}
    BY DEF FindPortfolioType, NewPortfolioType, FindPortfolio, NewPortfolio, Unlink, Working
  <1>2. /\ StepOf(pc[r], req[r].op) /\ local[r].todo \subseteq req[r].list /\ local[r] \in Locals
        /\ local[r].held = {} /\ req[r].coll \in Colls
    BY <1>1, AtWork DEF Fits
  <1>3. Frame(r)
    <2>1. linkable' = linkable \/ linkable' = TRUE
      BY DEF FindPortfolioType, NewPortfolioType, FindPortfolio, NewPortfolio, Unlink, tables
    <2>2. linkable' \in BOOLEAN
      BY <2>1, Zenon DEF TypeInv, RowsOK
    <2>3. colls' = colls \/ colls' = colls \cup {req[r].coll}
      BY DEF FindPortfolioType, NewPortfolioType, FindPortfolio, NewPortfolio, Unlink, tables
    <2>4. req' = req /\ before' = before /\ (Succeeds \/ Fails)
      BY DEF FindPortfolioType, NewPortfolioType, FindPortfolio, NewPortfolio, Unlink
    <2> QED BY <1>1, <1>2, <2>2, <2>3, <2>4 DEF Frame, TypeInv, RowsOK
  <1>4. CASE \E s \in {"done", "failed"} : Finish(r, s)
    BY <1>1, <1>3, <1>4, FinishMoves
  <1>5. ASSUME req[r].op = "link", NEW s \in {"new type", "portfolio", "new portfolio"}, Goto(r, s)
        PROVE  Moves(r) /\ Frame(r)
    BY <1>1, <1>3, <1>5, GotoPlain DEF StepOf, Plain
  <1>6. ASSUME req[r].op = "link", req[r].coll \in colls', Goto(r, "count")
        PROVE  Moves(r) /\ Frame(r)
    BY <1>1, <1>2, <1>3, <1>6, GotoIsSet, GotoInPlace
  <1>7. \/ \E s \in {"done", "failed"} : Finish(r, s)
        \/ pc[r] \in {"type", "new type", "portfolio", "new portfolio"} /\ \E s \in {"new type", "portfolio", "new portfolio"} : Goto(r, s)
        \/ pc[r] \in {"portfolio", "new portfolio"} /\ req[r].coll \in colls' /\ Goto(r, "count")
    BY DEF FindPortfolioType, NewPortfolioType, FindPortfolio, NewPortfolio, Unlink, tables
  <1> QED BY <1>2, <1>4, <1>5, <1>6, <1>7 DEF StepOf

LEMMA RowsInFinite ==
    ASSUME TypeInv, NEW c
    PROVE  IsFiniteSet(RowsIn(c)) /\ Cardinality(RowsIn(c)) \in Nat
  <1>1. RowsIn(c) \subseteq {k \in Key : Taken(k)} /\ IsFiniteSet({k \in Key : Taken(k)})
    BY DEF RowsIn, TypeInv, RowsOK
  <1>2. IsFiniteSet(RowsIn(c))
    BY <1>1, FS_Subset
  <1> QED BY <1>2, FS_CardinalityType

LEMMA NumberMoves ==
    ASSUME TypeInv, NEW r \in Requests, Count(r) \/ Linked(r) \/ PutLink(r)
    PROVE  Moves(r) /\ Frame(r)
  <1>1. pc[r] \in Working
    BY DEF Count, Linked, PutLink, Working
  <1>2. /\ StepOf(pc[r], req[r].op) /\ local[r].todo \subseteq req[r].list /\ local[r] \in Locals
        /\ local[r].held = {} /\ req[r].coll \in colls
    BY <1>1, AtWork DEF Fits, Count, Linked, PutLink, InPlace
  <1>3. linkable' = linkable /\ colls' = colls /\ req' = req /\ before' = before /\ (Succeeds \/ Fails)
    BY DEF Count, Linked, PutLink, Try, tables, Succeeds
  <1>4. Frame(r)
    BY <1>1, <1>3 DEF Frame, TypeInv, RowsOK
  <1>5. req[r].op = "link"
    BY <1>2 DEF Count, Linked, PutLink, StepOf
  <1>6. ASSUME NEW s \in {"linked", "put link", "find alias"}, Goto(r, s) PROVE Moves(r)
    BY <1>1, <1>2, <1>3, <1>5, <1>6, GotoIsSet, GotoInPlace
  <1>7. ASSUME Cardinality(RowsIn(req[r].coll)) <= MaxVersion,
               Set(r, "linked", [local[r] EXCEPT !.count = Cardinality(RowsIn(req[r].coll))])
        PROVE  Moves(r)
    <2> DEFINE l == [local[r] EXCEPT !.count = Cardinality(RowsIn(req[r].coll))]
    <2>1. Cardinality(RowsIn(req[r].coll)) \in 0..MaxVersion
      BY <1>7, RowsInFinite, AliasAssumption DEF AliasAssumption
    <2>2. l \in Locals /\ l.todo = local[r].todo /\ l.held = {}
      BY <1>2, <2>1 DEF Locals
    <2> QED BY <1>1, <1>2, <1>3, <1>5, <1>7, <2>2, GotoInPlace
  <1> QED BY <1>1, <1>4, <1>6, <1>7, FinishMoves DEF Count, Linked, PutLink

LEMMA AliasMoves ==
    ASSUME TypeInv, NEW r \in Requests, FindAlias(r) \/ PutAlias(r) \/ MoveAlias(r)
    PROVE  Moves(r) /\ Frame(r)
  <1>1. pc[r] \in Working
    BY DEF FindAlias, PutAlias, MoveAlias, Working
  <1>2. /\ StepOf(pc[r], req[r].op) /\ local[r].todo \subseteq req[r].list /\ local[r] \in Locals
        /\ req[r].coll \in colls /\ req[r].coll \in Colls /\ req[r].list \subseteq Key
        /\ pc[r] # "move alias" => local[r].held = {}
    BY <1>1, AtWork DEF Fits, FindAlias, PutAlias, MoveAlias, InPlace
  <1>3. linkable' = linkable /\ colls' = colls /\ req' = req /\ before' = before /\ (Succeeds \/ Fails)
    BY DEF FindAlias, PutAlias, MoveAlias, Try, tables, Succeeds
  <1>4. Frame(r)
    BY <1>1, <1>3 DEF Frame, TypeInv, RowsOK
  <1>5. req[r].op = "link"
    BY <1>2 DEF FindAlias, PutAlias, MoveAlias, StepOf
  <1>6. ASSUME NEW k, local[r].held = {}, Set(r, "find alias", Rest(r, k)) PROVE Moves(r)
    <2>1. Rest(r, k) \in Locals /\ Rest(r, k).todo \subseteq req[r].list /\ Rest(r, k).held = {}
      BY <1>2, <1>6, RestType
    <2> QED BY <1>1, <1>2, <1>3, <1>5, <1>6, <2>1, GotoInPlace
  <1>7. CASE FindAlias(r)
    <2>1. PICK k \in local[r].todo :
            \/ Set(r, "put alias", [local[r] EXCEPT !.cur = k])
            \/ /\ Taken(InPortfolio(r, k))
               /\ Set(r, "move alias", [local[r] EXCEPT !.cur = k, !.held = {Held(InPortfolio(r, k))}])
            \/ Set(r, "find alias", Rest(r, k))
      BY <1>7 DEF FindAlias
    <2>2. k \in req[r].list /\ k \in Key /\ local[r].held = {}
      BY <1>2, <1>7 DEF FindAlias
    <2>3. ASSUME Set(r, "put alias", [local[r] EXCEPT !.cur = k]) PROVE Moves(r)
      <3> DEFINE l == [local[r] EXCEPT !.cur = k]
      <3>1. l \in Locals /\ l.todo = local[r].todo /\ l.cur = k /\ l.held = {}
        BY <1>2, <2>2 DEF Locals
      <3> QED BY <1>1, <1>2, <1>3, <1>5, <2>2, <2>3, <3>1, SetMoves DEF StepOf, InPlace, Working
    <2>4. ASSUME Taken(InPortfolio(r, k)),
                 Set(r, "move alias", [local[r] EXCEPT !.cur = k, !.held = {Held(InPortfolio(r, k))}])
          PROVE  Moves(r)
      <3> DEFINE p == InPortfolio(r, k)
                 l == [local[r] EXCEPT !.cur = k, !.held = {Held(p)}]
      <3>1. p \in Key
        BY <1>2, <2>2, KeyType DEF InPortfolio
      <3>2. aliases[p] \in Row
        BY <2>4, <3>1 DEF TypeInv, RowsOK, Taken
      <3>3. Held(p) \in [key: Key, by: Requests] /\ Held(p).key = p
        BY <3>1, <3>2 DEF Held, Row
      <3>4. l \in Locals /\ l.todo = local[r].todo /\ l.held = {Held(p)}
        BY <1>2, <2>2, <3>3 DEF Locals
      <3>5. \A h \in l.held : \E x \in req[r].list : h.key = <<req[r].coll, x[2]>>
        BY <2>2, <3>3, <3>4 DEF InPortfolio
      <3> QED BY <1>1, <1>2, <1>3, <1>5, <2>4, <3>4, <3>5, SetMoves DEF StepOf, InPlace, Working
    <2> QED BY <1>4, <1>6, <2>1, <2>2, <2>3, <2>4
  <1>8. CASE PutAlias(r)
    BY <1>2, <1>4, <1>6, <1>8 DEF PutAlias
  <1>9. CASE MoveAlias(r)
    <2> DEFINE l == [Rest(r, local[r].cur) EXCEPT !.held = {}]
    <2>1. Rest(r, local[r].cur) \in Locals /\ Rest(r, local[r].cur).todo \subseteq req[r].list
      BY <1>2, RestType
    <2>2. l \in Locals /\ l.todo \subseteq req[r].list /\ l.held = {}
      BY <2>1 DEF Locals
    <2>3. Set(r, "find alias", l)
      BY <1>9 DEF MoveAlias
    <2> QED BY <1>1, <1>2, <1>3, <1>4, <1>5, <2>2, <2>3, GotoInPlace
  <1> QED BY <1>7, <1>8, <1>9

LEMMA LookupMoves ==
    ASSUME TypeInv, NEW r \in Requests, LookupFails(r)
    PROVE  Moves(r) /\ Frame(r)
  <1>1. pc[r] \in Working /\ Finish(r, "failed") /\ Fails
        /\ linkable' = linkable /\ colls' = colls /\ req' = req /\ before' = before
    BY DEF LookupFails, tables
  <1> QED BY <1>1, FinishMoves DEF Frame, TypeInv, RowsOK

LEMMA StepMoves ==
    ASSUME TypeInv, NEW r \in Requests, Step(r)
    PROVE  Moves(r) /\ Frame(r)
  BY CommitMoves, DeleteMoves, ListMoves, UpdateMoves, PortfolioMoves, NumberMoves, AliasMoves, LookupMoves DEF Step

(***************************************************************************)
(* What a step does to the aliases.                                        *)
(***************************************************************************)
\* The request may insert a row at k.
Adds(r, k) ==
    /\ k[1] \in colls
    /\ \/ pc[r] = "put latest" /\ k = LatestKey(r)
       \/ pc[r] = "put version" /\ k = VersionKey(r)
       \/ pc[r] = "set" /\ k \in req[r].list /\ k[2] \notin AutoManaged
       \/ pc[r] = "insert" /\ k \in req[r].list /\ k[2] # Latest
       \/ pc[r] = "put link" /\ k = LinkKey(r)
       \/ pc[r] = "put alias" /\ k[1] = req[r].coll /\ \E x \in req[r].list : x[2] = k[2]

\* The request may take away the row at k.
Drops(r, k) ==
    \/ pc[r] = "drop latest" /\ k = LatestKey(r)
    \/ pc[r] = "remove" /\ k \in req[r].list /\ aliases[k].art = req[r].art
    \/ pc[r] = "drop aliases" /\ req[r].drop /\ aliases[k].art = req[r].art
    \/ pc[r] = "unlink" /\ k[1] = req[r].coll /\ aliases[k].art = req[r].art
    \/ pc[r] = "drop held" /\ \E h \in local[r].held : h.key = k /\ aliases[k].by = h.by

\* The request may move the row at k to its own artifact.
Steals(r, k) ==
    /\ pc[r] = "move alias"
    /\ k[1] = req[r].coll /\ \E x \in req[r].list : x[2] = k[2]

Writes(r) ==
    /\ aliases' \in [Key -> Row \cup {None}]
    /\ \A k \in Key :
          \/ aliases'[k] = aliases[k]
          \/ ~Taken(k) /\ aliases'[k] = [by |-> r, art |-> req[r].art] /\ Adds(r, k)
          \/ Taken(k) /\ aliases'[k] = None /\ Drops(r, k)
          \/ Taken(k) /\ aliases'[k] = [by |-> aliases[k].by, art |-> req[r].art] /\ Steals(r, k)
    /\ \E n : \A k \in Key : k # n /\ aliases'[k] # None => Taken(k)

LEMMA NoWrite ==
    ASSUME TypeInv, NEW r \in Requests, aliases' = aliases
    PROVE  Writes(r)
  BY DEF TypeInv, RowsOK, Writes, Taken

LEMMA InsertWrites ==
    ASSUME TypeInv, NEW r \in Requests, pc[r] \in Working, NEW k \in Key, Insert(r, k), Adds(r, k)
    PROVE  Writes(r)
  <1>1. req[r].art \in Arts
    BY AtWork
  <1>2. aliases \in [Key -> Row \cup {None}] /\ [by |-> r, art |-> req[r].art] \in Row
    BY <1>1 DEF TypeInv, RowsOK, Row
  <1>3. CASE Taken(k)
    BY <1>3, NoWrite DEF Insert
  <1>4. CASE ~Taken(k)
    <2>1. aliases' = [aliases EXCEPT ![k] = [by |-> r, art |-> req[r].art]]
      BY <1>4 DEF Insert
    <2>2. aliases' \in [Key -> Row \cup {None}] /\ aliases'[k] = [by |-> r, art |-> req[r].art]
          /\ \A x \in Key \ {k} : aliases'[x] = aliases[x]
      BY <1>2, <2>1
    <2> QED BY <1>4, <2>2 DEF Writes, Taken
  <1> QED BY <1>3, <1>4

LEMMA DeleteWrites ==
    ASSUME TypeInv, NEW r \in Requests, NEW keys, Delete(keys),
           \A k \in Key \cap keys : Taken(k) => Drops(r, k)
    PROVE  Writes(r)
  <1>1. aliases \in [Key -> Row \cup {None}]
    BY DEF TypeInv, RowsOK
  <1>2. aliases' = [k \in Key |-> IF k \in keys THEN None ELSE aliases[k]]
    BY DEF Delete
  <1>3. aliases' \in [Key -> Row \cup {None}]
    BY <1>1, <1>2
  <1>4. \A k \in Key : aliases'[k] = IF k \in keys THEN None ELSE aliases[k]
    BY <1>2
  <1> QED BY <1>3, <1>4 DEF Writes, Taken

LEMMA CommitWrites ==
    ASSUME TypeInv, NEW r \in Requests,
           \/ CommitState(r) \/ DropLatest(r) \/ PutLatest(r) \/ FindVersion(r) \/ PutVersion(r)
    PROVE  Writes(r)
  <1>1. pc[r] \in Working
    BY DEF CommitState, DropLatest, PutLatest, FindVersion, PutVersion, Working
  <1>2. /\ LatestKey(r) \in Key /\ VersionKey(r) \in Key
        /\ LatestKey(r)[1] \in colls /\ VersionKey(r)[1] \in colls
    BY <1>1, AtWork, ArtKeys DEF LatestKey, VersionKey, Own, TypeInv, RowsOK
  <1>3. CASE aliases' = aliases
    BY <1>3, NoWrite
  <1>4. CASE DropLatest(r)
    BY <1>3, <1>4, DeleteWrites DEF DropLatest, Try, Drops
  <1>5. CASE PutLatest(r)
    BY <1>1, <1>2, <1>3, <1>5, InsertWrites DEF PutLatest, Try, Adds
  <1>6. CASE PutVersion(r)
    BY <1>1, <1>2, <1>3, <1>6, InsertWrites DEF PutVersion, Try, Adds
  <1>7. CASE CommitState(r) \/ FindVersion(r)
    BY <1>3, <1>7 DEF CommitState, FindVersion, tables
  <1> QED BY <1>4, <1>5, <1>6, <1>7

LEMMA DeleteArtWrites ==
    ASSUME TypeInv, NEW r \in Requests, DropAliases(r) \/ MarkDeleted(r)
    PROVE  Writes(r)
  <1>1. CASE aliases' = aliases
    BY <1>1, NoWrite
  <1>2. CASE DropAliases(r) /\ req[r].drop
    BY <1>1, <1>2, DeleteWrites DEF DropAliases, Drops, RowsOf
  <1>3. CASE DropAliases(r) /\ ~req[r].drop
    <2>1. aliases' = aliases \/ Delete({})
      BY <1>3 DEF DropAliases
    <2> QED BY <1>1, <2>1, DeleteWrites
  <1> QED BY <1>1, <1>2, <1>3 DEF MarkDeleted

LEMMA ListWrites ==
    ASSUME TypeInv, NEW r \in Requests,
           \/ AddCheck(r) \/ AddInsert(r) \/ Remove(r)
           \/ \E s \in {"add", "remove", "set", "find alias"} : EndOfList(r, s)
    PROVE  Writes(r)
  <1>1. pc[r] \in Working
    BY DEF AddCheck, AddInsert, Remove, EndOfList, Working
  <1>2. CASE aliases' = aliases
    BY <1>2, NoWrite
  <1>3. CASE AddInsert(r)
    <2> DEFINE k == local[r].cur
    <2>1. k \in req[r].list /\ k \in Key /\ k[2] # Latest /\ k[1] \in colls
      BY <1>1, <1>3, AtWork DEF AddInsert, Fits
    <2>2. aliases' = aliases \/ Insert(r, k)
      BY <1>3 DEF AddInsert
    <2>3. Adds(r, k)
      BY <1>3, <2>1 DEF AddInsert, Adds
    <2> QED BY <1>1, <1>2, <2>1, <2>2, <2>3, InsertWrites
  <1>4. CASE Remove(r)
    <2>1. PICK k \in local[r].todo : Try(Delete({k} \cap RowsOf(req[r].art)))
      BY <1>4 DEF Remove
    <2>2. k \in req[r].list
      BY <1>1, AtWork
    <2>3. \A x \in {k} \cap RowsOf(req[r].art) : Drops(r, x)
      BY <1>4, <2>2 DEF Remove, Drops, RowsOf
    <2> QED BY <1>2, <2>1, <2>3, DeleteWrites DEF Try
  <1> QED BY <1>2, <1>3, <1>4 DEF AddCheck, EndOfList, tables

LEMMA UpdateWrites ==
    ASSUME TypeInv, NEW r \in Requests,
           ReadAliases(r) \/ DropHeld(r) \/ HeldDropped(r) \/ SetAlias(r)
    PROVE  Writes(r)
  <1>1. pc[r] \in Working
    BY DEF ReadAliases, DropHeld, HeldDropped, SetAlias, Working
  <1>2. CASE aliases' = aliases
    BY <1>2, NoWrite
  <1>3. CASE DropHeld(r)
    <2>1. PICK h \in local[r].held : Try(Delete({k \in {h.key} : StillThere(h)}))
      BY <1>3 DEF DropHeld
    <2>2. \A x \in {k \in {h.key} : StillThere(h)} : Drops(r, x)
      BY <1>3 DEF DropHeld, Drops, StillThere
    <2> QED BY <1>2, <2>1, <2>2, DeleteWrites DEF Try
  <1>4. CASE SetAlias(r)
    <2>1. aliases' = aliases \/ \E k \in local[r].todo : k[2] \notin AutoManaged /\ k[1] \in colls /\ Insert(r, k)
      BY <1>4 DEF SetAlias, Try
    <2>2. ASSUME NEW k \in local[r].todo, k[2] \notin AutoManaged, k[1] \in colls, Insert(r, k)
          PROVE  Writes(r)
      <3>1. k \in req[r].list /\ k \in Key
        BY <1>1, AtWork
      <3>2. Adds(r, k)
        BY <1>4, <2>2, <3>1 DEF SetAlias, Adds
      <3> QED BY <1>1, <2>2, <3>1, <3>2, InsertWrites
    <2> QED BY <1>2, <2>1, <2>2
  <1> QED BY <1>2, <1>3, <1>4 DEF ReadAliases, HeldDropped, tables

LEMMA LinkWrites ==
    ASSUME TypeInv, NEW r \in Requests,
           \/ FindPortfolioType(r) \/ NewPortfolioType(r) \/ FindPortfolio(r) \/ NewPortfolio(r)
           \/ Count(r) \/ Linked(r) \/ PutLink(r) \/ FindAlias(r) \/ PutAlias(r) \/ MoveAlias(r)
    PROVE  Writes(r)
  <1>1. CASE aliases' = aliases
    BY <1>1, NoWrite
  <1>2. CASE PutLink(r)
    <2>1. pc[r] \in Working /\ pc[r] = "put link" /\ (aliases' = aliases \/ Insert(r, LinkKey(r)))
      BY <1>2 DEF PutLink, Try, Working
    <2>2. req[r].coll \in colls /\ req[r].coll \in Colls /\ local[r].count \in 0..MaxVersion
      BY <2>1, AtWork DEF Fits, InPlace, Locals
    <2>3. LinkKey(r) \in Key /\ LinkKey(r)[1] \in colls
      BY <2>2, KeyType DEF LinkKey
    <2>4. Adds(r, LinkKey(r))
      BY <2>1, <2>3 DEF Adds
    <2> QED BY <1>1, <2>1, <2>3, <2>4, InsertWrites
  <1>3. CASE PutAlias(r)
    <2> DEFINE k == InPortfolio(r, local[r].cur)
    <2>1. pc[r] \in Working /\ pc[r] = "put alias" /\ (aliases' = aliases \/ Insert(r, k))
      BY <1>3 DEF PutAlias, Try, Working
    <2>2. req[r].coll \in colls /\ req[r].coll \in Colls /\ local[r].cur \in req[r].list /\ req[r].list \subseteq Key
      BY <2>1, AtWork DEF Fits, InPlace
    <2>3. k \in Key /\ k[1] \in colls /\ k[1] = req[r].coll /\ k[2] = local[r].cur[2]
      BY <2>2, KeyType DEF InPortfolio
    <2>4. Adds(r, k)
      BY <2>1, <2>2, <2>3 DEF Adds
    <2> QED BY <1>1, <2>1, <2>3, <2>4, InsertWrites
  <1>4. CASE MoveAlias(r)
    <2>1. PICK h \in local[r].held :
            Try(aliases' = IF StillThere(h) THEN [aliases EXCEPT ![h.key].art = req[r].art] ELSE aliases)
      BY <1>4 DEF MoveAlias
    <2>2. pc[r] = "move alias" /\ pc[r] \in Working
      BY <1>4 DEF MoveAlias, Working
    <2>3. /\ local[r] \in Locals /\ req[r].art \in Arts /\ req[r].list \subseteq Key
          /\ \E x \in req[r].list : h.key = <<req[r].coll, x[2]>>
      BY <2>2, AtWork DEF Fits
    <2>4. h.key \in Key
      BY <2>3 DEF Locals
    <2>5. Steals(r, h.key)
      <3>1. PICK x \in req[r].list : h.key = <<req[r].coll, x[2]>>
        BY <2>3
      <3>2. h.key[1] = req[r].coll /\ h.key[2] = x[2]
        BY <3>1
      <3> QED BY <2>2, <3>2 DEF Steals
    <2>6. CASE StillThere(h) /\ aliases' = [aliases EXCEPT ![h.key].art = req[r].art]
      <3>1. aliases \in [Key -> Row \cup {None}] /\ aliases[h.key] \in Row
        BY <2>4, <2>6 DEF StillThere, Taken, TypeInv, RowsOK
      <3> DEFINE row == [by |-> aliases[h.key].by, art |-> req[r].art]
      <3>2. [aliases[h.key] EXCEPT !.art = req[r].art] = row /\ row \in Row
        BY <2>3, <3>1 DEF Row
      <3>3. aliases' = [aliases EXCEPT ![h.key] = row]
        BY <2>4, <2>6, <3>1, <3>2
      <3>4. aliases' \in [Key -> Row \cup {None}] /\ aliases'[h.key] = row
            /\ \A x \in Key \ {h.key} : aliases'[x] = aliases[x]
        BY <2>4, <3>1, <3>2, <3>3
      <3>5. Taken(h.key)
        BY <2>6 DEF StillThere
      <3> QED BY <2>5, <3>4, <3>5 DEF Writes, Taken
    <2> QED BY <1>1, <2>1, <2>6 DEF Try
  <1> QED BY <1>1, <1>2, <1>3, <1>4
          DEF FindPortfolioType, NewPortfolioType, FindPortfolio, NewPortfolio, Count, Linked, FindAlias, tables

LEMMA UnlinkWrites ==
    ASSUME TypeInv, NEW r \in Requests, Unlink(r)
    PROVE  Writes(r)
  <1>1. CASE aliases' = aliases
    BY <1>1, NoWrite
  <1>2. CASE Delete({k \in RowsOf(req[r].art) : k[1] = req[r].coll})
    <2>1. \A k \in {k \in RowsOf(req[r].art) : k[1] = req[r].coll} : Drops(r, k)
      BY DEF Unlink, Drops, RowsOf
    <2> QED BY <1>2, <2>1, DeleteWrites
  <1> QED BY <1>1, <1>2 DEF Unlink

LEMMA StepWrites ==
    ASSUME TypeInv, NEW r \in Requests, Step(r)
    PROVE  Writes(r)
  <1>1. CASE LookupFails(r)
    BY <1>1, NoWrite DEF LookupFails, tables
  <1> QED BY <1>1, CommitWrites, DeleteArtWrites, ListWrites, UpdateWrites, LinkWrites, UnlinkWrites DEF Step

(***************************************************************************)
(* The type invariant.                                                     *)
(***************************************************************************)
\* The states of the versions: PENDING is left for good.
States ==
    /\ state' \in [Arts -> {"PENDING", "COMMITTED", "DELETED"}]
    /\ \A a \in Arts : state[a] # "PENDING" => state'[a] # "PENDING"

LEMMA StepStates ==
    ASSUME TypeInv, NEW r \in Requests, Step(r)
    PROVE  States
  <1>1. state \in [Arts -> {"PENDING", "COMMITTED", "DELETED"}]
    BY DEF TypeInv, RowsOK
  <1>2. CASE state' = state
    BY <1>1, <1>2 DEF States
  <1>3. CASE \E s \in {"COMMITTED", "DELETED"} : state' = [state EXCEPT ![req[r].art] = s]
    BY <1>1, <1>3 DEF States
  <1>4. state' = state \/ \E s \in {"COMMITTED", "DELETED"} : state' = [state EXCEPT ![req[r].art] = s]
    <2>1. CASE CommitState(r) \/ MarkDeleted(r)
      BY <2>1 DEF CommitState, MarkDeleted
    <2>2. CASE DropLatest(r) \/ PutLatest(r) \/ FindVersion(r) \/ PutVersion(r) \/ DropAliases(r)
      BY <2>2 DEF DropLatest, PutLatest, FindVersion, PutVersion, DropAliases, tables
    <2>3. CASE LookupFails(r) \/ AddCheck(r) \/ AddInsert(r) \/ Remove(r)
               \/ \E s \in {"add", "remove", "set", "find alias"} : EndOfList(r, s)
      BY <2>3 DEF LookupFails, AddCheck, AddInsert, Remove, EndOfList, tables
    <2>4. CASE ReadAliases(r) \/ DropHeld(r) \/ HeldDropped(r) \/ SetAlias(r)
      BY <2>4 DEF ReadAliases, DropHeld, HeldDropped, SetAlias, tables
    <2>5. CASE \/ FindPortfolioType(r) \/ NewPortfolioType(r) \/ FindPortfolio(r) \/ NewPortfolio(r)
               \/ Count(r) \/ Linked(r) \/ PutLink(r) \/ FindAlias(r) \/ PutAlias(r) \/ MoveAlias(r)
               \/ Unlink(r)
      BY <2>5 DEF FindPortfolioType, NewPortfolioType, FindPortfolio, NewPortfolio, Count, Linked,
                  PutLink, FindAlias, PutAlias, MoveAlias, Unlink, tables
    <2> QED BY <2>1, <2>2, <2>3, <2>4, <2>5 DEF Step
  <1> QED BY <1>2, <1>3, <1>4

LEMMA FitsGrows ==
    ASSUME NEW i, NEW c, NEW d, NEW s, NEW l, Fits(i, c, s, l), c \subseteq d
    PROVE  Fits(i, d, s, l)
  BY DEF Fits

LEMMA WrittenFinite ==
    ASSUME TypeInv, NEW r, Writes(r)
    PROVE  IsFiniteSet({k \in Key : aliases'[k] # None})
  <1>1. PICK n : \A k \in Key : k # n /\ aliases'[k] # None => Taken(k)
    BY DEF Writes
  <1>2. IsFiniteSet({k \in Key : Taken(k)} \cup {n})
    BY FS_AddElement DEF TypeInv, RowsOK
  <1>3. {k \in Key : aliases'[k] # None} \subseteq {k \in Key : Taken(k)} \cup {n}
    BY <1>1
  <1> QED BY <1>2, <1>3, FS_Subset

LEMMA TypeStep ==
    ASSUME TypeInv, NEW r \in Requests, Step(r)
    PROVE  TypeInv'
  <1>1. Frame(r) /\ Moves(r) /\ Writes(r) /\ States
    BY StepMoves, StepWrites, StepStates
  <1>2. PICK s \in Steps \ {"idle"}, l \in Locals : Set(r, s, l) /\ Fits(req[r], colls', s, l)
    BY <1>1 DEF Moves
  <1>3. /\ pc' = [pc EXCEPT ![r] = s] /\ local' = [local EXCEPT ![r] = l]
        /\ req' = req /\ before' = before
    BY <1>1, <1>2 DEF Set, Frame
  <1>4. RowsOK'
    <2>1. linkable' \in BOOLEAN
      BY <1>1, Zenon DEF Frame
    <2>2. IsFiniteSet({k \in Key : Taken(k)}')
      BY <1>1, WrittenFinite DEF Taken
    <2>3. colls' \subseteq Colls /\ Sequences \subseteq colls'
      BY <1>1 DEF Frame, TypeInv, RowsOK
    <2> QED BY <1>1, <2>1, <2>2, <2>3 DEF RowsOK, States, Writes
  <1>5. ControlOK'
    <2>1. faults' \in 0..MaxFaults
      BY <1>1, AliasAssumption DEF Frame, Succeeds, Fails, TypeInv, ControlOK, AliasAssumption
    <2> QED BY <1>3, <2>1 DEF TypeInv, ControlOK
  <1>6. Placed'
    <2>1. \A q \in Requests \ {r} : pc'[q] = pc[q] /\ local'[q] = local[q]
      BY <1>3 DEF TypeInv, ControlOK
    <2>2. pc'[r] = s /\ local'[r] = l
      BY <1>3 DEF TypeInv, ControlOK
    <2>3. \A q \in Requests : Fits(req[q], colls', pc[q], local[q])
      BY <1>1, FitsGrows DEF Frame, TypeInv, Placed
    <2>4. \A q \in Requests : Fits(req'[q], colls', pc'[q], local'[q])
      BY <1>2, <1>3, <2>1, <2>2, <2>3
    <2> QED BY <2>4 DEF Placed
  <1> QED BY <1>4, <1>5, <1>6 DEF TypeInv

LEMMA StartsAt ==
    /\ FirstStep["commit"] = "commit" /\ FirstStep["update"] = "read aliases" /\ FirstStep["add"] = "add"
    /\ FirstStep["remove"] = "remove" /\ FirstStep["link"] = "type" /\ FirstStep["unlink"] = "unlink"
    /\ FirstStep["delete"] = "drop aliases"
  BY DEF FirstStep

\* What a new request has.
LEMMA Received ==
    ASSUME TypeInv, NEW r \in Requests, Receive(r)
    PROVE  /\ pc[r] = "idle" /\ req'[r] \in Input /\ WellFormed(req'[r])
           /\ pc'[r] \in Working /\ pc'[r] = FirstStep[req'[r].op]
           /\ local'[r] = [NoLocals EXCEPT !.todo = req'[r].list]
           /\ before'[r] = {q \in Requests : pc[q] = "done"}
           /\ \A q \in Requests \ {r} : pc'[q] = pc[q] /\ local'[q] = local[q] /\ req'[q] = req[q]
                                        /\ before'[q] = before[q]
           /\ req' \in [Requests -> Input \cup {None}] /\ pc' \in [Requests -> Steps]
           /\ local' \in [Requests -> Locals] /\ before' \in [Requests -> SUBSET Requests]
           /\ state' = state /\ colls' = colls /\ linkable' = linkable /\ aliases' = aliases
           /\ faults' = faults
           /\ Fits(req'[r], colls, pc'[r], local'[r])
  <1>1. PICK i \in Input : /\ WellFormed(i) /\ req' = [req EXCEPT ![r] = i]
                           /\ Set(r, FirstStep[i.op], [NoLocals EXCEPT !.todo = i.list])
    BY DEF Receive
  <1> DEFINE s == FirstStep[i.op]
             l == [NoLocals EXCEPT !.todo = i.list]
  <1>2. s \in Working /\ StepOf(s, i.op) /\ s \notin InPlace \cup {"insert", "drop held"}
    <2>1. i.op \in {"commit", "update", "add", "remove", "link", "unlink", "delete"}
      BY <1>1, InputType
    <2>2. \/ i.op = "commit" /\ s = "commit"
          \/ i.op = "update" /\ s = "read aliases"
          \/ i.op = "add" /\ s = "add"
          \/ i.op = "remove" /\ s = "remove"
          \/ i.op = "link" /\ s = "type"
          \/ i.op = "unlink" /\ s = "unlink"
          \/ i.op = "delete" /\ s = "drop aliases"
      BY <2>1, StartsAt
    <2> QED BY <2>2 DEF Working, StepOf, InPlace
  <1>3. l = [todo |-> i.list, cur |-> None, held |-> {}, count |-> 0]
    BY DEF NoLocals
  <1>4. l \in Locals
    BY <1>1, <1>3, InputType, AliasAssumption DEF Locals, AliasAssumption
  <1>5. Fits(i, colls, s, l)
    BY <1>1, <1>2, <1>3, <1>4 DEF Fits, Steps, InPlace
  <1>6. before' = [before EXCEPT ![r] = {q \in Requests : pc[q] = "done"}] /\ pc[r] = "idle"
    BY DEF Receive
  <1>7. state' = state /\ colls' = colls /\ linkable' = linkable /\ aliases' = aliases /\ faults' = faults
    BY DEF Receive, tables
  <1>8. pc' = [pc EXCEPT ![r] = s] /\ local' = [local EXCEPT ![r] = l]
    BY <1>1 DEF Set
  <1>9. /\ pc \in [Requests -> Steps] /\ req \in [Requests -> Input \cup {None}]
        /\ local \in [Requests -> Locals] /\ before \in [Requests -> SUBSET Requests]
    BY DEF TypeInv, ControlOK
  <1>10. pc'[r] = s /\ local'[r] = l /\ req'[r] = i /\ before'[r] = {q \in Requests : pc[q] = "done"}
    BY <1>1, <1>6, <1>8, <1>9
  <1>11. \A q \in Requests \ {r} : pc'[q] = pc[q] /\ local'[q] = local[q] /\ req'[q] = req[q]
                                   /\ before'[q] = before[q]
    BY <1>1, <1>6, <1>8, <1>9
  <1>12. s \in Steps
    BY <1>2 DEF Steps
  <1>13. /\ req' \in [Requests -> Input \cup {None}] /\ pc' \in [Requests -> Steps]
         /\ local' \in [Requests -> Locals] /\ before' \in [Requests -> SUBSET Requests]
    BY <1>1, <1>4, <1>6, <1>8, <1>9, <1>12
  <1> QED BY <1>1, <1>2, <1>5, <1>6, <1>7, <1>10, <1>11, <1>13

LEMMA TypeReceive ==
    ASSUME TypeInv, NEW r \in Requests, Receive(r)
    PROVE  TypeInv'
  <1>1. RowsOK'
    <2>1. \A k : Taken(k)' <=> Taken(k)
      BY Received DEF Taken
    <2>2. {k \in Key : Taken(k)}' = {k \in Key : Taken(k)}
      BY <2>1
    <2> QED BY Received, <2>2 DEF TypeInv, RowsOK
  <1>2. ControlOK'
    BY Received DEF TypeInv, ControlOK
  <1>3. \A q \in Requests : Fits(req'[q], colls', pc'[q], local'[q])
    BY Received DEF TypeInv, Placed
  <1> QED BY <1>1, <1>2, <1>3 DEF TypeInv, Placed

\* What a crash leaves.
LEMMA Crashed ==
    ASSUME TypeInv, Crash
    PROVE  /\ \A q \in Requests : pc'[q] = IF pc[q] \in Working THEN "killed" ELSE pc[q]
           /\ \A q \in Requests : local'[q] = NoLocals
           /\ local' \in [Requests -> Locals] /\ pc' \in [Requests -> Steps]
           /\ req' = req /\ before' = before
           /\ state' = state /\ colls' = colls /\ linkable' = linkable /\ aliases' = aliases
           /\ faults' = faults
  <1>1. pc' = [r \in Requests |-> IF r \in InFlight THEN "killed" ELSE pc[r]]
        /\ local' = [r \in Requests |-> NoLocals]
    BY DEF Crash
  <1>2. pc \in [Requests -> Steps] /\ "killed" \in Steps
    BY DEF TypeInv, ControlOK, Steps
  <1>3. pc' \in [Requests -> Steps]
    BY <1>1, <1>2
  <1>4. \A q \in Requests : pc'[q] = IF pc[q] \in Working THEN "killed" ELSE pc[q]
    BY <1>1 DEF InFlight
  <1>5. local' \in [Requests -> Locals] /\ \A q \in Requests : local'[q] = NoLocals
    BY <1>1, NoLocalsType
  <1> QED BY <1>3, <1>4, <1>5 DEF Crash, tables

LEMMA TypeCrash ==
    ASSUME TypeInv, Crash
    PROVE  TypeInv'
  <1>1. RowsOK'
    <2>1. {k \in Key : Taken(k)}' = {k \in Key : Taken(k)}
      BY Crashed DEF Taken
    <2> QED BY Crashed, <2>1 DEF TypeInv, RowsOK
  <1>2. ControlOK'
    BY Crashed DEF TypeInv, ControlOK
  <1>3. ASSUME NEW q \in Requests PROVE Fits(req'[q], colls', pc'[q], local'[q])
    <2>1. Fits(req[q], colls, pc[q], local[q])
      BY DEF TypeInv, Placed
    <2>2. pc'[q] = (IF pc[q] \in Working THEN "killed" ELSE pc[q]) /\ local'[q] = NoLocals
          /\ req' = req /\ colls' = colls
      BY Crashed
    <2>4. pc'[q] \in Steps \ Working
      BY <2>1, <2>2 DEF Fits, Steps, Working
    <2>5. pc'[q] # "idle" => req[q] \in Input /\ WellFormed(req[q])
      BY <2>1, <2>2 DEF Fits, Working
    <2>6. NoLocals.held = {}
      BY DEF NoLocals
    <2> QED BY <2>2, <2>4, <2>5, <2>6, NoLocalsType DEF Fits, Working, InPlace
  <1> QED BY <1>1, <1>2, <1>3 DEF TypeInv, Placed

LEMMA TypeSame ==
    ASSUME TypeInv, UNCHANGED vars
    PROVE  TypeInv'
  <1>1. /\ state' = state /\ colls' = colls /\ linkable' = linkable /\ aliases' = aliases /\ pc' = pc
        /\ req' = req /\ local' = local /\ before' = before /\ faults' = faults
    BY DEF vars, tables
  <1>2. {k \in Key : Taken(k)}' = {k \in Key : Taken(k)}
    BY <1>1 DEF Taken
  <1>3. RowsOK'
    BY <1>1, <1>2 DEF TypeInv, RowsOK
  <1>4. ControlOK' /\ Placed'
    BY <1>1 DEF TypeInv, ControlOK, Placed
  <1> QED BY <1>3, <1>4 DEF TypeInv

LEMMA TypeInit ==
    ASSUME Init
    PROVE  TypeInv
  <1>1. {k \in Key : Taken(k)} = {}
    BY DEF Init, Taken
  <1>2. IsFiniteSet({k \in Key : Taken(k)})
    BY <1>1, FS_EmptySet
  <1>3. RowsOK
    BY <1>2 DEF Init, RowsOK, Colls
  <1>4. ControlOK
    BY NoLocalsType, AliasAssumption DEF Init, ControlOK, Steps, AliasAssumption
  <1>5. \A r \in Requests : pc[r] = "idle" /\ local[r] = NoLocals
    BY DEF Init
  <1>6. NoLocals.held = {}
    BY DEF NoLocals
  <1>7. Placed
    BY <1>5, <1>6, NoLocalsType DEF Placed, Fits, Steps, Working, InPlace
  <1> QED BY <1>3, <1>4, <1>7 DEF TypeInv

LEMMA TypeNext ==
    ASSUME TypeInv, [Next]_vars
    PROVE  TypeInv'
  BY TypeStep, TypeReceive, TypeCrash, TypeSame DEF Next

LEMMA TypeInvOK ==
    ASSUME TypeInv
    PROVE  TypeOK
  <1>1. Locals \subseteq [todo: SUBSET Key, cur: Key \cup {None}, held: SUBSET [key: Key, by: Requests], count: Nat]
    BY DEF Locals
  <1>2. local \in [Requests -> [todo: SUBSET Key, cur: Key \cup {None},
                                held: SUBSET [key: Key, by: Requests], count: Nat]]
    BY <1>1 DEF TypeInv, ControlOK
  <1> QED BY <1>2 DEF TypeInv, RowsOK, ControlOK, TypeOK

(***************************************************************************)
(* The two kinds of steps, as the invariants see them.                     *)
(***************************************************************************)
LEMMA StepFacts ==
    ASSUME TypeInv, NEW r \in Requests, Step(r)
    PROVE  /\ pc[r] \in Working /\ pc'[r] \in Steps \ {"idle"} /\ pc[r] \notin {"idle", "done"}
           /\ local'[r] \in Locals
           /\ \A q \in Requests \ {r} : pc'[q] = pc[q] /\ local'[q] = local[q]
           /\ req' = req /\ before' = before
           /\ colls \subseteq colls' /\ Writes(r) /\ States
           /\ faults' = 0 => faults = 0 /\ ~Fails
  <1>1. Frame(r) /\ Moves(r) /\ Writes(r) /\ States
    BY StepMoves, StepWrites, StepStates
  <1>2. PICK s \in Steps \ {"idle"}, l \in Locals : Set(r, s, l)
    BY <1>1 DEF Moves
  <1>3. pc'[r] = s /\ local'[r] = l /\ \A q \in Requests \ {r} : pc'[q] = pc[q] /\ local'[q] = local[q]
    BY <1>2 DEF Set, TypeInv, ControlOK
  <1>4. faults' = 0 => faults = 0 /\ ~Fails
    BY <1>1 DEF Frame, Succeeds, Fails, TypeInv, ControlOK
  <1>5. "idle" \notin Working /\ "done" \notin Working
    BY DEF Working
  <1> QED BY <1>1, <1>3, <1>4, <1>5 DEF Frame

\* No row changes; requests stay where they are, are killed or are received.
Quiet ==
    /\ state' = state /\ colls' = colls /\ aliases' = aliases /\ faults' = faults
    /\ \A q \in Requests :
          \/ pc'[q] = pc[q] /\ local'[q] = local[q] /\ req'[q] = req[q] /\ before'[q] = before[q]
          \/ /\ pc[q] \in Working /\ pc'[q] = "killed"
             /\ local'[q] = NoLocals /\ req'[q] = req[q] /\ before'[q] = before[q]
          \/ /\ pc[q] = "idle"
             /\ pc'[q] \in {"commit", "read aliases", "add", "remove", "type", "unlink", "drop aliases"}
             /\ local'[q].held = {} /\ before'[q] = {x \in Requests : pc[x] = "done"}

LEMMA StepOrQuiet ==
    ASSUME TypeInv, [Next]_vars
    PROVE  Quiet \/ \E r \in Requests : Step(r)
  <1>1. CASE UNCHANGED vars
    BY <1>1 DEF Quiet, vars, tables
  <1>2. CASE Crash
    <2>1. ASSUME NEW q \in Requests, pc[q] \notin Working PROVE local[q] = NoLocals
      BY <2>1 DEF TypeInv, Placed, Fits
    <2> QED BY <1>2, <2>1, Crashed DEF Quiet
  <1>3. ASSUME NEW r \in Requests, Receive(r) PROVE Quiet
    <2>1. req'[r].op \in {"commit", "update", "add", "remove", "link", "unlink", "delete"}
      BY <1>3, Received, InputType
    <2>2. pc'[r] \in {"commit", "read aliases", "add", "remove", "type", "unlink", "drop aliases"}
      <3>1. pc'[r] = FirstStep[req'[r].op]
        BY <1>3, Received
      <3> QED BY <2>1, <3>1, StartsAt
    <2>3. local'[r].held = {}
      BY <1>3, Received DEF NoLocals
    <2> QED BY <1>3, <2>2, <2>3, Received DEF Quiet
  <1> QED BY <1>1, <1>2, <1>3 DEF Next

\* What a request that was received keeps.
LEMMA Stays ==
    ASSUME TypeInv, [Next]_vars, NEW q \in Requests, pc[q] # "idle"
    PROVE  pc'[q] # "idle" /\ req'[q] = req[q] /\ before'[q] = before[q]
  <1>1. CASE Quiet
    BY <1>1 DEF Quiet
  <1>2. ASSUME NEW r \in Requests, Step(r)
        PROVE  pc'[q] # "idle" /\ req'[q] = req[q] /\ before'[q] = before[q]
    BY <1>2, StepFacts
  <1> QED BY <1>1, <1>2, StepOrQuiet

LEMMA ExceptionsStay ==
    ASSUME TypeInv, [Next]_vars, NEW q \in Requests
    PROVE  /\ \A k : MayRemove(q, k) => MayRemove(q, k)'
           /\ \A c : LinksTo(q, c) => LinksTo(q, c)'
           /\ \A c : Numbers(q, c) => Numbers(q, c)'
  <1>1. pc[q] # "idle" => pc'[q] # "idle" /\ req'[q] = req[q]
    BY Stays
  <1>2. \A k : MayRemove(q, k) => MayRemove(q, k)'
    BY <1>1 DEF MayRemove
  <1>3. \A c : LinksTo(q, c) => LinksTo(q, c)'
    BY <1>1 DEF LinksTo
  <1>4. \A c : Numbers(q, c) => Numbers(q, c)'
    BY <1>1, <1>3 DEF Numbers, Own
  <1> QED BY <1>2, <1>3, <1>4

\* Which actions a request with a given operation takes.
LEMMA CommitSteps ==
    ASSUME TypeInv, NEW r \in Requests, Step(r), req[r].op = "commit"
    PROVE  \/ LookupFails(r) \/ CommitState(r) \/ DropLatest(r) \/ PutLatest(r) \/ FindVersion(r)
           \/ PutVersion(r)
  <1>1. StepOf(pc[r], req[r].op)
    BY StepFacts, AtWork
  <1> QED BY <1>1 DEF Step, StepOf, DropAliases, MarkDeleted, AddCheck, AddInsert, EndOfList, Remove,
              ReadAliases, DropHeld, HeldDropped, SetAlias, FindPortfolioType, NewPortfolioType,
              FindPortfolio, NewPortfolio, Count, Linked, PutLink, FindAlias, PutAlias, MoveAlias, Unlink

LEMMA UpdateSteps ==
    ASSUME TypeInv, NEW r \in Requests, Step(r), req[r].op = "update"
    PROVE  LookupFails(r) \/ ReadAliases(r) \/ DropHeld(r) \/ HeldDropped(r) \/ SetAlias(r)
           \/ EndOfList(r, "set")
  <1>1. StepOf(pc[r], req[r].op)
    BY StepFacts, AtWork
  <1> QED BY <1>1 DEF Step, StepOf, CommitState, DropLatest, PutLatest, FindVersion, PutVersion,
              DropAliases, MarkDeleted, AddCheck, AddInsert, EndOfList, Remove,
              FindPortfolioType, NewPortfolioType, FindPortfolio, NewPortfolio, Count, Linked, PutLink,
              FindAlias, PutAlias, MoveAlias, Unlink

LEMMA LinkSteps ==
    ASSUME TypeInv, NEW r \in Requests, Step(r), req[r].op = "link"
    PROVE  \/ LookupFails(r) \/ FindPortfolioType(r) \/ NewPortfolioType(r) \/ FindPortfolio(r)
           \/ NewPortfolio(r) \/ Count(r) \/ Linked(r) \/ PutLink(r) \/ FindAlias(r) \/ PutAlias(r)
           \/ MoveAlias(r) \/ EndOfList(r, "find alias")
  <1>1. StepOf(pc[r], req[r].op)
    BY StepFacts, AtWork
  <1> QED BY <1>1 DEF Step, StepOf, CommitState, DropLatest, PutLatest, FindVersion, PutVersion,
              DropAliases, MarkDeleted, AddCheck, AddInsert, EndOfList, Remove,
              ReadAliases, DropHeld, HeldDropped, SetAlias, Unlink

LEMMA AddSteps ==
    ASSUME TypeInv, NEW r \in Requests, Step(r), req[r].op = "add"
    PROVE  LookupFails(r) \/ AddCheck(r) \/ AddInsert(r) \/ EndOfList(r, "add")
  <1>1. StepOf(pc[r], req[r].op)
    BY StepFacts, AtWork
  <1> QED BY <1>1 DEF Step, StepOf, CommitState, DropLatest, PutLatest, FindVersion, PutVersion,
              DropAliases, MarkDeleted, EndOfList, Remove,
              ReadAliases, DropHeld, HeldDropped, SetAlias, FindPortfolioType, NewPortfolioType,
              FindPortfolio, NewPortfolio, Count, Linked, PutLink, FindAlias, PutAlias, MoveAlias, Unlink

\* Which request adds, drops or moves, and the operation it has.
LEMMA OpAt ==
    ASSUME TypeInv, NEW r \in Requests, pc[r] \in Working
    PROVE  /\ pc[r] \in {"put latest", "put version", "drop latest"} => req[r].op = "commit"
           /\ pc[r] \in {"set", "drop held"} => req[r].op = "update"
           /\ pc[r] = "insert" => req[r].op = "add"
           /\ pc[r] = "remove" => req[r].op = "remove"
           /\ pc[r] = "drop aliases" => req[r].op = "delete"
           /\ pc[r] = "unlink" => req[r].op = "unlink"
           /\ pc[r] \in {"put link", "put alias", "move alias"} => req[r].op = "link"
  BY AtWork DEF StepOf

(***************************************************************************)
(* Every alias belongs to a collection that exists.                        *)
(***************************************************************************)
LEMMA HaveNext ==
    ASSUME TypeInv, AliasesHaveCollections, [Next]_vars
    PROVE  AliasesHaveCollections'
  <1>1. CASE Quiet
    BY <1>1 DEF Quiet, AliasesHaveCollections, Taken
  <1>2. ASSUME NEW r \in Requests, Step(r) PROVE AliasesHaveCollections'
    <2>1. Writes(r) /\ colls \subseteq colls'
      BY <1>2, StepFacts
    <2> SUFFICES ASSUME NEW k \in Key, Taken(k)' PROVE k[1] \in colls'
      BY DEF AliasesHaveCollections
    <2>2. Taken(k) \/ Adds(r, k)
      BY <2>1 DEF Writes, Taken
    <2> QED BY <2>1, <2>2 DEF AliasesHaveCollections, Adds
  <1> QED BY <1>1, <1>2, StepOrQuiet

(***************************************************************************)
(* Requests that ended before another one was received have ended.         *)
(***************************************************************************)
Ended == \A r \in Requests : \A q \in before[r] : pc[q] = "done"

LEMMA EndedNext ==
    ASSUME TypeInv, Ended, [Next]_vars
    PROVE  Ended'
  <1>1. CASE Quiet
    <2>1. \A q \in Requests : pc[q] = "done" => pc'[q] = "done"
      BY <1>1 DEF Quiet, Working
    <2>2. ASSUME NEW r \in Requests, NEW q \in before'[r] PROVE pc[q] = "done" /\ q \in Requests
      <3>1. before'[r] = before[r] \/ before'[r] = {x \in Requests : pc[x] = "done"}
        BY <1>1 DEF Quiet
      <3> QED BY <2>2, <3>1 DEF Ended, TypeInv, ControlOK
    <2> QED BY <2>1, <2>2 DEF Ended
  <1>2. ASSUME NEW r \in Requests, Step(r) PROVE Ended'
    <2>1. before' = before /\ \A q \in Requests : pc[q] = "done" => pc'[q] = "done"
      BY <1>2, StepFacts
    <2> QED BY <2>1 DEF Ended, TypeInv, ControlOK
  <1> QED BY <1>1, <1>2, StepOrQuiet

\* A request at work ended before no other one was received.
LEMMA NotBefore ==
    ASSUME TypeInv, Ended, NEW q \in Requests, NEW r \in Requests, pc[q] # "done"
    PROVE  q \notin before[r]
  BY DEF Ended

(***************************************************************************)
(* Nothing uncommitted is visible through an alias a commit inserted.      *)
(***************************************************************************)
\* A row was inserted by a request that was received, and a commit that has
\* passed its UPDATE finds the version committed or deleted.
Settled ==
    /\ \A k \in Key : Taken(k) => pc[aliases[k].by] # "idle"
    /\ \A r \in Requests :
          pc[r] \in {"drop latest", "put latest", "find version", "put version"}
              => state[req[r].art] # "PENDING"

LEMMA RowType ==
    ASSUME TypeInv, NEW k \in Key, Taken(k)
    PROVE  aliases[k] \in Row /\ aliases[k].by \in Requests /\ aliases[k].art \in Arts
  BY DEF TypeInv, RowsOK, Taken, Row

LEMMA SettledNext ==
    ASSUME TypeInv, Settled, [Next]_vars
    PROVE  Settled'
  <1>1. CASE Quiet
    <2>1. ASSUME NEW k \in Key, Taken(k)' PROVE pc'[aliases'[k].by] # "idle"
      <3>1. aliases' = aliases /\ Taken(k)
        BY <1>1, <2>1 DEF Quiet, Taken
      <3>2. pc[aliases[k].by] # "idle" /\ aliases[k].by \in Requests
        BY <3>1, RowType DEF Settled
      <3> QED BY <3>1, <3>2, Stays
    <2>2. ASSUME NEW r \in Requests, pc'[r] \in {"drop latest", "put latest", "find version", "put version"}
          PROVE  state'[req'[r].art] # "PENDING"
      BY <1>1, <2>2 DEF Quiet, Settled
    <2> QED BY <2>1, <2>2 DEF Settled
  <1>2. ASSUME NEW r \in Requests, Step(r) PROVE Settled'
    <2>1. /\ Writes(r) /\ States /\ pc[r] \in Working /\ pc'[r] # "idle" /\ req' = req
          /\ \A q \in Requests \ {r} : pc'[q] = pc[q]
      BY <1>2, StepFacts
    <2>2. ASSUME NEW k \in Key, Taken(k)' PROVE pc'[aliases'[k].by] # "idle"
      <3>1. (Taken(k) /\ aliases'[k].by = aliases[k].by) \/ aliases'[k].by = r
        BY <2>1, <2>2 DEF Writes, Taken
      <3>2. Taken(k) => pc[aliases[k].by] # "idle" /\ aliases[k].by \in Requests
        BY RowType DEF Settled
      <3> QED BY <2>1, <3>1, <3>2
    <2>3. ASSUME NEW q \in Requests, pc'[q] \in {"drop latest", "put latest", "find version", "put version"}
          PROVE  state'[req'[q].art] # "PENDING"
      <3>1. pc'[q] \in Working
        BY <2>3 DEF Working
      <3>2. req[q].art \in Arts
        BY <3>1, <2>1, AtWork
      <3>3. CASE pc[q] \in {"drop latest", "put latest", "find version", "put version"}
        BY <2>1, <3>2, <3>3 DEF Settled, States
      <3>4. CASE pc[q] \notin {"drop latest", "put latest", "find version", "put version"}
        <4>1. q = r
          BY <2>1, <2>3, <3>4
        <4>2. req[r].op = "commit"
          <5>1. Fits(req[r], colls', pc'[r], local'[r])
            <6>1. TypeInv'
              BY <1>2, TypeStep
            <6> QED BY <2>1, <6>1 DEF TypeInv, Placed
          <5> QED BY <2>3, <3>1, <4>1, <5>1 DEF Fits, StepOf
        <4>3. CommitState(r) /\ pc'[r] # "failed"
          <5>1. pc \in [Requests -> Steps]
            BY DEF TypeInv, ControlOK
          <5> QED BY <1>2, <2>3, <3>4, <4>1, <4>2, <5>1, CommitSteps
                  DEF LookupFails, DropLatest, PutLatest, FindVersion, PutVersion, Finish, Set
        <4>4. state' = [state EXCEPT ![req[r].art] = "COMMITTED"]
          <5>1. pc \in [Requests -> Steps]
            BY DEF TypeInv, ControlOK
          <5> QED BY <4>3, <5>1 DEF CommitState, Finish, Set
        <4> QED BY <2>1, <3>2, <4>1, <4>4 DEF TypeInv, RowsOK
      <3> QED BY <3>3, <3>4
    <2> QED BY <2>2, <2>3 DEF Settled
  <1> QED BY <1>1, <1>2, StepOrQuiet

LEMMA CommittedNext ==
    ASSUME TypeInv, Settled, AutoAliasesCommitted, [Next]_vars
    PROVE  AutoAliasesCommitted'
  <1> SUFFICES ASSUME NEW k \in Key, Taken(k)', req'[aliases'[k].by].op = "commit",
                      \A q \in Requests : ~LinksTo(q, k[1])'
               PROVE  state'[aliases'[k].art] # "PENDING"
    BY DEF AutoAliasesCommitted
  <1>1. \A q \in Requests : ~LinksTo(q, k[1])
    BY ExceptionsStay
  <1>2. CASE Quiet
    <2>1. aliases' = aliases /\ state' = state /\ Taken(k)
      BY <1>2 DEF Quiet, Taken
    <2>2. req'[aliases[k].by] = req[aliases[k].by]
      BY <2>1, RowType, Stays DEF Settled
    <2> QED BY <1>1, <2>1, <2>2 DEF AutoAliasesCommitted
  <1>3. ASSUME NEW r \in Requests, Step(r) PROVE state'[aliases'[k].art] # "PENDING"
    <2>1. Writes(r) /\ States /\ pc[r] \in Working /\ req' = req
      BY <1>3, StepFacts
    <2>2. CASE aliases'[k] = aliases[k]
      <3>1. Taken(k)
        BY <2>2 DEF Taken
      <3> QED BY <1>1, <2>1, <2>2, <3>1, RowType DEF AutoAliasesCommitted, States
    <2>3. CASE aliases'[k] = [by |-> r, art |-> req[r].art] /\ Adds(r, k)
      <3>1. req[r].op = "commit" /\ req[r].art \in Arts
        BY <2>1, <2>3, AtWork
      <3>2. pc[r] \in {"put latest", "put version"}
        BY <2>1, <2>3, <3>1, OpAt DEF Adds
      <3>3. aliases'[k].art = req[r].art
        BY <2>3
      <3>4. state[req[r].art] # "PENDING"
        BY <3>2 DEF Settled
      <3> QED BY <2>1, <3>1, <3>3, <3>4 DEF States
    <2>4. CASE Steals(r, k)
      <3>1. LinksTo(r, k[1])
        BY <2>1, <2>4, OpAt DEF Steals, LinksTo
      <3> QED BY <1>1, <3>1
    <2> QED BY <2>1, <2>2, <2>3, <2>4 DEF Writes, Taken
  <1> QED BY <1>2, <1>3, StepOrQuiet

(***************************************************************************)
(* "latest" and vN once a commit has been answered.                        *)
(***************************************************************************)
LEMMA KeysOf ==
    ASSUME TypeInv, NEW r \in Requests, pc[r] # "idle"
    PROVE  /\ LatestKey(r) \in Key /\ VersionKey(r) \in Key /\ Own(r) \in Sequences
           /\ req[r].art \in Arts
           /\ LatestKey(r)[1] = Own(r) /\ VersionKey(r)[1] = Own(r)
           /\ LatestKey(r)[2] = Latest /\ VersionKey(r)[2][1] = "v"
           /\ LatestKey(r)[2] \in AutoManaged /\ VersionKey(r)[2] \in AutoManaged
           /\ LatestKey(r) # VersionKey(r)
  <1>1. req[r].art \in Arts
    BY InputType DEF TypeInv, Placed, Fits
  <1>2. Own(r) \in Sequences /\ LatestKey(r) \in Key /\ VersionKey(r) \in Key
    BY <1>1, ArtKeys DEF Own, LatestKey, VersionKey
  <1>3. LatestKey(r)[1] = Own(r) /\ LatestKey(r)[2] = Latest /\ Latest[1] = "latest"
    BY DEF LatestKey, Latest
  <1>4. VersionKey(r)[1] = Own(r) /\ VersionKey(r)[2][1] = "v"
    BY DEF VersionKey, V
  <1>5. LatestKey(r)[2] \in Names /\ VersionKey(r)[2] \in Names
    BY <1>2, KeyType
  <1>6. LatestKey(r)[2] \in AutoManaged /\ VersionKey(r)[2] \in AutoManaged
    BY <1>3, <1>4, <1>5 DEF AutoManaged
  <1> QED BY <1>1, <1>2, <1>3, <1>4, <1>6

LEMMA KeysStay ==
    ASSUME NEW r \in Requests, req' = req
    PROVE  LatestKey(r)' = LatestKey(r) /\ VersionKey(r)' = VersionKey(r) /\ Own(r)' = Own(r)
  BY DEF LatestKey, VersionKey, Own

LEMMA DropsMay ==
    ASSUME TypeInv, NEW r \in Requests, pc[r] \in Working, NEW k \in Key, Drops(r, k)
    PROVE  MayRemove(r, k) \/ (pc[r] = "drop latest" /\ k = LatestKey(r) /\ req[r].op = "commit")
  <1>1. pc[r] = "drop held" => \A h \in local[r].held : h.key[2] \notin AutoManaged
    BY AtWork DEF Fits
  <1> QED BY <1>1, OpAt DEF Drops, MayRemove, Working

LEMMA InsertTakes ==
    ASSUME TypeInv, NEW r \in Requests, NEW k \in Key, req[r].art \in Arts, Insert(r, k)
    PROVE  aliases'[k] # None
  <1>1. aliases \in [Key -> Row \cup {None}]
    BY DEF TypeInv, RowsOK
  <1>2. [by |-> r, art |-> req[r].art] # None
    BY NoneIsNoRow DEF Row
  <1> QED BY <1>1, <1>2 DEF Insert, Taken

\* What becomes of one row.
LEMMA WriteAt ==
    ASSUME TypeInv, NEW r \in Requests, NEW k \in Key, Writes(r)
    PROVE  /\ Taken(k) /\ ~Drops(r, k) => aliases'[k] # None
           /\ Taken(k) /\ aliases'[k] # None => aliases'[k].by = aliases[k].by
           /\ ~Taken(k) /\ aliases'[k] # None => aliases'[k].by = r /\ Adds(r, k)
  <1>1. Taken(k) /\ ~Drops(r, k) => aliases'[k] # None
    <2>1. aliases[k] # None => aliases[k] \in Row
      BY DEF TypeInv, RowsOK
    <2>2. CASE aliases'[k] = aliases[k]
      BY <2>2 DEF Taken
    <2>3. CASE Taken(k) /\ Steals(r, k) /\ aliases'[k] = [by |-> aliases[k].by, art |-> req[r].art]
      <3>1. None # aliases'[k]
        <4>1. pc[r] \in Working
          BY <2>3 DEF Steals, Working
        <4>2. req[r].art \in Arts
          BY <4>1, AtWork
        <4>3. aliases[k].by \in Requests
          BY <2>3, RowType
        <4>4. aliases'[k] \in Row
          BY <2>3, <4>2, <4>3 DEF Row
        <4> QED BY <4>4, NoneIsNoRow
      <3> QED BY <3>1
    <2> QED BY <2>2, <2>3 DEF Writes
  <1>2. Taken(k) /\ aliases'[k] # None => aliases'[k].by = aliases[k].by
    BY DEF Writes
  <1>3. ~Taken(k) /\ aliases'[k] # None => aliases'[k].by = r /\ Adds(r, k)
    BY DEF Writes, Taken
  <1> QED BY <1>1, <1>2, <1>3

LEMMA WriteKinds ==
    ASSUME NEW r \in Requests, NEW k \in Key, Writes(r), aliases'[k] # None
    PROVE  \/ aliases'[k] = aliases[k]
           \/ ~Taken(k) /\ aliases'[k].by = r /\ Adds(r, k)
           \/ /\ Taken(k) /\ Steals(r, k)
              /\ aliases'[k].by = aliases[k].by /\ aliases'[k].art = req[r].art
  BY DEF Writes

LEMMA PutTakes ==
    ASSUME TypeInv, NEW r \in Requests, pc[r] # "idle", ~Fails
    PROVE  /\ PutLatest(r) => aliases'[LatestKey(r)] # None
           /\ PutVersion(r) => aliases'[VersionKey(r)] # None
           /\ DropLatest(r) => aliases'[LatestKey(r)] = None
  <1>1. LatestKey(r) \in Key /\ VersionKey(r) \in Key /\ req[r].art \in Arts
    BY KeysOf
  <1>2. PutLatest(r) => Insert(r, LatestKey(r))
    BY DEF PutLatest, Try
  <1>3. PutVersion(r) => Insert(r, VersionKey(r))
    BY DEF PutVersion, Try
  <1>4. DropLatest(r) => Delete({LatestKey(r)})
    BY DEF DropLatest, Try
  <1>5. Delete({LatestKey(r)}) => aliases'[LatestKey(r)] = None
    BY <1>1 DEF Delete
  <1> QED BY <1>1, <1>2, <1>3, <1>4, <1>5, InsertTakes

\* Where a commit goes next.
LEMMA CommitFlow ==
    ASSUME TypeInv, NEW r \in Requests, Step(r), req[r].op = "commit"
    PROVE  /\ pc'[r] = "put latest" => DropLatest(r)
           /\ pc'[r] = "find version" => PutLatest(r)
           /\ pc'[r] = "put version" => FindVersion(r)
           /\ pc'[r] = "done" => FindVersion(r) \/ PutVersion(r)
           /\ pc[r] = "put latest" => PutLatest(r) \/ LookupFails(r)
  <1>1. pc \in [Requests -> Steps]
    BY DEF TypeInv, ControlOK
  <1>2. /\ LookupFails(r) => pc'[r] = "failed"
        /\ CommitState(r) => pc'[r] \in {"drop latest", "failed"} /\ pc[r] = "commit"
        /\ DropLatest(r) => pc'[r] = "put latest" /\ pc[r] = "drop latest"
        /\ PutLatest(r) => pc'[r] = "find version"
        /\ FindVersion(r) => pc'[r] \in {"put version", "done"} /\ pc[r] = "find version"
        /\ PutVersion(r) => pc'[r] = "done" /\ pc[r] = "put version"
    BY <1>1 DEF LookupFails, CommitState, DropLatest, PutLatest, FindVersion, PutVersion, Goto, Set, Finish
  <1> QED BY <1>2, CommitSteps

NotStale ==
    faults = 0 =>
        \A s \in Requests :
            /\ pc[s] \in {"put latest", "find version", "put version", "done"} /\ req[s].op = "commit"
            /\ Taken(LatestKey(s))
            => aliases[LatestKey(s)].by \notin before[s]

LEMMA NotStaleNext ==
    ASSUME TypeInv, Ended, NotStale, [Next]_vars
    PROVE  NotStale'
  <1> SUFFICES ASSUME faults' = 0, NEW s \in Requests,
                      pc'[s] \in {"put latest", "find version", "put version", "done"},
                      req'[s].op = "commit", aliases'[LatestKey(s)'] # None
               PROVE  aliases'[LatestKey(s)'].by \notin before'[s]
    BY DEF NotStale, Taken
  <1>1. CASE Quiet
    <2>1. pc'[s] = pc[s] /\ req'[s] = req[s] /\ before'[s] = before[s]
      BY <1>1 DEF Quiet
    <2>2. LatestKey(s)' = LatestKey(s)
      BY <2>1 DEF LatestKey, Own
    <2> QED BY <1>1, <2>1, <2>2 DEF Quiet, NotStale, Taken
  <1>2. ASSUME NEW r \in Requests, Step(r)
        PROVE  aliases'[LatestKey(s)'].by \notin before'[s]
    <2> DEFINE k == LatestKey(s)
    <2>1. /\ Writes(r) /\ pc[r] \in Working /\ pc[r] # "idle" /\ pc[r] # "done" /\ req' = req /\ before' = before
          /\ faults = 0 /\ ~Fails /\ \A q \in Requests \ {r} : pc'[q] = pc[q]
      BY <1>2, StepFacts
    <2>2. LatestKey(s)' = k /\ pc[s] # "idle"
      BY <2>1, KeysStay
    <2>3. k \in Key
      BY <2>2, KeysOf
    <2>4. CASE pc[s] \in {"put latest", "find version", "put version", "done"}
      <3>1. \/ Taken(k) /\ aliases'[k].by = aliases[k].by
            \/ aliases'[k].by = r
        BY <2>1, <2>2, <2>3, WriteAt
      <3>2. r \notin before[s]
        BY <2>1, NotBefore
      <3> QED BY <2>1, <2>2, <2>4, <3>1, <3>2 DEF NotStale
    <2>5. CASE pc[s] \notin {"put latest", "find version", "put version", "done"}
      <3>1. s = r
        BY <2>1, <2>5
      <3>2. DropLatest(r)
        BY <1>2, <2>1, <2>5, <3>1, CommitFlow DEF PutLatest, FindVersion, PutVersion
      <3> QED BY <2>1, <2>2, <3>1, <3>2, PutTakes
    <2> QED BY <2>4, <2>5
  <1> QED BY <1>1, <1>2, StepOrQuiet

Cut(q, c) == pc[q] \in {"put latest", "killed"} /\ req[q].op = "commit" /\ Own(q) = c

Present ==
    faults = 0 =>
        \A s \in Requests :
            pc[s] \in {"find version", "put version", "done"} /\ req[s].op = "commit" =>
                \/ Taken(LatestKey(s))
                \/ \E q \in Requests \ before[s] : MayRemove(q, LatestKey(s))
                \/ \E q \in Requests : Cut(q, Own(s))

LEMMA PresentNext ==
    ASSUME TypeInv, Ended, Present, [Next]_vars
    PROVE  Present'
  <1> SUFFICES ASSUME faults' = 0, NEW s \in Requests,
                      pc'[s] \in {"find version", "put version", "done"}, req'[s].op = "commit"
               PROVE  \/ aliases'[LatestKey(s)'] # None
                      \/ \E q \in Requests \ before'[s] : MayRemove(q, LatestKey(s))'
                      \/ \E q \in Requests : Cut(q, Own(s))'
    BY DEF Present, Taken
  <1> DEFINE k == LatestKey(s)
  <1>1. CASE Quiet
    <2>1. pc'[s] = pc[s] /\ req'[s] = req[s] /\ before'[s] = before[s]
      BY <1>1 DEF Quiet
    <2>2. k' = k /\ Own(s)' = Own(s) /\ aliases' = aliases /\ faults = 0
      BY <1>1, <2>1 DEF LatestKey, Own, Quiet
    <2>3. ASSUME NEW q \in Requests, Cut(q, Own(s)) PROVE Cut(q, Own(s))'
      <3>1. pc'[q] \in {"put latest", "killed"} /\ req'[q] = req[q]
        BY <1>1, <2>3 DEF Quiet, Cut
      <3> QED BY <2>2, <2>3, <3>1 DEF Cut, Own
    <2>4. \A q \in Requests : MayRemove(q, k) => MayRemove(q, k)'
      BY <2>2, ExceptionsStay DEF MayRemove
    <2> QED BY <2>1, <2>2, <2>3, <2>4 DEF Present, Taken
  <1>2. ASSUME NEW r \in Requests, Step(r)
        PROVE  \/ aliases'[LatestKey(s)'] # None
               \/ \E q \in Requests \ before'[s] : MayRemove(q, LatestKey(s))'
               \/ \E q \in Requests : Cut(q, Own(s))'
    <2>1. /\ Writes(r) /\ pc[r] \in Working /\ pc[r] # "idle" /\ pc[r] # "done" /\ req' = req /\ before' = before
          /\ faults = 0 /\ ~Fails /\ \A q \in Requests \ {r} : pc'[q] = pc[q]
      BY <1>2, StepFacts
    <2>2. k' = k /\ Own(s)' = Own(s) /\ pc[s] # "idle"
      BY <2>1, KeysStay
    <2>3. k \in Key /\ k[1] = Own(s)
      BY <2>2, KeysOf
    <2>4. \A q \in Requests : MayRemove(q, k) => MayRemove(q, k)'
      BY <2>1, <2>2, ExceptionsStay DEF MayRemove
    <2>5. CASE pc[s] \notin {"find version", "put version", "done"}
      <3>1. s = r
        BY <2>1, <2>5
      <3>2. PutLatest(r)
        BY <1>2, <2>1, <2>5, <3>1, CommitFlow DEF FindVersion, PutVersion
      <3> QED BY <2>1, <2>2, <3>1, <3>2, PutTakes
    <2>6. CASE Taken(k)
      <3>1. aliases'[k] # None \/ Drops(r, k)
        BY <2>1, <2>3, <2>6, WriteAt
      <3>2. CASE MayRemove(r, k)
        BY <2>1, <2>4, <3>2, NotBefore
      <3>3. CASE pc[r] = "drop latest" /\ k = LatestKey(r) /\ req[r].op = "commit"
        <4>1. DropLatest(r) \/ pc'[r] = "failed"
          <5>1. pc \in [Requests -> Steps]
            BY DEF TypeInv, ControlOK
          <5> QED BY <1>2, <3>3, <5>1, CommitSteps
                  DEF LookupFails, CommitState, PutLatest, FindVersion, PutVersion, Finish, Set
        <4>2. DropLatest(r)
          BY <1>2, <2>1, <3>3, CommitSteps DEF LookupFails, CommitState, PutLatest, FindVersion, PutVersion
        <4>3. pc'[r] = "put latest"
          BY <4>2 DEF DropLatest, Goto, TypeInv, ControlOK
        <4>4. Own(r) = Own(s)
          BY <3>3 DEF LatestKey
        <4>5. Cut(r, Own(s))'
          BY <2>1, <2>2, <3>3, <4>3, <4>4 DEF Cut, Own
        <4> QED BY <4>5
      <3> QED BY <2>1, <2>2, <2>3, <3>1, <3>2, <3>3, DropsMay
    <2>7. CASE \E q \in Requests \ before[s] : MayRemove(q, k)
      BY <2>1, <2>4, <2>7
    <2>8. ASSUME NEW q \in Requests, Cut(q, Own(s))
          PROVE  aliases'[k] # None \/ Cut(q, Own(s))'
      <3>1. CASE q # r
        BY <2>1, <2>2, <2>8, <3>1 DEF Cut, Own
      <3>2. CASE q = r
        <4>1. pc[r] = "put latest" /\ req[r].op = "commit" /\ Own(r) = Own(s)
          BY <2>1, <2>8, <3>2 DEF Cut, Working
        <4>2. PutLatest(r)
          BY <1>2, <2>1, <4>1, CommitFlow DEF LookupFails
        <4>3. LatestKey(r) = k
          BY <4>1 DEF LatestKey
        <4> QED BY <2>1, <4>2, <4>3, PutTakes
      <3> QED BY <3>1, <3>2
    <2> QED BY <2>1, <2>2, <2>5, <2>6, <2>7, <2>8 DEF Present
  <1> QED BY <1>1, <1>2, StepOrQuiet

\* Somebody may have put another vN there by hand.
ByHand(k) ==
    \E q \in Requests :
        \/ pc[q] # "idle" /\ req[q].op = "add" /\ k \in req[q].list
        \/ LinksTo(q, k[1])

\* A vN that nobody put there by hand is a version with that index.
Numbered ==
    \A k \in Key :
        Taken(k) /\ k[2][1] = "v" =>
            \/ LET a == aliases[k].art IN <<SequenceOf[a], V(VersionOf[a])>> = k
            \/ ByHand(k)

LEMMA ByHandStays ==
    ASSUME TypeInv, [Next]_vars, NEW k, ByHand(k)
    PROVE  ByHand(k)'
  <1>1. \A q \in Requests : pc[q] # "idle" => pc'[q] # "idle" /\ req'[q] = req[q]
    BY Stays
  <1>2. \A q \in Requests : LinksTo(q, k[1]) => LinksTo(q, k[1])'
    BY <1>1 DEF LinksTo
  <1> QED BY <1>1, <1>2 DEF ByHand

LEMMA NumberedNext ==
    ASSUME TypeInv, Numbered, [Next]_vars
    PROVE  Numbered'
  <1> SUFFICES ASSUME NEW k \in Key, aliases'[k] # None, k[2][1] = "v"
               PROVE  <<SequenceOf[aliases'[k].art], V(VersionOf[aliases'[k].art])>> = k \/ ByHand(k)'
    BY DEF Numbered, Taken
  <1>1. CASE Quiet
    BY <1>1, ByHandStays DEF Quiet, Numbered, Taken
  <1>2. ASSUME NEW r \in Requests, Step(r)
        PROVE  <<SequenceOf[aliases'[k].art], V(VersionOf[aliases'[k].art])>> = k \/ ByHand(k)'
    <2>1. Writes(r) /\ pc[r] \in Working /\ pc[r] # "idle"
      BY <1>2, StepFacts
    <2>2. CASE aliases'[k] = aliases[k]
      BY <2>2, ByHandStays DEF Numbered, Taken
    <2>3. CASE aliases'[k] = [by |-> r, art |-> req[r].art] /\ Adds(r, k)
      <3>1. k # LatestKey(r)
        BY KeysOf, <2>1 DEF LatestKey, Latest
      <3>2. k[2] \in AutoManaged
        BY KeyType DEF AutoManaged
      <3>3. CASE pc[r] = "put version" /\ k = VersionKey(r)
        <4>1. aliases'[k].art = req[r].art
          BY <2>3
        <4>2. VersionKey(r) = <<SequenceOf[req[r].art], V(VersionOf[req[r].art])>>
          BY DEF VersionKey, Own
        <4> QED BY <3>3, <4>1, <4>2
      <3>4. CASE pc[r] = "insert" /\ k \in req[r].list
        <4>1. ByHand(k)
          BY <2>1, <3>4, OpAt DEF ByHand
        <4> QED BY <4>1, ByHandStays
      <3>5. CASE pc[r] \in {"put link", "put alias"} /\ k[1] = req[r].coll
        <4>1. ByHand(k)
          BY <2>1, <3>5, OpAt DEF ByHand, LinksTo
        <4> QED BY <4>1, ByHandStays
      <3>6. k = LinkKey(r) => k[1] = req[r].coll
        BY DEF LinkKey
      <3> QED BY <2>3, <3>1, <3>2, <3>3, <3>4, <3>5, <3>6 DEF Adds
    <2>4. CASE Steals(r, k)
      <3>1. ByHand(k)
        BY <2>1, <2>4, OpAt DEF Steals, ByHand, LinksTo
      <3> QED BY <3>1, ByHandStays
    <2> QED BY <2>1, <2>2, <2>3, <2>4 DEF Writes
  <1> QED BY <1>1, <1>2, StepOrQuiet

VersionThere ==
    faults = 0 =>
        \A s \in Requests :
            pc[s] = "done" /\ req[s].op = "commit" =>
                Taken(VersionKey(s)) \/ \E q \in Requests \ before[s] : MayRemove(q, VersionKey(s))

LEMMA VersionNext ==
    ASSUME TypeInv, Ended, VersionThere, [Next]_vars
    PROVE  VersionThere'
  <1> DEFINE There(s) == \/ aliases'[VersionKey(s)'] # None
                         \/ \E q \in Requests \ before'[s] : MayRemove(q, VersionKey(s))'
  <1> SUFFICES ASSUME faults' = 0, NEW s \in Requests, pc'[s] = "done", req'[s].op = "commit"
               PROVE  There(s)
    BY DEF VersionThere, Taken
  <1> DEFINE k == VersionKey(s)
  <1>1. CASE Quiet
    <2>1. pc'[s] = pc[s] /\ req'[s] = req[s] /\ before'[s] = before[s]
      BY <1>1 DEF Quiet
    <2>2. k' = k /\ aliases' = aliases /\ faults = 0
      BY <1>1, <2>1 DEF VersionKey, Own, Quiet
    <2>3. \A q \in Requests : MayRemove(q, k) => MayRemove(q, k)'
      BY <2>2, ExceptionsStay DEF MayRemove
    <2> QED BY <2>1, <2>2, <2>3 DEF VersionThere, Taken
  <1>2. ASSUME NEW r \in Requests, Step(r) PROVE There(s)
    <2>1. /\ Writes(r) /\ pc[r] \in Working /\ pc[r] # "idle" /\ pc[r] # "done" /\ req' = req /\ before' = before
          /\ faults = 0 /\ ~Fails /\ \A q \in Requests \ {r} : pc'[q] = pc[q]
      BY <1>2, StepFacts
    <2>2. k' = k /\ pc[s] # "idle"
      BY <2>1, KeysStay
    <2>3. k \in Key /\ k[2] # Latest
      BY <2>2, KeysOf DEF Latest
    <2>4. \A q \in Requests : MayRemove(q, k) => MayRemove(q, k)'
      BY <2>1, <2>2, ExceptionsStay DEF MayRemove
    <2>5. CASE pc[s] # "done"
      <3>1. s = r
        BY <2>1, <2>5
      <3>2. PutVersion(r) \/ (FindVersion(r) /\ Taken(k) /\ aliases' = aliases)
        <4>1. FindVersion(r) \/ PutVersion(r)
          BY <1>2, <2>1, <3>1, CommitFlow
        <4>2. pc \in [Requests -> Steps]
          BY DEF TypeInv, ControlOK
        <4> QED BY <2>1, <3>1, <4>1, <4>2 DEF FindVersion, Goto, tables
      <3> QED BY <2>1, <2>2, <3>1, <3>2, PutTakes DEF Taken
    <2>6. CASE pc[s] = "done" /\ Taken(k)
      <3>1. aliases'[k] # None \/ Drops(r, k)
        BY <2>1, <2>3, <2>6, WriteAt
      <3>2. CASE MayRemove(r, k)
        BY <2>1, <2>4, <3>2, NotBefore
      <3>3. k # LatestKey(r)
        BY <2>3 DEF LatestKey
      <3> QED BY <2>1, <2>2, <2>3, <3>1, <3>2, <3>3, DropsMay
    <2>7. CASE \E q \in Requests \ before[s] : MayRemove(q, k)
      BY <2>1, <2>4, <2>7
    <2> QED BY <2>1, <2>5, <2>6, <2>7 DEF VersionThere
  <1> QED BY <1>1, <1>2, StepOrQuiet

(***************************************************************************)
(* updateArtifact: the aliases it read are gone when it answers.           *)
(***************************************************************************)
LEMMA UpdateFlow ==
    ASSUME TypeInv, NEW r \in Requests, Step(r), req[r].op = "update"
    PROVE  /\ pc'[r] = "drop held" => ReadAliases(r) \/ DropHeld(r)
           /\ pc'[r] = "set" => HeldDropped(r) \/ SetAlias(r)
           /\ pc'[r] = "done" => EndOfList(r, "set")
  <1>1. pc \in [Requests -> Steps]
    BY DEF TypeInv, ControlOK
  <1>2. /\ LookupFails(r) => pc'[r] = "failed"
        /\ ReadAliases(r) => pc'[r] = "drop held"
        /\ DropHeld(r) => pc'[r] = "drop held"
        /\ HeldDropped(r) => pc'[r] = "set"
        /\ SetAlias(r) => pc'[r] \in {"set", "failed"}
        /\ EndOfList(r, "set") => pc'[r] \in {"done", "failed"}
    BY <1>1 DEF LookupFails, ReadAliases, DropHeld, HeldDropped, SetAlias, EndOfList, Goto, Set, Finish
  <1> QED BY <1>2, UpdateSteps

\* A link may have moved an alias of collection c to the artifact of s since
\* s was received.
MovedTo(s, c) == \E q \in Requests \ before[s] : LinksTo(q, c) /\ req[q].art = req[s].art

Shed ==
    faults = 0 =>
        \A s \in Requests :
            pc[s] \in {"drop held", "set", "done"} /\ req[s].op = "update" =>
                \A k \in Key :
                    Taken(k) /\ aliases[k].art = req[s].art /\ k[2] \notin AutoManaged =>
                        \/ aliases[k].by \notin before[s]
                        \/ pc[s] = "drop held" /\ \E h \in local[s].held : h.key = k /\ h.by = aliases[k].by
                        \/ MovedTo(s, k[1])

\* A link by an overlapping request stays one.
LEMMA MovedStays ==
    ASSUME TypeInv, [Next]_vars, NEW s \in Requests, NEW c, MovedTo(s, c),
           req'[s] = req[s], before'[s] = before[s]
    PROVE  MovedTo(s, c)'
  <1>1. PICK q \in Requests \ before[s] : LinksTo(q, c) /\ req[q].art = req[s].art
    BY DEF MovedTo
  <1>2. pc[q] # "idle" /\ req[q].op = "link" /\ req[q].coll = c
    BY <1>1 DEF LinksTo
  <1>3. pc'[q] # "idle" /\ req'[q] = req[q]
    BY <1>2, Stays
  <1>4. LinksTo(q, c)'
    BY <1>2, <1>3 DEF LinksTo
  <1>5. q \in Requests \ before'[s] /\ req'[q].art = req'[s].art
    BY <1>1, <1>3
  <1> QED BY <1>4, <1>5 DEF MovedTo

LEMMA ShedNext ==
    ASSUME TypeInv, Ended, Shed, [Next]_vars
    PROVE  Shed'
  <1> DEFINE Gone(s, k) ==
        \/ aliases'[k].by \notin before'[s]
        \/ pc'[s] = "drop held" /\ \E h \in local'[s].held : h.key = k /\ h.by = aliases'[k].by
        \/ MovedTo(s, k[1])'
  <1> SUFFICES ASSUME faults' = 0, NEW s \in Requests, pc'[s] \in {"drop held", "set", "done"},
                      req'[s].op = "update", NEW k \in Key, aliases'[k] # None,
                      aliases'[k].art = req'[s].art, k[2] \notin AutoManaged
               PROVE  Gone(s, k)
    BY DEF Shed, Taken
  <1>1. CASE Quiet
    <2>1. pc'[s] = pc[s] /\ req'[s] = req[s] /\ before'[s] = before[s] /\ local'[s] = local[s]
      BY <1>1 DEF Quiet
    <2>2. aliases' = aliases /\ faults = 0
      BY <1>1 DEF Quiet
    <2>3. MovedTo(s, k[1]) => MovedTo(s, k[1])'
      BY <2>1, MovedStays
    <2>4. \/ aliases[k].by \notin before[s]
          \/ pc[s] = "drop held" /\ \E h \in local[s].held : h.key = k /\ h.by = aliases[k].by
          \/ MovedTo(s, k[1])
      BY <2>1, <2>2 DEF Shed, Taken
    <2> QED BY <2>1, <2>2, <2>3, <2>4
  <1>2. ASSUME NEW r \in Requests, Step(r) PROVE Gone(s, k)
    <2>1. /\ Writes(r) /\ pc[r] \in Working /\ pc[r] # "idle" /\ pc[r] # "done" /\ req' = req /\ before' = before
          /\ faults = 0 /\ ~Fails /\ \A q \in Requests \ {r} : pc'[q] = pc[q] /\ local'[q] = local[q]
      BY <1>2, StepFacts
    <2>2. MovedTo(s, k[1]) => MovedTo(s, k[1])'
      BY <2>1, MovedStays
    <2>3. r \notin before[s]
      BY <2>1, NotBefore
    <2>4. CASE aliases'[k].by = r
      BY <2>1, <2>3, <2>4
    <2>5. CASE Steals(r, k) /\ aliases'[k].art = req[r].art
      <3>1. LinksTo(r, k[1])
        BY <2>1, <2>5, OpAt DEF Steals, LinksTo
      <3>3. req[r].art = req[s].art
        BY <2>1, <2>5
      <3>2. MovedTo(s, k[1])
        BY <2>3, <3>1, <3>3 DEF MovedTo
      <3> QED BY <2>2, <3>2
    <2>6. CASE aliases'[k] = aliases[k]
      <3>1. Taken(k) /\ aliases[k].art = req[s].art
        BY <2>1, <2>6 DEF Taken
      <3>2. CASE pc[s] \notin {"drop held", "set", "done"}
        <4>1. s = r
          BY <2>1, <3>2
        <4>2. ReadAliases(r)
          BY <1>2, <2>1, <3>2, <4>1, UpdateFlow DEF DropHeld, HeldDropped, SetAlias, EndOfList
        <4> DEFINE held == {Held(x) : x \in {x \in RowsOf(req[r].art) : x[2] \notin AutoManaged}}
        <4>3. Set(r, "drop held", [local[r] EXCEPT !.held = held])
          BY <2>1, <4>2 DEF ReadAliases
        <4>4. pc'[r] = "drop held" /\ local'[r].held = held
          BY <4>3 DEF Set, TypeInv, ControlOK, Locals
        <4>5. Held(k) \in held
          BY <3>1, <4>1 DEF RowsOf
        <4>6. Held(k).key = k /\ Held(k).by = aliases'[k].by
          BY <2>6 DEF Held
        <4> QED BY <4>1, <4>4, <4>5, <4>6
      <3>3. CASE aliases[k].by \notin before[s]
        BY <2>1, <2>6, <3>3
      <3>4. CASE MovedTo(s, k[1])
        BY <2>2, <3>4
      <3>5. ASSUME pc[s] = "drop held", NEW h \in local[s].held, h.key = k, h.by = aliases[k].by
            PROVE  Gone(s, k)
        <4>1. CASE s # r
          BY <2>1, <2>6, <3>5, <4>1
        <4>2. CASE s = r
          <5>1. DropHeld(r)
            BY <1>2, <2>1, <3>5, <4>2, UpdateFlow DEF ReadAliases, HeldDropped, SetAlias, EndOfList
          <5>2. PICK g \in local[r].held : /\ Delete({x \in {g.key} : StillThere(g)})
                                           /\ Set(r, "drop held", [local[r] EXCEPT !.held = @ \ {g}])
            BY <2>1, <5>1 DEF DropHeld, Try
          <5>3. pc'[r] = "drop held" /\ local'[r].held = local[r].held \ {g}
            BY <5>2 DEF Set, TypeInv, ControlOK, Locals
          <5>4. g # h
            <6>1. SUFFICES ASSUME g = h PROVE FALSE
              OBVIOUS
            <6>2. StillThere(g) /\ g.key = k
              BY <3>1, <3>5, <6>1 DEF StillThere
            <6>3. aliases'[k] = None
              BY <5>2, <6>2 DEF Delete
            <6> QED BY <6>3
          <5>5. h \in local'[s].held
            BY <3>5, <4>2, <5>3, <5>4
          <5> QED BY <2>6, <3>5, <4>2, <5>3, <5>5
        <4> QED BY <4>1, <4>2
      <3> QED BY <2>1, <3>1, <3>2, <3>3, <3>4, <3>5 DEF Shed
    <2> QED BY <2>1, <2>4, <2>5, <2>6, WriteKinds
  <1> QED BY <1>1, <1>2, StepOrQuiet

(***************************************************************************)
(* Which aliases a request may take away: a request inserts a key once, so *)
(* the row a read found and the row that replaced it differ.               *)
(***************************************************************************)
\* The request may still insert the key.  (Links are left out.)
Pending(q, k) ==
    \/ pc[q] = "idle"
    \/ /\ req[q].op = "commit"
       /\ \/ k = LatestKey(q) /\ pc[q] \in {"commit", "drop latest", "put latest"}
          \/ k = VersionKey(q)
             /\ pc[q] \in {"commit", "drop latest", "put latest", "find version", "put version"}
    \/ req[q].op \in {"update", "add"} /\ pc[q] \in Working /\ k \in local[q].todo

Fresh ==
    /\ \A k \in Key, q \in Requests : Taken(k) /\ aliases[k].by = q => ~Pending(q, k)
    /\ \A s \in Requests : \A h \in local[s].held : ~Pending(h.by, h.key)

LEMMA SetTodo ==
    ASSUME TypeInv, NEW r \in Requests, NEW s, NEW l, Set(r, s, l)
    PROVE  pc'[r] = s /\ local'[r] = l
  BY DEF Set, TypeInv, ControlOK

LEMMA TodoShrinks ==
    ASSUME TypeInv, NEW r \in Requests, Step(r), req[r].op \in {"update", "add"}
    PROVE  local'[r].todo \subseteq local[r].todo
  <1>1. local[r] \in Locals
    BY DEF TypeInv, ControlOK
  <1>2. \/ \E s : Finish(r, s)
        \/ \E s : Goto(r, s)
        \/ \E s, k : Set(r, s, Rest(r, k))
        \/ \E k : Set(r, "insert", [local[r] EXCEPT !.cur = k])
        \/ \E h : Set(r, "drop held", [local[r] EXCEPT !.held = h])
    BY UpdateSteps, AddSteps
       DEF LookupFails, ReadAliases, DropHeld, HeldDropped, SetAlias, EndOfList, AddCheck, AddInsert
  <1>3. NoLocals.todo = {}
    BY DEF NoLocals
  <1>4. ASSUME NEW s, Finish(r, s) PROVE local'[r].todo \subseteq local[r].todo
    BY <1>3, <1>4, SetTodo DEF Finish
  <1>5. ASSUME NEW s, Goto(r, s) PROVE local'[r].todo \subseteq local[r].todo
    BY <1>5 DEF Goto
  <1>6. ASSUME NEW s, NEW k, Set(r, s, Rest(r, k)) PROVE local'[r].todo \subseteq local[r].todo
    BY <1>6, SetTodo, RestType
  <1>7. ASSUME NEW k, Set(r, "insert", [local[r] EXCEPT !.cur = k]) PROVE local'[r].todo \subseteq local[r].todo
    BY <1>1, <1>7, SetTodo DEF Locals
  <1>8. ASSUME NEW h, Set(r, "drop held", [local[r] EXCEPT !.held = h]) PROVE local'[r].todo \subseteq local[r].todo
    BY <1>1, <1>8, SetTodo DEF Locals
  <1> QED BY <1>2, <1>4, <1>5, <1>6, <1>7, <1>8

LEMMA PendingShrinks ==
    ASSUME TypeInv, [Next]_vars, NEW q \in Requests, NEW k, ~Pending(q, k)
    PROVE  ~Pending(q, k)'
  <1>1. pc[q] # "idle" /\ pc'[q] # "idle" /\ req'[q] = req[q]
    BY Stays DEF Pending
  <1>2. LatestKey(q)' = LatestKey(q) /\ VersionKey(q)' = VersionKey(q)
    BY <1>1 DEF LatestKey, VersionKey, Own
  <1>3. CASE Quiet
    <2>1. \/ pc'[q] = pc[q] /\ local'[q] = local[q]
          \/ pc'[q] = "killed"
      BY <1>1, <1>3 DEF Quiet
    <2> QED BY <1>1, <1>2, <2>1 DEF Pending, Working
  <1>4. ASSUME NEW r \in Requests, Step(r) PROVE ~Pending(q, k)'
    <2>1. CASE q # r
      <3>1. pc'[q] = pc[q] /\ local'[q] = local[q]
        BY <1>4, <2>1, StepFacts
      <3> QED BY <1>1, <1>2, <3>1 DEF Pending
    <2>2. CASE q = r
      <3>1. pc[r] \in Working
        BY <1>4, StepFacts
      <3>2. CASE req[r].op \in {"update", "add"}
        BY <1>1, <1>2, <1>4, <2>2, <3>1, <3>2, TodoShrinks DEF Pending
      <3>3. CASE req[r].op = "commit"
        <4>1. \/ pc'[r] = "failed"
              \/ pc[r] = "commit"
              \/ pc[r] = "drop latest" /\ pc'[r] = "put latest"
              \/ pc[r] = "put latest" /\ pc'[r] = "find version"
              \/ pc[r] = "find version" /\ pc'[r] \in {"put version", "done"}
              \/ pc[r] = "put version" /\ pc'[r] = "done"
          <5>1. pc \in [Requests -> Steps]
            BY DEF TypeInv, ControlOK
          <5> QED BY <1>4, <3>3, <5>1, CommitSteps
                  DEF LookupFails, CommitState, DropLatest, PutLatest, FindVersion, PutVersion, Goto, Set, Finish
        <4> QED BY <1>1, <1>2, <2>2, <3>3, <4>1 DEF Pending
      <3>4. CASE req[r].op \notin {"update", "add", "commit"}
        BY <1>1, <2>2, <3>4 DEF Pending
      <3> QED BY <3>2, <3>3, <3>4
    <2> QED BY <2>1, <2>2
  <1> QED BY <1>3, <1>4, StepOrQuiet

\* What is inserted is no longer pending.
LEMMA InsertedOnce ==
    ASSUME TypeInv, NEW r \in Requests, Step(r), NEW k \in Key, ~Taken(k), aliases'[k] # None
    PROVE  ~Pending(r, k)'
  <1>1. Writes(r) /\ pc[r] \in Working /\ pc[r] # "idle" /\ pc'[r] # "idle" /\ req' = req
    BY StepFacts
  <1>2. LatestKey(r)' = LatestKey(r) /\ VersionKey(r)' = VersionKey(r) /\ LatestKey(r) # VersionKey(r)
    BY <1>1, KeysStay, KeysOf
  <1>3. Adds(r, k)
    BY <1>1, WriteAt
  <1>4. pc \in [Requests -> Steps] /\ local[r] \in Locals
    BY DEF TypeInv, ControlOK
  <1>5. CASE pc[r] = "put latest" /\ k = LatestKey(r)
    <2>1. pc'[r] = "find version"
      <3>1. PutLatest(r) \/ LookupFails(r)
        BY <1>1, <1>5, OpAt, CommitFlow
      <3>2. LookupFails(r) => aliases' = aliases
        BY DEF LookupFails, tables
      <3> QED BY <1>4, <3>1, <3>2 DEF PutLatest, Goto, Taken
    <2>2. req[r].op = "commit"
      BY <1>1, <1>5, OpAt
    <2> QED BY <1>1, <1>2, <1>5, <2>1, <2>2 DEF Pending
  <1>6. CASE pc[r] = "put version" /\ k = VersionKey(r)
    <2>1. req[r].op = "commit"
      BY <1>1, <1>6, OpAt
    <2>2. pc'[r] \in {"done", "failed"}
      BY <1>4, <1>6, <2>1, CommitSteps
         DEF LookupFails, CommitState, DropLatest, PutLatest, FindVersion, PutVersion, Set, Finish
    <2> QED BY <1>1, <2>1, <2>2 DEF Pending
  <1>7. CASE pc[r] = "set"
    <2>1. req[r].op = "update"
      BY <1>1, <1>7, OpAt
    <2>2. SetAlias(r)
      <3>1. LookupFails(r) \/ EndOfList(r, "set") => aliases' = aliases
        BY DEF LookupFails, EndOfList, tables
      <3> QED BY <1>7, <2>1, <3>1, UpdateSteps DEF ReadAliases, DropHeld, HeldDropped, Taken
    <2>3. PICK x \in local[r].todo : Insert(r, x) /\ Set(r, "set", Rest(r, x))
      BY <2>2 DEF SetAlias, Try, Taken
    <2>4. x = k
      BY <2>3 DEF Insert, Taken, TypeInv, RowsOK
    <2>5. k \notin local'[r].todo
      BY <2>3, <2>4, SetTodo, RestType
    <2> QED BY <1>1, <2>1, <2>5 DEF Pending
  <1>8. CASE pc[r] = "insert"
    <2>1. req[r].op = "add"
      BY <1>1, <1>8, OpAt
    <2>2. AddInsert(r)
      <3>1. LookupFails(r) \/ EndOfList(r, "add") => aliases' = aliases
        BY DEF LookupFails, EndOfList, tables
      <3> QED BY <1>8, <2>1, <3>1, AddSteps DEF AddCheck, Taken
    <2>3. Insert(r, local[r].cur) /\ Set(r, "add", Rest(r, local[r].cur))
      BY <2>2 DEF AddInsert, Taken
    <2>4. local[r].cur = k
      BY <2>3 DEF Insert, Taken, TypeInv, RowsOK
    <2>5. k \notin local'[r].todo
      BY <2>3, <2>4, SetTodo, RestType
    <2> QED BY <1>1, <2>1, <2>5 DEF Pending
  <1>9. CASE pc[r] \in {"put link", "put alias"}
    <2>1. req[r].op = "link"
      BY <1>1, <1>9, OpAt
    <2> QED BY <1>1, <2>1 DEF Pending
  <1> QED BY <1>3, <1>5, <1>6, <1>7, <1>8, <1>9 DEF Adds

\* What a step holds was held before or is a row of the table.
LEMMA HeldFrom ==
    ASSUME TypeInv, NEW r \in Requests, Step(r), NEW h \in local'[r].held
    PROVE  \/ h \in local[r].held
           \/ /\ aliases' = aliases /\ h.key \in Key /\ Taken(h.key) /\ h.by = aliases[h.key].by
              /\ \/ req[r].op = "link"
                 \/ aliases[h.key].art = req[r].art
  <1>1. pc[r] \in Working /\ local[r] \in Locals /\ req[r].coll \in Colls /\ req[r].list \subseteq Key
        /\ local[r].todo \subseteq req[r].list
    BY StepFacts, AtWork
  <1>2. TypeInv'
    BY TypeStep
  <1>3. pc'[r] \in {"drop held", "move alias"}
    BY <1>2 DEF TypeInv, Placed, Fits
  <1>4. pc'[r] \in Working /\ req' = req
    BY <1>3, StepFacts DEF Working
  <1>5. StepOf(pc'[r], req[r].op)
    BY <1>2, <1>4 DEF TypeInv, Placed, Fits
  <1>6. CASE pc'[r] = "drop held"
    <2>1. req[r].op = "update"
      BY <1>5, <1>6 DEF StepOf
    <2>2. CASE DropHeld(r)
      <3>1. PICK g \in local[r].held : Set(r, "drop held", [local[r] EXCEPT !.held = @ \ {g}])
        BY <2>2 DEF DropHeld
      <3>2. local'[r].held = local[r].held \ {g}
        <4>1. local'[r] = [local[r] EXCEPT !.held = @ \ {g}]
          BY <3>1, SetTodo
        <4> QED BY <1>1, <4>1 DEF Locals
      <3> QED BY <3>2
    <2>3. CASE ReadAliases(r)
      <3> DEFINE held == {Held(x) : x \in {x \in RowsOf(req[r].art) : x[2] \notin AutoManaged}}
      <3>1. aliases' = aliases
        BY <2>3 DEF ReadAliases, tables
      <3>2. CASE Goto(r, "drop held")
        BY <3>2 DEF Goto
      <3>3. CASE Set(r, "drop held", [local[r] EXCEPT !.held = held])
        <4>1. h \in held
          <5>1. local'[r] = [local[r] EXCEPT !.held = held]
            BY <3>3, SetTodo
          <5>2. local'[r].held = held
            BY <1>1, <5>1 DEF Locals
          <5> QED BY <5>2
        <4>2. PICK x \in RowsOf(req[r].art) : h = Held(x)
          BY <4>1
        <4>3. h.key = x /\ h.by = aliases[x].by
          BY <4>2 DEF Held
        <4>4. x \in Key /\ Taken(x) /\ aliases[x].art = req[r].art
          BY DEF RowsOf
        <4> QED BY <3>1, <4>3, <4>4
      <3> QED BY <2>3, <3>2, <3>3 DEF ReadAliases
    <2> QED BY <1>6, <2>1, <2>2, <2>3, UpdateFlow
  <1>7. CASE pc'[r] = "move alias"
    <2>1. req[r].op = "link"
      BY <1>5, <1>7 DEF StepOf
    <2>2. pc \in [Requests -> Steps]
      BY DEF TypeInv, ControlOK
    <2>3. FindAlias(r)
      BY <1>7, <2>1, <2>2, LinkSteps
         DEF LookupFails, FindPortfolioType, NewPortfolioType, FindPortfolio, NewPortfolio, Count, Linked,
             PutLink, PutAlias, MoveAlias, EndOfList, Goto, Set, Finish
    <2>4. PICK k \in local[r].todo :
             /\ Taken(InPortfolio(r, k))
             /\ Set(r, "move alias", [local[r] EXCEPT !.cur = k, !.held = {Held(InPortfolio(r, k))}])
      BY <1>7, <2>2, <2>3 DEF FindAlias, Set
    <2>5. local'[r].held = {Held(InPortfolio(r, k))}
      BY <1>1, <2>4, SetTodo DEF Locals
    <2>6. InPortfolio(r, k) \in Key
      BY <1>1, KeyType DEF InPortfolio
    <2>7. h.key = InPortfolio(r, k) /\ h.by = aliases[InPortfolio(r, k)].by
      BY <2>5 DEF Held
    <2>8. aliases' = aliases
      BY <2>3 DEF FindAlias, tables
    <2> QED BY <2>1, <2>4, <2>6, <2>7, <2>8
  <1> QED BY <1>3, <1>6, <1>7

LEMMA HeldType ==
    ASSUME TypeInv, NEW s \in Requests, NEW h \in local[s].held
    PROVE  h.key \in Key /\ h.by \in Requests
  BY DEF TypeInv, ControlOK, Locals

LEMMA FreshNext ==
    ASSUME TypeInv, Fresh, [Next]_vars
    PROVE  Fresh'
  <1>1. \A q \in Requests : \A k : ~Pending(q, k) => ~Pending(q, k)'
    BY PendingShrinks
  <1>2. ASSUME NEW s \in Requests, NEW h \in local[s].held PROVE ~Pending(h.by, h.key)'
    BY <1>1, <1>2, HeldType DEF Fresh
  <1>3. ASSUME NEW k \in Key, NEW q \in Requests, Taken(k), aliases[k].by = q PROVE ~Pending(q, k)'
    BY <1>1, <1>3 DEF Fresh
  <1>4. CASE Quiet
    <2>1. aliases' = aliases /\ \A s \in Requests : local'[s].held = local[s].held \/ local'[s].held = {}
      <3>1. NoLocals.held = {}
        BY DEF NoLocals
      <3> QED BY <1>4, <3>1 DEF Quiet
    <2>2. ASSUME NEW k \in Key, NEW q \in Requests, Taken(k)', aliases'[k].by = q PROVE ~Pending(q, k)'
      BY <1>3, <2>1, <2>2 DEF Taken
    <2>3. ASSUME NEW s \in Requests, NEW h \in local'[s].held PROVE ~Pending(h.by, h.key)'
      BY <1>2, <2>1, <2>3
    <2> QED BY <2>2, <2>3 DEF Fresh
  <1>5. ASSUME NEW r \in Requests, Step(r) PROVE Fresh'
    <2>1. Writes(r) /\ \A q \in Requests \ {r} : local'[q] = local[q]
      BY <1>5, StepFacts
    <2>2. ASSUME NEW k \in Key, NEW q \in Requests, Taken(k)', aliases'[k].by = q PROVE ~Pending(q, k)'
      <3>1. aliases'[k] # None
        BY <2>2 DEF Taken
      <3>2. CASE Taken(k)
        <4>1. aliases[k].by = q
          BY <2>1, <2>2, <3>1, <3>2, WriteAt
        <4> QED BY <1>3, <3>2, <4>1
      <3>3. CASE ~Taken(k)
        <4>1. q = r
          BY <2>1, <2>2, <3>1, <3>3, WriteAt
        <4> QED BY <1>5, <3>1, <3>3, <4>1, InsertedOnce
      <3> QED BY <3>2, <3>3
    <2>3. ASSUME NEW s \in Requests, NEW h \in local'[s].held PROVE ~Pending(h.by, h.key)'
      <3>1. CASE h \in local[s].held
        BY <1>2, <3>1
      <3>2. CASE s = r /\ h \notin local[s].held
        <4>1. h.key \in Key /\ Taken(h.key) /\ h.by = aliases[h.key].by
          BY <1>5, <2>3, <3>2, HeldFrom
        <4>2. h.by \in Requests
          BY <4>1, RowType
        <4> QED BY <1>3, <4>1, <4>2
      <3> QED BY <2>1, <2>3, <3>1, <3>2
    <2> QED BY <2>2, <2>3 DEF Fresh
  <1> QED BY <1>4, <1>5, StepOrQuiet

\* What is inserted was pending, but by a link.
LEMMA InsertPending ==
    ASSUME TypeInv, NEW r \in Requests, Step(r), NEW k \in Key, ~Taken(k), aliases'[k] # None
    PROVE  Pending(r, k) \/ LinksTo(r, k[1])
  <1>1. Writes(r) /\ pc[r] \in Working /\ pc[r] # "idle"
    BY StepFacts
  <1>2. Adds(r, k)
    BY <1>1, WriteAt
  <1>3. CASE pc[r] \in {"put latest", "put version"}
    BY <1>1, <1>2, <1>3, OpAt DEF Adds, Pending
  <1>4. CASE pc[r] = "set"
    <2>1. req[r].op = "update"
      BY <1>1, <1>4, OpAt
    <2>2. SetAlias(r)
      <3>1. LookupFails(r) \/ EndOfList(r, "set") => aliases' = aliases
        BY DEF LookupFails, EndOfList, tables
      <3> QED BY <1>4, <2>1, <3>1, UpdateSteps DEF ReadAliases, DropHeld, HeldDropped, Taken
    <2>3. PICK x \in local[r].todo : Insert(r, x)
      BY <2>2 DEF SetAlias, Try, Taken
    <2>4. x = k
      BY <2>3 DEF Insert, Taken, TypeInv, RowsOK
    <2> QED BY <1>1, <2>1, <2>3, <2>4 DEF Pending
  <1>5. CASE pc[r] = "insert"
    <2>1. req[r].op = "add"
      BY <1>1, <1>5, OpAt
    <2>2. AddInsert(r)
      <3>1. LookupFails(r) \/ EndOfList(r, "add") => aliases' = aliases
        BY DEF LookupFails, EndOfList, tables
      <3> QED BY <1>5, <2>1, <3>1, AddSteps DEF AddCheck, Taken
    <2>3. Insert(r, local[r].cur)
      BY <2>2 DEF AddInsert, Taken
    <2>4. local[r].cur = k
      BY <2>3 DEF Insert, Taken, TypeInv, RowsOK
    <2>5. local[r].cur \in local[r].todo
      BY <1>1, <1>5, AtWork DEF Fits
    <2> QED BY <1>1, <2>1, <2>4, <2>5 DEF Pending
  <1>6. CASE pc[r] \in {"put link", "put alias"}
    <2>1. req[r].op = "link"
      BY <1>1, <1>6, OpAt
    <2>2. k = LinkKey(r) => k[1] = req[r].coll
      BY DEF LinkKey
    <2> QED BY <1>1, <1>2, <1>6, <2>1, <2>2 DEF Adds, LinksTo
  <1> QED BY <1>2, <1>3, <1>4, <1>5, <1>6 DEF Adds

\* What updateArtifact holds is still its own, or a link has moved it.
HeldOwn ==
    \A s \in Requests :
        pc[s] = "drop held" =>
            \A h \in local[s].held :
                StillThere(h) =>
                    \/ aliases[h.key].art = req[s].art
                    \/ \E q \in Requests : LinksTo(q, h.key[1])

LEMMA HeldOwnNext ==
    ASSUME TypeInv, Fresh, HeldOwn, [Next]_vars
    PROVE  HeldOwn'
  <1> DEFINE Kept(s, h) == aliases'[h.key].art = req'[s].art \/ \E q \in Requests : LinksTo(q, h.key[1])'
  <1> SUFFICES ASSUME NEW s \in Requests, pc'[s] = "drop held", NEW h \in local'[s].held, StillThere(h)'
               PROVE  Kept(s, h)
    BY DEF HeldOwn
  <1>1. \A q \in Requests : LinksTo(q, h.key[1]) => LinksTo(q, h.key[1])'
    BY ExceptionsStay
  <1>2. CASE Quiet
    <2>1. pc'[s] = pc[s] /\ req'[s] = req[s] /\ local'[s] = local[s] /\ aliases' = aliases
      BY <1>2 DEF Quiet
    <2>2. StillThere(h)
      BY <2>1 DEF StillThere, Taken
    <2> QED BY <1>1, <2>1, <2>2 DEF HeldOwn
  <1>3. ASSUME NEW r \in Requests, Step(r) PROVE Kept(s, h)
    <2>1. /\ Writes(r) /\ pc[r] \in Working /\ pc[r] # "idle" /\ req' = req
          /\ \A q \in Requests \ {r} : pc'[q] = pc[q] /\ local'[q] = local[q]
      BY <1>3, StepFacts
    <2>2. aliases'[h.key] # None /\ aliases'[h.key].by = h.by
      BY DEF StillThere, Taken
    <2>3. CASE pc[s] = "drop held" /\ h \in local[s].held
      <3>1. h.key \in Key /\ h.by \in Requests
        BY <2>3, HeldType
      <3>2. CASE aliases'[h.key] = aliases[h.key]
        <4>1. StillThere(h)
          BY <2>2, <3>2 DEF StillThere, Taken
        <4> QED BY <1>1, <2>1, <2>3, <3>2, <4>1 DEF HeldOwn
      <3>3. CASE ~Taken(h.key) /\ aliases'[h.key].by = r
        <4>1. h.by = r
          BY <2>2, <3>3
        <4>2. ~Pending(r, h.key)
          BY <2>3, <4>1 DEF Fresh
        <4>3. LinksTo(r, h.key[1])
          BY <1>3, <2>2, <3>1, <3>3, <4>2, InsertPending
        <4> QED BY <1>1, <4>3
      <3>4. CASE Steals(r, h.key)
        <4>1. LinksTo(r, h.key[1])
          BY <2>1, <3>4, OpAt DEF Steals, LinksTo
        <4> QED BY <1>1, <4>1
      <3> QED BY <2>1, <2>2, <3>1, <3>2, <3>3, <3>4, WriteKinds
    <2>4. CASE ~(pc[s] = "drop held" /\ h \in local[s].held)
      <3>1. s = r
        BY <2>1, <2>4
      <3>2. req[r].op = "update"
        <4>1. TypeInv' /\ pc'[r] \in Working
          BY <1>3, <3>1, TypeStep DEF Working
        <4> QED BY <2>1, <3>1, <4>1 DEF TypeInv, Placed, Fits, StepOf
      <3>3. h \notin local[r].held
        <4>1. ASSUME pc[r] # "drop held" PROVE local[r].held = {}
          <5>1. ReadAliases(r)
            BY <1>3, <3>1, <3>2, <4>1, UpdateFlow DEF DropHeld
          <5>2. pc[r] = "read aliases"
            BY <5>1 DEF ReadAliases
          <5> QED BY <2>1, <5>2, AtWork DEF Fits
        <4> QED BY <2>4, <3>1, <4>1
      <3>4. aliases' = aliases /\ aliases[h.key].art = req[r].art
        BY <1>3, <3>1, <3>2, <3>3, HeldFrom
      <3> QED BY <2>1, <3>1, <3>4
    <2> QED BY <2>3, <2>4
  <1> QED BY <1>2, <1>3, StepOrQuiet

\* A step moves its request.
LEMMA StepChanges ==
    ASSUME TypeInv, NEW r \in Requests, Step(r)
    PROVE  pc'[r] # pc[r] \/ local'[r] # local[r]
  <1>1. pc \in [Requests -> Steps] /\ local \in [Requests -> Locals] /\ local[r] \in Locals
        /\ pc[r] \in Working
    BY StepFacts DEF TypeInv, ControlOK
  <1>2. ASSUME NEW s \in {"done", "failed"}, Finish(r, s) PROVE pc'[r] # pc[r]
    BY <1>1, <1>2 DEF Finish, Set, Working
  <1>3. ASSUME NEW s, s # pc[r], Goto(r, s) PROVE pc'[r] # pc[r]
    BY <1>1, <1>3 DEF Goto
  <1>4. ASSUME NEW s, NEW l, s # pc[r], Set(r, s, l) PROVE pc'[r] # pc[r]
    BY <1>4, SetTodo
  <1>5. ASSUME NEW s, NEW k \in local[r].todo, Set(r, s, Rest(r, k)) PROVE local'[r] # local[r]
    <2>1. local'[r].todo = local[r].todo \ {k}
      BY <1>5, SetTodo, RestType
    <2> QED BY <2>1
  <1>6. ASSUME NEW h \in local[r].held, Set(r, "drop held", [local[r] EXCEPT !.held = @ \ {h}])
        PROVE  local'[r] # local[r]
    <2>1. local'[r] = [local[r] EXCEPT !.held = @ \ {h}]
      BY <1>6, SetTodo
    <2>2. local'[r].held = local[r].held \ {h}
      BY <1>1, <2>1 DEF Locals
    <2> QED BY <2>2
  <1>7. CASE LookupFails(r) \/ CommitState(r) \/ DropLatest(r) \/ PutLatest(r) \/ FindVersion(r) \/ PutVersion(r)
             \/ DropAliases(r) \/ MarkDeleted(r)
    BY <1>2, <1>3, <1>7
       DEF LookupFails, CommitState, DropLatest, PutLatest, FindVersion, PutVersion, DropAliases, MarkDeleted
  <1>8. CASE AddCheck(r) \/ AddInsert(r) \/ Remove(r)
             \/ \E s \in {"add", "remove", "set", "find alias"} : EndOfList(r, s)
    BY <1>2, <1>4, <1>5, <1>8 DEF AddCheck, AddInsert, Remove, EndOfList
  <1>9. CASE ReadAliases(r) \/ DropHeld(r) \/ HeldDropped(r) \/ SetAlias(r)
    BY <1>2, <1>3, <1>4, <1>5, <1>6, <1>9 DEF ReadAliases, DropHeld, HeldDropped, SetAlias
  <1>10. CASE \/ FindPortfolioType(r) \/ NewPortfolioType(r) \/ FindPortfolio(r) \/ NewPortfolio(r)
              \/ Unlink(r)
    BY <1>2, <1>3, <1>10 DEF FindPortfolioType, NewPortfolioType, FindPortfolio, NewPortfolio, Unlink
  <1>11. CASE Count(r) \/ Linked(r) \/ PutLink(r)
    BY <1>2, <1>3, <1>4, <1>11 DEF Count, Linked, PutLink
  <1>12. CASE FindAlias(r) \/ PutAlias(r) \/ MoveAlias(r)
    BY <1>4, <1>5, <1>12 DEF FindAlias, PutAlias, MoveAlias
  <1> QED BY <1>7, <1>8, <1>9, <1>10, <1>11, <1>12 DEF Step

\* The step of AliasesOfOthersStay.
OthersStay ==
    \A k \in Key : (Taken(k) /\ aliases'[k] # aliases[k]) =>
        \E r \in Requests :
            /\ <<pc[r], local[r]>>' # <<pc[r], local[r]>>
            /\ \/ req[r].art = aliases[k].art
               \/ req[r].op = "commit" /\ k = LatestKey(r)
               \/ \E q \in Requests : LinksTo(q, k[1])

LEMMA OthersNext ==
    ASSUME TypeInv, HeldOwn, [Next]_vars
    PROVE  OthersStay
  <1> SUFFICES ASSUME NEW k \in Key, Taken(k), aliases'[k] # aliases[k]
               PROVE  \E r \in Requests :
                         /\ <<pc[r], local[r]>>' # <<pc[r], local[r]>>
                         /\ \/ req[r].art = aliases[k].art
                            \/ req[r].op = "commit" /\ k = LatestKey(r)
                            \/ \E q \in Requests : LinksTo(q, k[1])
    BY DEF OthersStay
  <1>1. PICK r \in Requests : Step(r)
    BY StepOrQuiet DEF Quiet
  <1>2. Writes(r) /\ pc[r] \in Working /\ pc[r] # "idle"
    BY <1>1, StepFacts
  <1>3. <<pc[r], local[r]>>' # <<pc[r], local[r]>>
    BY <1>1, StepChanges
  <1>4. Drops(r, k) \/ Steals(r, k)
    BY <1>2 DEF Writes
  <1>5. CASE Steals(r, k)
    <2>1. LinksTo(r, k[1])
      BY <1>2, <1>5, OpAt DEF Steals, LinksTo
    <2> QED BY <1>3, <2>1
  <1>6. CASE Drops(r, k) /\ pc[r] = "drop held"
    <2>1. PICK h \in local[r].held : h.key = k /\ aliases[k].by = h.by
      BY <1>6 DEF Drops
    <2>2. StillThere(h)
      BY <2>1 DEF StillThere
    <2> QED BY <1>3, <1>6, <2>1, <2>2 DEF HeldOwn
  <1>7. CASE Drops(r, k) /\ pc[r] = "drop latest"
    BY <1>2, <1>3, <1>7, OpAt DEF Drops
  <1>8. CASE Drops(r, k) /\ aliases[k].art = req[r].art
    BY <1>3, <1>8
  <1> QED BY <1>4, <1>5, <1>6, <1>7, <1>8 DEF Drops

(***************************************************************************)
(* linkArtifact: the number of a portfolio's rows names a vN nobody has.   *)
(***************************************************************************)
\* Nobody has numbered the aliases of c in another way, and nothing was taken.
Clean(c) ==
    /\ \A q \in Requests : ~Numbers(q, c)
    /\ \A q \in Requests : pc[q] # "idle" =>
          req[q].op \notin {"remove", "delete", "unlink", "update"}

Numbering == {"linked", "put link"}
Listed    == {"find alias", "put alias", "move alias", "done"}

\* In a clean collection every vN is smaller than the number of rows, and so
\* is what a link has counted; what a link counted is free until it is taken,
\* unless another link runs at the same time.
RowsNumbered(c) ==
    \A k \in Key : \A n \in 0..MaxVersion :
        Taken(k) /\ k = <<c, V(n)>> => n < Cardinality(RowsIn(c))

Alone(r) == \A q \in Requests : Overlap(q, r) => req[q].op # "link"

CountHolds(r) ==
    pc[r] \in Numbering /\ req[r].op = "link" =>
        /\ local[r].count <= Cardinality(RowsIn(req[r].coll))
        /\ Alone(r) => ~Taken(LinkKey(r))

LinkHolds(r) ==
    pc[r] \in Listed /\ req[r].op = "link" /\ Alone(r) =>
        \E k \in RowsOf(req[r].art) : k[1] = req[r].coll /\ k[2][1] = "v"

Counted ==
    faults = 0 =>
        /\ \A c \in Colls : Clean(c) => RowsNumbered(c)
        /\ \A r \in Requests, c \in Colls :
              Clean(c) /\ req[r].coll = c => CountHolds(r) /\ LinkHolds(r)

LEMMA CleanStays ==
    ASSUME TypeInv, [Next]_vars, NEW c, Clean(c)'
    PROVE  Clean(c)
  <1>1. \A q \in Requests : pc[q] # "idle" => pc'[q] # "idle" /\ req'[q] = req[q]
    BY Stays
  <1>2. \A q \in Requests : Numbers(q, c) => Numbers(q, c)'
    BY ExceptionsStay
  <1> QED BY <1>1, <1>2 DEF Clean

LEMMA AloneStays ==
    ASSUME TypeInv, [Next]_vars, NEW r \in Requests, pc[r] # "idle", Alone(r)'
    PROVE  Alone(r)
  <1>1. \A q \in Requests : pc[q] # "idle" => pc'[q] # "idle" /\ req'[q] = req[q] /\ before'[q] = before[q]
    BY Stays
  <1> QED BY <1>1 DEF Alone, Overlap

\* In a clean collection no row goes away and no vN is moved.
LEMMA CleanWrites ==
    ASSUME TypeInv, NEW r \in Requests, Step(r), NEW c, Clean(c), NEW k \in Key, k[1] = c
    PROVE  /\ Taken(k) => aliases'[k] # None
           /\ Taken(k) /\ k[2][1] = "v" => aliases'[k] = aliases[k]
           /\ ~Taken(k) /\ aliases'[k] # None /\ k[2][1] = "v" =>
                 /\ pc[r] = "put link" /\ req[r].op = "link" /\ k = LinkKey(r)
                 /\ aliases'[k].art = req[r].art
  <1>1. Writes(r) /\ pc[r] \in Working /\ pc[r] # "idle"
    BY StepFacts
  <1>2. req[r].op \notin {"remove", "delete", "unlink", "update"} /\ ~Numbers(r, c)
    BY <1>1 DEF Clean
  <1>3. req[r].op = "commit" => Own(r) # c
    BY <1>1, <1>2 DEF Numbers
  <1>4. ~Drops(r, k)
    <2>1. SUFFICES ASSUME Drops(r, k) PROVE FALSE
      OBVIOUS
    <2>2. MayRemove(r, k) => req[r].op \in {"remove", "delete", "unlink", "update"}
      BY DEF MayRemove
    <2>3. k # LatestKey(r) \/ req[r].op # "commit"
      BY <1>3 DEF LatestKey
    <2> QED BY <1>1, <1>2, <2>1, <2>2, <2>3, DropsMay
  <1>5. k[2][1] = "v" => ~Steals(r, k)
    <2>1. SUFFICES ASSUME k[2][1] = "v", Steals(r, k) PROVE FALSE
      OBVIOUS
    <2>2. LinksTo(r, c) /\ \E x \in req[r].list : x[2][1] = "v"
      BY <1>1, <2>1, OpAt DEF Steals, LinksTo
    <2> QED BY <1>1, <1>2, <2>2 DEF Numbers
  <1>6. k[2][1] = "v" /\ Adds(r, k) => pc[r] = "put link" /\ req[r].op = "link" /\ k = LinkKey(r)
    <2>1. SUFFICES ASSUME k[2][1] = "v", Adds(r, k)
                   PROVE  pc[r] = "put link" /\ req[r].op = "link" /\ k = LinkKey(r)
      OBVIOUS
    <2>2. ~(pc[r] = "put latest" /\ k = LatestKey(r)) /\ ~(pc[r] = "put version" /\ k = VersionKey(r))
      <3>1. LatestKey(r)[1] = Own(r) /\ VersionKey(r)[1] = Own(r)
        BY DEF LatestKey, VersionKey
      <3>2. pc[r] \in {"put latest", "put version"} => Own(r) # c
        BY <1>1, <1>3, OpAt
      <3> QED BY <3>1, <3>2
    <2>3. ~(pc[r] = "insert" /\ k \in req[r].list)
      BY <1>1, <1>2, <2>1, OpAt DEF Numbers
    <2>4. ~(pc[r] = "put alias" /\ k[1] = req[r].coll /\ \E x \in req[r].list : x[2] = k[2])
      <3>1. SUFFICES ASSUME pc[r] = "put alias", k[1] = req[r].coll, \E x \in req[r].list : x[2] = k[2]
                     PROVE  FALSE
        OBVIOUS
      <3>2. LinksTo(r, c) /\ \E x \in req[r].list : x[2][1] = "v"
        BY <1>1, <2>1, <3>1, OpAt DEF LinksTo
      <3> QED BY <1>1, <1>2, <3>2 DEF Numbers
    <2>5. pc[r] # "set"
      BY <1>1, <1>2, OpAt
    <2> QED BY <1>1, <2>1, <2>2, <2>3, <2>4, <2>5, OpAt DEF Adds
  <1>7. Taken(k) => aliases'[k] # None
    BY <1>1, <1>4, WriteAt
  <1>8. Taken(k) /\ k[2][1] = "v" => aliases'[k] = aliases[k]
    BY <1>1, <1>5, <1>7, WriteKinds
  <1>9. ~Taken(k) /\ aliases'[k] # None => Adds(r, k) /\ aliases'[k].art = req[r].art
    BY <1>1 DEF Writes, Taken
  <1> QED BY <1>6, <1>7, <1>8, <1>9

\* The rows of a clean collection grow.
LEMMA RowsGrow ==
    ASSUME TypeInv, NEW r \in Requests, Step(r), NEW c, Clean(c)
    PROVE  /\ RowsIn(c) \subseteq RowsIn(c)'
           /\ Cardinality(RowsIn(c)) \in Nat /\ Cardinality(RowsIn(c)') \in Nat
           /\ Cardinality(RowsIn(c)) <= Cardinality(RowsIn(c)')
           /\ \A k \in RowsIn(c)' \ RowsIn(c) : Cardinality(RowsIn(c)) < Cardinality(RowsIn(c)')
  <1>1. TypeInv'
    BY TypeStep
  <1>2. RowsIn(c) \subseteq RowsIn(c)'
    BY CleanWrites DEF RowsIn, Taken
  <1>3. IsFiniteSet(RowsIn(c)) /\ Cardinality(RowsIn(c)) \in Nat
    BY RowsInFinite
  <1>4. IsFiniteSet(RowsIn(c)') /\ Cardinality(RowsIn(c)') \in Nat
    <2>1. RowsIn(c)' \subseteq {k \in Key : Taken(k)}'
      BY DEF RowsIn
    <2>2. IsFiniteSet({k \in Key : Taken(k)}')
      BY <1>1 DEF TypeInv, RowsOK
    <2>3. IsFiniteSet(RowsIn(c)')
      BY <2>1, <2>2, FS_Subset
    <2> QED BY <2>3, FS_CardinalityType
  <1>5. Cardinality(RowsIn(c)) <= Cardinality(RowsIn(c)')
    BY <1>2, <1>4, FS_Subset
  <1>6. ASSUME NEW k \in RowsIn(c)' \ RowsIn(c) PROVE Cardinality(RowsIn(c)) < Cardinality(RowsIn(c)')
    <2>1. Cardinality(RowsIn(c) \cup {k}) = Cardinality(RowsIn(c)) + 1
      BY <1>3, <1>6, FS_AddElement
    <2>2. Cardinality(RowsIn(c) \cup {k}) <= Cardinality(RowsIn(c)')
      BY <1>2, <1>4, <1>6, FS_Subset
    <2> QED BY <1>3, <1>4, <2>1, <2>2
  <1> QED BY <1>2, <1>3, <1>4, <1>5, <1>6

LEMMA CleanLink ==
    ASSUME TypeInv, NEW r \in Requests, pc[r] \in Numbering, req[r].op = "link"
    PROVE  /\ req[r].coll \in Colls /\ local[r].count \in 0..MaxVersion
           /\ LinkKey(r) \in Key /\ LinkKey(r)[1] = req[r].coll /\ LinkKey(r)[2][1] = "v"
           /\ LinkKey(r) = <<req[r].coll, V(local[r].count)>>
  <1>1. pc[r] \in Working
    BY DEF Numbering, Working
  <1>2. req[r].coll \in Colls /\ local[r].count \in 0..MaxVersion
    BY <1>1, AtWork DEF Locals
  <1> QED BY <1>2, KeyType DEF LinkKey, V

\* One fact per part of Counted.
LEMMA RowsNumberedNext ==
    ASSUME TypeInv, Counted, faults = 0, NEW r \in Requests, Step(r), NEW c \in Colls, Clean(c)
    PROVE  RowsNumbered(c)'
  <1> SUFFICES ASSUME NEW k \in Key, NEW n \in 0..MaxVersion, aliases'[k] # None, k = <<c, V(n)>>
               PROVE  n < Cardinality(RowsIn(c)')
    BY DEF RowsNumbered, Taken
  <1>1. k[1] = c /\ k[2][1] = "v" /\ k[2][2] = n
    BY DEF V
  <1>2. Cardinality(RowsIn(c)) \in Nat /\ Cardinality(RowsIn(c)') \in Nat
        /\ Cardinality(RowsIn(c)) <= Cardinality(RowsIn(c)')
    BY RowsGrow
  <1>3. n \in Nat
    BY AliasAssumption DEF AliasAssumption
  <1>4. CASE Taken(k)
    <2>1. n < Cardinality(RowsIn(c))
      BY <1>4 DEF Counted, RowsNumbered
    <2> QED BY <1>2, <1>3, <2>1
  <1>5. CASE ~Taken(k)
    <2>1. pc[r] = "put link" /\ req[r].op = "link" /\ k = LinkKey(r)
      BY <1>1, <1>5, CleanWrites
    <2>2. req[r].coll = c /\ local[r].count = n
      <3>1. LinkKey(r)[1] = req[r].coll /\ LinkKey(r)[2][2] = local[r].count
        BY DEF LinkKey, V
      <3> QED BY <1>1, <2>1, <3>1
    <2>3. n <= Cardinality(RowsIn(c))
      BY <2>1, <2>2 DEF Counted, CountHolds, Numbering
    <2>4. k \in RowsIn(c)' \ RowsIn(c)
      BY <1>1, <1>5 DEF RowsIn, Taken
    <2>5. Cardinality(RowsIn(c)) < Cardinality(RowsIn(c)')
      BY <2>4, RowsGrow
    <2> QED BY <1>2, <1>3, <2>3, <2>5
  <1> QED BY <1>4, <1>5

\* Where a link goes next.
LEMMA LinkFlow ==
    ASSUME TypeInv, NEW r \in Requests, Step(r), req[r].op = "link"
    PROVE  /\ pc'[r] = "linked" => Count(r)
           /\ pc'[r] = "put link" => Linked(r)
           /\ pc'[r] \in Listed =>
                 \/ pc[r] \in Listed
                 \/ Linked(r) \/ PutLink(r)
  <1>1. pc \in [Requests -> Steps]
    BY DEF TypeInv, ControlOK
  <1>2. /\ LookupFails(r) => pc'[r] = "failed"
        /\ FindPortfolioType(r) => pc'[r] \in {"portfolio", "new type", "failed"}
        /\ NewPortfolioType(r) => pc'[r] \in {"portfolio", "failed"}
        /\ FindPortfolio(r) => pc'[r] \in {"count", "new portfolio", "failed"}
        /\ NewPortfolio(r) => pc'[r] \in {"count", "failed"}
        /\ Count(r) => pc'[r] \in {"linked", "failed"}
        /\ Linked(r) => pc'[r] \in {"put link", "find alias"}
        /\ PutLink(r) => pc'[r] = "find alias"
        /\ FindAlias(r) => pc'[r] \in Listed
        /\ PutAlias(r) => pc'[r] \in Listed
        /\ MoveAlias(r) => pc'[r] \in Listed
        /\ EndOfList(r, "find alias") => pc'[r] \in Listed
    BY <1>1 DEF LookupFails, FindPortfolioType, NewPortfolioType, FindPortfolio, NewPortfolio, Count, Linked,
                PutLink, FindAlias, PutAlias, MoveAlias, EndOfList, Goto, Set, Finish, Listed
  <1>3. FindAlias(r) \/ PutAlias(r) \/ MoveAlias(r) \/ EndOfList(r, "find alias") => pc[r] \in Listed
    BY DEF FindAlias, PutAlias, MoveAlias, EndOfList, Listed
  <1> QED BY <1>2, <1>3, LinkSteps DEF Listed

LEMMA CountHoldsNext ==
    ASSUME TypeInv, Ended, Counted, faults = 0, NEW r \in Requests, Step(r), ~Fails,
           NEW s \in Requests, NEW c \in Colls, c = req[s].coll, Clean(c), pc'[s] \in Numbering, req[s].op = "link"
    PROVE  /\ local'[s].count <= Cardinality(RowsIn(c)')
           /\ Alone(s) => aliases'[LinkKey(s)'] = None
  <1>1. /\ Writes(r) /\ pc[r] \in Working /\ pc[r] # "idle" /\ pc[r] # "done" /\ req' = req
        /\ \A q \in Requests \ {r} : pc'[q] = pc[q] /\ local'[q] = local[q]
    BY StepFacts
  <1>2. Cardinality(RowsIn(c)) \in Nat /\ Cardinality(RowsIn(c)') \in Nat
        /\ Cardinality(RowsIn(c)) <= Cardinality(RowsIn(c)')
    BY RowsGrow
  <1>3. CASE pc[s] \in Numbering /\ local'[s] = local[s]
    <2>1. local[s].count <= Cardinality(RowsIn(c)) /\ (Alone(s) => ~Taken(LinkKey(s)))
      BY <1>3 DEF Counted, CountHolds
    <2>2. local[s].count \in 0..MaxVersion /\ LinkKey(s) \in Key /\ LinkKey(s)[1] = c /\ LinkKey(s)[2][1] = "v"
          /\ LinkKey(s) = <<c, V(local[s].count)>>
      BY <1>3, CleanLink
    <2>3. local'[s].count <= Cardinality(RowsIn(c)')
      BY <1>2, <1>3, <2>1, <2>2, AliasAssumption DEF AliasAssumption
    <2>4. LinkKey(s)' = LinkKey(s)
      BY <1>1, <1>3 DEF LinkKey
    <2>5. ASSUME Alone(s), aliases'[LinkKey(s)] # None PROVE FALSE
      <3>1. pc[r] = "put link" /\ req[r].op = "link" /\ LinkKey(s) = LinkKey(r)
        BY <2>1, <2>2, <2>5, CleanWrites
      <3>2. r # s
        <4>1. SUFFICES ASSUME r = s PROVE FALSE
          OBVIOUS
        <4>2. PutLink(r) \/ LookupFails(r)
          BY <3>1, LinkSteps DEF FindPortfolioType, NewPortfolioType, FindPortfolio, NewPortfolio,
             Count, Linked, FindAlias, PutAlias, MoveAlias, EndOfList
        <4>3. PutLink(r)
          BY <4>2 DEF LookupFails
        <4>4. pc'[r] = "find alias"
          BY <4>3 DEF PutLink, Goto, TypeInv, ControlOK
        <4> QED BY <4>1, <4>4 DEF Numbering
      <3>3. r \notin before[s] /\ s \notin before[r]
        BY <1>1, <1>3, NotBefore DEF Numbering
      <3>4. Overlap(r, s)
        BY <1>1, <3>2, <3>3 DEF Overlap
      <3> QED BY <2>5, <3>1, <3>4 DEF Alone
    <2> QED BY <2>3, <2>4, <2>5
  <1>4. CASE ~(pc[s] \in Numbering /\ local'[s] = local[s])
    <2>1. s = r
      BY <1>1, <1>4
    <2>2. Count(r)
      <3>1. Linked(r) => pc[r] \in Numbering /\ local' = local
        BY DEF Linked, Goto, Numbering
      <3> QED BY <1>4, <2>1, <3>1, LinkFlow DEF Numbering
    <2>3. aliases' = aliases /\ Set(r, "linked", [local[r] EXCEPT !.count = Cardinality(RowsIn(c))])
          /\ Cardinality(RowsIn(c)) <= MaxVersion
      BY <2>1, <2>2 DEF Count, tables
    <2>4. local'[r].count = Cardinality(RowsIn(c))
      <3>1. local[r] \in Locals /\ local'[r] = [local[r] EXCEPT !.count = Cardinality(RowsIn(c))]
        BY <2>3, SetTodo DEF TypeInv, ControlOK
      <3> QED BY <3>1 DEF Locals
    <2>5. LinkKey(s)' = <<c, V(Cardinality(RowsIn(c)))>>
      BY <1>1, <2>1, <2>4 DEF LinkKey
    <2>6. c \in Colls /\ Cardinality(RowsIn(c)) \in 0..MaxVersion
      BY <1>1, <1>2, <2>1, <2>3, AtWork, AliasAssumption DEF AliasAssumption
    <2> DEFINE n == Cardinality(RowsIn(c))
               k == <<c, V(n)>>
    <2>7. k \in Key
      BY <2>6, KeyType
    <2>8. ~Taken(k)
      <3>1. SUFFICES ASSUME Taken(k) PROVE FALSE
        OBVIOUS
      <3>2. n < Cardinality(RowsIn(c))
        BY <2>6, <2>7, <3>1 DEF Counted, RowsNumbered
      <3> QED BY <1>2, <3>2
    <2> QED BY <1>2, <2>1, <2>3, <2>4, <2>5, <2>8 DEF Taken
  <1> QED BY <1>3, <1>4

LEMMA LinkHoldsNext ==
    ASSUME TypeInv, Ended, Counted, faults = 0, NEW r \in Requests, Step(r), ~Fails,
           NEW s \in Requests, NEW c \in Colls, c = req[s].coll, Clean(c), pc'[s] \in Listed, req[s].op = "link", pc[s] # "idle",
           Alone(s)
    PROVE  \E k \in Key : /\ aliases'[k] # None /\ aliases'[k].art = req[s].art
                          /\ k[1] = req[s].coll /\ k[2][1] = "v"
  <1>1. /\ Writes(r) /\ pc[r] \in Working /\ pc[r] # "idle" /\ pc[r] # "done" /\ req' = req
        /\ \A q \in Requests \ {r} : pc'[q] = pc[q] /\ local'[q] = local[q]
    BY StepFacts
  <1>2. ASSUME NEW k \in RowsOf(req[s].art), k[1] = c, k[2][1] = "v"
        PROVE  aliases'[k] # None /\ aliases'[k].art = req[s].art /\ k \in Key
    <2>1. k \in Key /\ Taken(k) /\ aliases[k].art = req[s].art
      BY <1>2 DEF RowsOf
    <2>2. aliases'[k] = aliases[k]
      BY <1>2, <2>1, CleanWrites
    <2> QED BY <2>1, <2>2 DEF Taken
  <1>3. CASE pc[s] \in Listed
    <2>1. PICK k \in RowsOf(req[s].art) : k[1] = c /\ k[2][1] = "v"
      BY <1>3 DEF Counted, LinkHolds
    <2> QED BY <1>2, <2>1
  <1>4. CASE pc[s] \notin Listed
    <2>1. s = r
      BY <1>1, <1>4
    <2>2. CASE Linked(r)
      <3>1. LinkKey(r) \in RowsOf(req[r].art)
        <4>1. pc'[r] # "put link"
          BY <2>1 DEF Listed
        <4> QED BY <2>2, <4>1 DEF Linked, Goto, TypeInv, ControlOK
      <3>2. LinkKey(r)[1] = c /\ LinkKey(r)[2][1] = "v"
        BY <2>1 DEF LinkKey, V
      <3> QED BY <1>2, <2>1, <3>1, <3>2
    <2>3. CASE PutLink(r)
      <3>1. pc[r] \in Numbering
        BY <2>3 DEF PutLink, Numbering
      <3>2. LinkKey(r) \in Key /\ LinkKey(r)[1] = c /\ LinkKey(r)[2][1] = "v"
        BY <2>1, <3>1, CleanLink
      <3>3. ~Taken(LinkKey(r))
        BY <2>1, <3>1 DEF Counted, CountHolds
      <3>4. Insert(r, LinkKey(r))
        BY <2>3 DEF PutLink, Try
      <3>5. req[r].art \in Arts
        BY <1>1, AtWork
      <3>6. aliases'[LinkKey(r)] # None
        BY <3>2, <3>4, <3>5, InsertTakes
      <3>7. aliases'[LinkKey(r)].art = req[r].art
        BY <3>2, <3>3, <3>6, CleanWrites, <2>1
      <3> QED BY <2>1, <3>2, <3>6, <3>7
    <2> QED BY <1>4, <2>1, <2>2, <2>3, LinkFlow
  <1> QED BY <1>3, <1>4

LEMMA CountedNext ==
    ASSUME TypeInv, Ended, Counted, [Next]_vars
    PROVE  Counted'
  <1> SUFFICES ASSUME faults' = 0
               PROVE  /\ \A c \in Colls : Clean(c)' => RowsNumbered(c)'
                      /\ \A s \in Requests, c \in Colls :
                            Clean(c)' /\ req'[s].coll = c => CountHolds(s)' /\ LinkHolds(s)'
    BY DEF Counted
  <1>1. CASE Quiet
    <2>1. aliases' = aliases /\ faults = 0
      BY <1>1 DEF Quiet
    <2>2. ASSUME NEW c \in Colls, Clean(c)' PROVE RowsNumbered(c)'
      <3>1. RowsNumbered(c)
        BY <2>1, <2>2, CleanStays DEF Counted
      <3> QED BY <2>1, <3>1 DEF RowsNumbered, RowsIn, Taken
    <2>3. ASSUME NEW s \in Requests, NEW c \in Colls, Clean(c)', req'[s].coll = c
          PROVE  CountHolds(s)' /\ LinkHolds(s)'
      <3>1. CASE pc'[s] \notin Numbering \cup Listed
        BY <3>1 DEF CountHolds, LinkHolds
      <3>2. CASE pc'[s] \in Numbering \cup Listed
        <4>1. pc'[s] = pc[s] /\ local'[s] = local[s] /\ req'[s] = req[s] /\ pc[s] # "idle"
          BY <1>1, <3>2 DEF Quiet, Numbering, Listed
        <4>2. Clean(c) /\ (Alone(s)' => Alone(s))
          BY <2>3, <4>1, CleanStays, AloneStays
        <4>3. CountHolds(s) /\ LinkHolds(s)
          BY <2>1, <2>3, <4>1, <4>2 DEF Counted
        <4>4. RowsIn(req[s].coll)' = RowsIn(req[s].coll) /\ RowsOf(req[s].art)' = RowsOf(req[s].art)
          BY <2>1, <4>1 DEF RowsIn, RowsOf, Taken
        <4>5. LinkKey(s)' = LinkKey(s) /\ (Taken(LinkKey(s))' <=> Taken(LinkKey(s)))
          BY <2>1, <4>1 DEF LinkKey, Taken
        <4> QED BY <4>1, <4>2, <4>3, <4>4, <4>5 DEF CountHolds, LinkHolds
      <3> QED BY <3>1, <3>2
    <2> QED BY <2>2, <2>3
  <1>2. ASSUME NEW r \in Requests, Step(r)
        PROVE  /\ \A c \in Colls : Clean(c)' => RowsNumbered(c)'
               /\ \A s \in Requests, c \in Colls :
                     Clean(c)' /\ req'[s].coll = c => CountHolds(s)' /\ LinkHolds(s)'
    <2>1. faults = 0 /\ ~Fails /\ req' = req /\ \A q \in Requests : pc[q] = "idle" => pc'[q] = "idle"
      BY <1>2, StepFacts
    <2>2. ASSUME NEW c \in Colls, Clean(c)' PROVE RowsNumbered(c)'
      BY <1>2, <2>1, <2>2, CleanStays, RowsNumberedNext
    <2>3. ASSUME NEW s \in Requests, NEW c \in Colls, Clean(c)', req'[s].coll = c
          PROVE  CountHolds(s)' /\ LinkHolds(s)'
      <3>1. Clean(c) /\ req[s].coll = c
        BY <2>1, <2>3, CleanStays
      <3>2. pc'[s] \in Numbering \cup Listed => pc[s] # "idle"
        BY <2>1 DEF Numbering, Listed
      <3>3. pc'[s] \in Numbering \cup Listed /\ Alone(s)' => Alone(s)
        BY <3>2, AloneStays
      <3>4. CountHolds(s)'
        <4> SUFFICES ASSUME pc'[s] \in Numbering, req'[s].op = "link"
                     PROVE  /\ local'[s].count <= Cardinality(RowsIn(req[s].coll))'
                            /\ Alone(s)' => ~Taken(LinkKey(s))'
          BY DEF CountHolds
        <4>1. /\ local'[s].count <= Cardinality(RowsIn(c)')
              /\ Alone(s) => aliases'[LinkKey(s)'] = None
          BY <1>2, <2>1, <3>1, CountHoldsNext
        <4>2. RowsIn(req[s].coll)' = RowsIn(c)'
          BY <2>3 DEF RowsIn
        <4> QED BY <3>3, <4>1, <4>2 DEF Taken
      <3>5. LinkHolds(s)'
        <4> SUFFICES ASSUME pc'[s] \in Listed, req'[s].op = "link", Alone(s)'
                     PROVE  \E k \in RowsOf(req[s].art)' : k[1] = req'[s].coll /\ k[2][1] = "v"
          BY DEF LinkHolds
        <4>1. PICK k \in Key : /\ aliases'[k] # None /\ aliases'[k].art = req[s].art
                               /\ k[1] = req[s].coll /\ k[2][1] = "v"
          BY <1>2, <2>1, <3>1, <3>2, <3>3, LinkHoldsNext
        <4>2. k \in RowsOf(req[s].art)'
          BY <2>1, <4>1 DEF RowsOf, Taken
        <4> QED BY <2>1, <4>1, <4>2
      <3> QED BY <3>4, <3>5
    <2> QED BY <2>2, <2>3
  <1> QED BY <1>1, <1>2, StepOrQuiet

(***************************************************************************)
(* The inductive invariant and the theorems.                               *)
(***************************************************************************)
IInv ==
    /\ TypeInv /\ AliasesHaveCollections /\ Ended
    /\ Settled /\ AutoAliasesCommitted
    /\ NotStale /\ Present /\ Numbered /\ VersionThere
    /\ Shed /\ Fresh /\ HeldOwn /\ Counted

LEMMA IInvInit ==
    ASSUME Init
    PROVE  IInv
  <1>1. TypeInv
    BY TypeInit
  <1>2. \A k \in Key : ~Taken(k)
    BY DEF Init, Taken
  <1>3. \A r \in Requests : pc[r] = "idle" /\ local[r].held = {} /\ before[r] = {}
    BY DEF Init, NoLocals
  <1>4. AliasesHaveCollections /\ Ended
    BY <1>2, <1>3 DEF AliasesHaveCollections, Ended
  <1>5. Settled /\ AutoAliasesCommitted
    BY <1>2, <1>3 DEF Settled, AutoAliasesCommitted
  <1>6. NotStale /\ Present /\ Numbered /\ VersionThere
    BY <1>2, <1>3 DEF NotStale, Present, Numbered, VersionThere
  <1>7. Shed /\ Fresh /\ HeldOwn
    BY <1>2, <1>3 DEF Shed, Fresh, HeldOwn
  <1>8. Counted
    BY <1>2, <1>3 DEF Counted, RowsNumbered, CountHolds, LinkHolds, Numbering, Listed
  <1> QED BY <1>1, <1>4, <1>5, <1>6, <1>7, <1>8 DEF IInv

LEMMA IInvNext ==
    ASSUME IInv, [Next]_vars
    PROVE  IInv'
  BY TypeNext, HaveNext, EndedNext, SettledNext, CommittedNext, NotStaleNext, PresentNext, NumberedNext,
     VersionNext, ShedNext, FreshNext, HeldOwnNext, CountedNext DEF IInv

THEOREM Inductive == Spec => []IInv
  BY IInvInit, IInvNext, PTL DEF Spec

\* Every value has its type, and what a commit's aliases point at has left
\* PENDING, whatever statements fail and wherever the process dies
\* (CommitArtifact, resolver.CommitArtifact).
THEOREM Sound == Spec => []AliasesSound
  <1>1. IInv => AliasesSound
    BY TypeInvOK DEF IInv, AliasesSound
  <1> QED BY <1>1, Inductive, PTL

\* No alias outlives or precedes its collection.
THEOREM HaveCollections == Spec => []AliasesHaveCollections
  <1>1. IInv => AliasesHaveCollections
    BY DEF IInv
  <1> QED BY <1>1, Inductive, PTL

\* Without failing statements "latest" is there after a commit, and never a
\* version whose commit had been answered before another one was received.
THEOREM Latests == Spec => []LatestResolves
  <1>1. IInv => LatestNotStale
    BY DEF IInv, NotStale, LatestNotStale, Done
  <1>2. IInv => LatestPresent
    <2> SUFFICES ASSUME IInv, faults = 0, NEW r \in Done("commit")
                 PROVE  \/ Taken(LatestKey(r))
                        \/ \E q \in Requests \ before[r] : MayRemove(q, LatestKey(r))
                        \/ \E q \in InFlight \cup {x \in Requests : pc[x] = "killed"} :
                              req[q].op = "commit" /\ Own(q) = Own(r)
      BY DEF LatestPresent
    <2>1. r \in Requests /\ pc[r] = "done" /\ req[r].op = "commit"
      BY DEF Done
    <2>2. ASSUME NEW q \in Requests, Cut(q, Own(r))
          PROVE  q \in InFlight \cup {x \in Requests : pc[x] = "killed"}
      BY <2>2 DEF Cut, InFlight, Working
    <2> QED BY <2>1, <2>2 DEF IInv, Present, Cut
  <1> QED BY <1>1, <1>2, Inductive, PTL DEF LatestResolves

\* Without failing statements "collection:vN" is a version with index N from
\* the answer to its commit on.
THEOREM Versions == Spec => []VersionResolves
  <1>1. IInv => VersionResolves
    <2> SUFFICES ASSUME IInv, faults = 0, NEW r \in Done("commit")
                 PROVE  \/ LET a == aliases[VersionKey(r)].art IN
                              Taken(VersionKey(r)) /\ <<SequenceOf[a], V(VersionOf[a])>> = VersionKey(r)
                        \/ \E q \in Requests \ before[r] : MayRemove(q, VersionKey(r))
                        \/ \E q \in Requests : /\ pc[q] # "idle"
                                               /\ req[q].op = "add" /\ VersionKey(r) \in req[q].list
                        \/ \E q \in Requests : LinksTo(q, Own(r))
      BY DEF VersionResolves
    <2>1. r \in Requests /\ pc[r] = "done" /\ req[r].op = "commit"
      BY DEF Done
    <2>2. VersionKey(r) \in Key /\ VersionKey(r)[1] = Own(r) /\ VersionKey(r)[2][1] = "v"
      BY <2>1, KeysOf DEF IInv
    <2>3. Taken(VersionKey(r)) \/ \E q \in Requests \ before[r] : MayRemove(q, VersionKey(r))
      BY <2>1 DEF IInv, VersionThere
    <2>4. Taken(VersionKey(r)) =>
            \/ LET a == aliases[VersionKey(r)].art IN <<SequenceOf[a], V(VersionOf[a])>> = VersionKey(r)
            \/ ByHand(VersionKey(r))
      BY <2>2 DEF IInv, Numbered
    <2> QED BY <2>2, <2>3, <2>4 DEF ByHand
  <1> QED BY <1>1, Inductive, PTL

\* Without failing statements the aliases updateArtifact replaces are gone
\* when it answers.
THEOREM OldGone == Spec => []OldAliasesGone
  <1>1. IInv => OldAliasesGone
    <2> SUFFICES ASSUME IInv, faults = 0, NEW r \in Done("update"), NEW k \in RowsOf(req[r].art),
                        k[2] \notin AutoManaged
                 PROVE  \/ aliases[k].by \notin before[r]
                        \/ \E q \in Requests \ before[r] : LinksTo(q, k[1]) /\ req[q].art = req[r].art
      BY DEF OldAliasesGone
    <2>1. r \in Requests /\ pc[r] = "done" /\ req[r].op = "update"
      BY DEF Done
    <2>2. k \in Key /\ Taken(k) /\ aliases[k].art = req[r].art
      BY DEF RowsOf
    <2> QED BY <2>1, <2>2 DEF IInv, Shed, MovedTo
  <1> QED BY <1>1, Inductive, PTL

\* Without failing statements a version linked by itself into a portfolio
\* nobody else has numbered or taken from is a member of it.
THEOREM Members == Spec => []LinkedIsMember
  <1>1. IInv => LinkedIsMember
    <2> SUFFICES ASSUME IInv, faults = 0, NEW r \in Done("link"),
                        ~\E q \in Requests : Overlap(q, r) /\ req[q].op = "link",
                        ~\E q \in Requests : Numbers(q, req[r].coll),
                        ~\E q \in Requests : pc[q] # "idle" /\
                              req[q].op \in {"remove", "delete", "unlink", "update"}
                 PROVE  \E k \in RowsOf(req[r].art) : k[1] = req[r].coll
      BY DEF LinkedIsMember
    <2>1. r \in Requests /\ pc[r] = "done" /\ req[r].op = "link"
      BY DEF Done
    <2>2. req[r].coll \in Colls
      BY <2>1, InputType DEF IInv, TypeInv, Placed, Fits
    <2>3. Clean(req[r].coll) /\ Alone(r)
      BY <2>1 DEF Clean, Alone
    <2>4. LinkHolds(r)
      BY <2>1, <2>2, <2>3 DEF IInv, Counted
    <2> QED BY <2>1, <2>3, <2>4 DEF LinkHolds, Listed
  <1> QED BY <1>1, Inductive, PTL

\* A request other than a link takes away or replaces aliases of its own
\* artifact only, apart from a commit and the "latest" of its collection.
THEOREM Others == Spec => AliasesOfOthersStay
  <1>1. IInv /\ [Next]_vars => [OthersStay]_vars
    BY OthersNext DEF IInv
  <1>2. Spec => [][OthersStay]_vars
    BY <1>1, Inductive, PTL DEF Spec
  <1> QED BY <1>2 DEF AliasesOfOthersStay, OthersStay
=============================================================================
