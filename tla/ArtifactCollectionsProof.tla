---------------------- MODULE ArtifactCollectionsProof ----------------------
(***************************************************************************)
(* Proofs about ArtifactCollections, for every set of requests, inputs,    *)
(* collections, names, types and tags, and any number of failing           *)
(* statements and deaths of the server.                                    *)
(***************************************************************************)
EXTENDS ArtifactCollections, TLAPS

(***************************************************************************)
(* The invariants.                                                         *)
(***************************************************************************)
\* What the program counter of a request says of its locals.
Knows(r) ==
    /\ pc[r] = "idle" => seen[r] = {} /\ at[r] = 0
    /\ pc[r] # "idle" => input[r] \in Inputs
    /\ pc[r] = "find" => input[r].op \in {"delete", "update", "move", "assign"}
    /\ pc[r] = "save" => input[r].op = "delete" /\ read[r] \in Row
    /\ pc[r] = "rename" => input[r].op = "update" /\ input[r].name # None
    /\ pc[r] = "clear" => input[r].op = "update" /\ input[r].tags # None
    /\ pc[r] \in {"tag", "new tag", "assign"} => input[r].op \in {"update", "assign"}
    /\ pc[r] = "unassign" => input[r].op = "unassign"
    /\ pc[r] \in {"tag", "new tag", "assign", "unassign"} => input[r].tags # None /\ at[r] < Len(input[r].tags)
    /\ pc[r] = "reload" => input[r].op = "update"
    /\ pc[r] \in {"type", "new type"} => input[r].op \in {"move", "type"}
    /\ pc[r] = "set type" => input[r].op = "move"
    /\ result[r] # None => pc[r] = "done"
    /\ seen[r] \subseteq Ended

Control == \A r \in Requests : Knows(r)

TypeInv == TypeOK /\ Control

\* Names are unique, and each comes from the start or from a request.
Given(c, name) == name = FirstName[c] \/ \E q \in Started : input[q].coll = c /\ input[q].name = name

NamesInv ==
    /\ \A c, d \in Colls : c # d => rows[c].name # rows[d].name
    /\ \A c \in Colls : Given(c, rows[c].name)
    /\ \A r \in Requests : pc[r] = "save" => Given(input[r].coll, read[r].name)

\* A delete that would write back another name than the collection has
\* overlapped the request that gave it that name.
SaveInv ==
    \A r \in Requests :
        pc[r] = "save" /\ read[r].name # rows[input[r].coll].name =>
            \E q \in On(r, Overlaps(r)) : input[q].name # None \/ input[q].op = "delete"

\* No request since r, or next to it, gives the collection a name.
NameCalm(r) == Alone(r) /\ \A q \in On(r, Later(r)) : input[q].name = None

Renamed(r) ==
    /\ pc[r] # "idle" /\ input[r].name # None
    /\ pc[r] \in {"clear", "tag", "new tag", "assign", "reload"} \/ (pc[r] = "done" /\ result[r] = "ok")

RenameInv ==
    \A r \in Requests :
        Renamed(r) /\ NameCalm(r) =>
            /\ rows[input[r].coll].name = input[r].name
            /\ \A q \in On(r, Later(r)) : pc[q] = "save" => read[q].name = input[r].name

\* The same of types.
TypeCalm(r) == Alone(r) /\ \A q \in On(r, Later(r)) : input[q].op # "move"

Moved(r) == pc[r] = "done" /\ result[r] = "ok" /\ input[r].op = "move"

MoveInv ==
    \A r \in Requests :
        Moved(r) /\ TypeCalm(r) =>
            /\ rows[input[r].coll].type = input[r].type
            /\ \A q \in On(r, Later(r)) : pc[q] = "save" => read[q].type = input[r].type

\* The tags of the input a request is done with.
DoneTags(r) == {input[r].tags[i] : i \in 1..at[r]}

\* No request since r, or next to it, changes the tags of the collection.
TagCalm(r) == Alone(r) /\ \A q \in On(r, Later(r)) : ~Retags(q)

\* How far an update has replaced the tags.
Replacing(r) ==
    LET now == TagsOf(input[r].coll)
        new == Range(input[r].tags) IN
    /\ pc[r] \in {"find", "rename", "clear"} => now = before[r]
    /\ pc[r] \in {"tag", "new tag", "assign"} => now = DoneTags(r)
    /\ pc[r] = "reload" => now = new
    /\ pc[r] = "done" => IF result[r] = "ok" THEN now = new ELSE now = before[r] \/ now \subseteq new

TagsInv ==
    faults = 0 =>
        \A r \in Requests :
            pc[r] # "idle" /\ input[r].op = "update" /\ input[r].tags # None /\ TagCalm(r) => Replacing(r)

\* A tag or type that appeared after it was looked up is an overlapping
\* request's.
RacesInv ==
    faults = 0 =>
        \A r \in Requests :
            \/ pc[r] = "new tag" /\ Tag(r) \in tags
            \/ pc[r] = "new type" /\ input[r].type \in types
            => \E q \in Overlaps(r) : Shared(r, q)

IInv ==
    TypeInv /\ NamesInv /\ SaveInv /\ RenameInv /\ MoveInv /\ TagsInv /\ RacesInv /\ ErrorsExplained

(***************************************************************************)
(* What each action does to the request that takes it.                     *)
(***************************************************************************)
LEMMA InputFacts ==
    ASSUME TypeInv, NEW r \in Requests, pc[r] # "idle"
    PROVE  /\ input[r] \in Inputs /\ WellFormed(input[r]) /\ input[r].coll \in Colls
           /\ input[r].op \in {"delete", "update", "move", "type", "assign", "unassign"}
           /\ input[r].needs \in {"sequence", "portfolio", None}
           /\ input[r].name \in Names \cup {None} /\ input[r].type \in Types \cup {None}
           /\ input[r].tags # None => input[r].tags \in Seq(Tags) /\ Len(input[r].tags) \in Nat
  <1>1. input[r] \in Inputs
    BY DEF TypeInv, Control, Knows
  <1>2. input[r] \in Input /\ WellFormed(input[r])
    BY <1>1, CollectionsAssumption DEF CollectionsAssumption
  <1> QED BY <1>1, <1>2 DEF Input

\* Of the requests only r moves.
Turn(r, step, res) ==
    /\ pc'[r] = step /\ result'[r] = res
    /\ \A q \in Requests \ {r} : pc'[q] = pc[q] /\ result'[q] = result[q]
    /\ pc' \in [Requests -> Steps] /\ result' \in [Requests -> {None, "ok", "error"}]

LEMMA TurnFacts ==
    ASSUME TypeInv, NEW r \in Requests
    PROVE  /\ \A step \in Steps : Goto(r, step) => Turn(r, step, result[r])
           /\ \A res \in {"ok", "error"} : Reply(r, res) => Turn(r, "done", res)
  <1>1. pc \in [Requests -> Steps] /\ result \in [Requests -> {None, "ok", "error"}]
    BY DEF TypeInv, TypeOK
  <1>2. ASSUME NEW step \in Steps, Goto(r, step) PROVE Turn(r, step, result[r])
    BY <1>1, <1>2 DEF Goto, Turn
  <1>3. ASSUME NEW res \in {"ok", "error"}, Reply(r, res) PROVE Turn(r, "done", res)
    BY <1>1, <1>3 DEF Reply, Turn, Steps
  <1> QED BY <1>2, <1>3

\* What the actions leave alone.
Frame(r) ==
    /\ input' = input /\ seen' = seen /\ before' = before
    /\ \A q \in Requests \ {r} : read'[q] = read[q] /\ at'[q] = at[q]
    /\ at' \in [Requests -> Nat] /\ (crashes' = crashes \/ crashes' = crashes + 1)
    /\ faults' \in Nat /\ (faults' = 0 => faults = 0 /\ ~Fails)

LEMMA FrameFacts ==
    ASSUME TypeInv, NEW r \in Requests, Step(r)
    PROVE  Frame(r)
  <1>1. at \in [Requests -> Nat] /\ faults \in Nat
    BY DEF TypeInv, TypeOK
  <1>2. input' = input /\ seen' = seen /\ before' = before /\ crashes' = crashes
    BY DEF Step, Find, Save, Rename, Reload, Clear, FindTag, NewTag, Assign, Unassign, FindType, NewType, SetType, history
  <1>3. Succeeds \/ Fails
    BY DEF Step, Find, Save, Rename, Reload, Clear, FindTag, NewTag, Assign, Unassign, FindType, NewType, SetType
  <1>4. faults' \in Nat /\ (faults' = 0 => faults = 0 /\ ~Fails)
    BY <1>1, <1>3 DEF Succeeds, Fails
  <1>5. at' = at \/ \E n \in Nat : at' = [at EXCEPT ![r] = n]
    <2>1. at[r] + 1 \in Nat /\ 0 \in Nat
      BY <1>1
    <2> QED BY <2>1 DEF Step, Find, AfterFind, Loop, Save, Rename, Reload, Clear, FindTag, NewTag, Assign, Unassign,
                FindType, NewType, SetType
  <1>6. read' = read \/ \E x : read' = [read EXCEPT ![r] = x]
    BY DEF Step, Find, Save, Rename, Reload, Clear, FindTag, NewTag, Assign, Unassign, FindType, NewType, SetType
  <1>7. at' \in [Requests -> Nat] /\ \A q \in Requests \ {r} : at'[q] = at[q]
    BY <1>1, <1>5
  <1>8. \A q \in Requests \ {r} : read'[q] = read[q]
    BY <1>6 DEF TypeInv, TypeOK
  <1> QED BY <1>2, <1>4, <1>7, <1>8 DEF Frame

SameTables == rows' = rows /\ types' = types /\ tags' = tags /\ assigned' = assigned

\* Step by step: what is read, what is written, and where r goes.
LEMMA FindFacts ==
    ASSUME TypeInv, NEW r \in Requests, Find(r)
    PROVE  /\ pc[r] = "find" /\ SameTables
           /\ \/ /\ read' = read /\ at' = at /\ Turn(r, "done", "error")
                 /\ Fails \/ input[r].needs \notin {None, Kind[input[r].coll]}
              \/ /\ read' = [read EXCEPT ![r] = rows[input[r].coll]]
                 /\ \/ input[r].op = "delete" /\ at' = at /\ Turn(r, "save", None)
                    \/ input[r].op = "move" /\ at' = at /\ Turn(r, "type", None)
                    \/ input[r].op = "update" /\ input[r].name # None /\ at' = at /\ Turn(r, "rename", None)
                    \/ /\ input[r].op = "update" /\ input[r].name = None /\ input[r].tags # None
                       /\ at' = at /\ Turn(r, "clear", None)
                    \/ /\ input[r].op = "update" /\ input[r].name = None /\ input[r].tags = None
                       /\ at' = at /\ Turn(r, "reload", None)
                    \/ /\ input[r].op = "assign" /\ at'[r] = 0 /\ 0 < Len(input[r].tags) /\ Turn(r, "tag", None)
                    \/ input[r].op = "assign" /\ Turn(r, "done", "ok")
  <1>1. pc[r] = "find" /\ SameTables /\ result[r] = None /\ at \in [Requests -> Nat]
    BY DEF Find, tables, SameTables, TypeInv, Control, Knows, TypeOK
  <1>2. input[r].op \in {"delete", "update", "move", "assign"}
    BY <1>1 DEF TypeInv, Control, Knows
  <1>3. \/ /\ read' = read /\ at' = at /\ Reply(r, "error")
           /\ Fails \/ input[r].needs \notin {None, Kind[input[r].coll]}
        \/ read' = [read EXCEPT ![r] = rows[input[r].coll]] /\ AfterFind(r)
    BY DEF Find
  <1>4. CASE /\ read' = read /\ at' = at /\ Reply(r, "error")
             /\ Fails \/ input[r].needs \notin {None, Kind[input[r].coll]}
    BY <1>1, <1>4, TurnFacts
  <1>5. CASE read' = [read EXCEPT ![r] = rows[input[r].coll]] /\ AfterFind(r)
    <2>1. {"save", "type", "rename", "clear", "reload", "tag"} \subseteq Steps
      BY DEF Steps, Working
    <2>2. CASE input[r].op = "assign"
      <3>1. Loop(r, 0)
        BY <1>5, <2>2 DEF AfterFind
      <3>2. at'[r] = 0
        BY <1>1, <3>1 DEF Loop
      <3>3. (0 < Len(input[r].tags) /\ Goto(r, "tag")) \/ Reply(r, "ok")
        BY <2>2, <3>1 DEF Loop
      <3> QED BY <1>1, <1>5, <2>1, <2>2, <3>2, <3>3, TurnFacts
    <2>3. CASE input[r].op = "delete"
      <3>1. at' = at /\ Goto(r, "save")
        BY <1>5, <2>3 DEF AfterFind
      <3> QED BY <1>1, <1>5, <2>1, <2>3, <3>1, TurnFacts
    <2>4. CASE input[r].op = "move"
      <3>1. at' = at /\ Goto(r, "type")
        BY <1>5, <2>4 DEF AfterFind
      <3> QED BY <1>1, <1>5, <2>1, <2>4, <3>1, TurnFacts
    <2>5. CASE input[r].op = "update"
      <3>1. at' = at /\ Goto(r, IF input[r].name # None THEN "rename" ELSE IF input[r].tags # None THEN "clear" ELSE "reload")
        BY <1>5, <2>5 DEF AfterFind
      <3> QED BY <1>1, <1>5, <2>1, <2>5, <3>1, TurnFacts
    <2> QED BY <1>2, <2>2, <2>3, <2>4, <2>5
  <1> QED BY <1>1, <1>3, <1>4, <1>5

LEMMA SaveFacts ==
    ASSUME TypeInv, NEW r \in Requests, Save(r)
    PROVE  /\ pc[r] = "save" /\ input[r].op = "delete" /\ read[r] \in Row
           /\ read' = read /\ at' = at /\ types' = types /\ tags' = tags /\ assigned' = assigned
           /\ \/ /\ Free(read[r].name, input[r].coll) /\ Turn(r, "done", "ok")
                 /\ rows' = [rows EXCEPT ![input[r].coll] = [read[r] EXCEPT !.state = "deleted"]]
              \/ /\ Fails \/ ~Free(read[r].name, input[r].coll)
                 /\ rows' = rows /\ Turn(r, "done", "error")
  BY TurnFacts DEF Save, TypeInv, Control, Knows

LEMMA RenameFacts ==
    ASSUME TypeInv, NEW r \in Requests, Rename(r)
    PROVE  /\ pc[r] = "rename" /\ input[r].op = "update" /\ input[r].name # None
           /\ read' = read /\ at' = at /\ types' = types /\ tags' = tags /\ assigned' = assigned
           /\ \/ /\ Free(input[r].name, input[r].coll)
                 /\ rows' = [rows EXCEPT ![input[r].coll] = [rows[input[r].coll] EXCEPT !.name = input[r].name]]
                 /\ Turn(r, IF input[r].tags # None THEN "clear" ELSE "reload", None)
              \/ /\ Fails \/ ~Free(input[r].name, input[r].coll)
                 /\ rows' = rows /\ Turn(r, "done", "error")
  <1>1. {"clear", "reload"} \subseteq Steps
    BY DEF Steps, Working
  <1>2. (IF input[r].tags # None THEN "clear" ELSE "reload") \in Steps
    BY <1>1
  <1>3. /\ pc[r] = "rename" /\ input[r].op = "update" /\ input[r].name # None /\ result[r] = None
        /\ read' = read /\ at' = at /\ types' = types /\ tags' = tags /\ assigned' = assigned
    BY DEF Rename, TypeInv, Control, Knows
  <1>4. \/ /\ Free(input[r].name, input[r].coll)
           /\ rows' = [rows EXCEPT ![input[r].coll] = [rows[input[r].coll] EXCEPT !.name = input[r].name]]
           /\ Goto(r, IF input[r].tags # None THEN "clear" ELSE "reload")
        \/ /\ Fails \/ ~Free(input[r].name, input[r].coll)
           /\ rows' = rows /\ Reply(r, "error")
    BY DEF Rename
  <1> QED BY <1>2, <1>3, <1>4, TurnFacts

LEMMA ReloadFacts ==
    ASSUME TypeInv, NEW r \in Requests, Reload(r)
    PROVE  /\ pc[r] = "reload" /\ input[r].op = "update" /\ at' = at /\ SameTables
           /\ \/ read' = [read EXCEPT ![r] = rows[input[r].coll]] /\ Turn(r, "done", "ok")
              \/ Fails /\ read' = read /\ Turn(r, "done", "error")
  BY TurnFacts DEF Reload, TypeInv, Control, Knows, tables, SameTables

\* After n tags: the next one, or the end of the request.
After(r, n) ==
    /\ at' = [at EXCEPT ![r] = n]
    /\ \/ n < Len(input[r].tags) /\ Turn(r, "tag", None)
       \/ ~(n < Len(input[r].tags)) /\ input[r].op = "assign" /\ Turn(r, "done", "ok")
       \/ ~(n < Len(input[r].tags)) /\ input[r].op # "assign" /\ Turn(r, "reload", None)

LEMMA LoopFacts ==
    ASSUME TypeInv, NEW r \in Requests, pc[r] # "done", NEW n, Loop(r, n)
    PROVE  After(r, n)
  <1>1. result[r] = None /\ {"tag", "reload"} \subseteq Steps
    BY DEF TypeInv, Control, Knows, Steps, Working
  <1> QED BY <1>1, TurnFacts DEF Loop, After

LEMMA ClearFacts ==
    ASSUME TypeInv, NEW r \in Requests, Clear(r)
    PROVE  /\ pc[r] = "clear" /\ input[r].op = "update" /\ input[r].tags # None /\ After(r, 0)
           /\ read' = read /\ rows' = rows /\ types' = types /\ tags' = tags
           /\ \/ assigned' = {a \in assigned : a[1] # input[r].coll}
              \/ Fails /\ assigned' = assigned
  BY LoopFacts DEF Clear, TypeInv, Control, Knows

LEMMA AssignFacts ==
    ASSUME TypeInv, NEW r \in Requests, Assign(r)
    PROVE  /\ pc[r] = "assign" /\ input[r].op \in {"update", "assign"} /\ After(r, at[r] + 1)
           /\ read' = read /\ rows' = rows /\ types' = types /\ tags' = tags
           /\ \/ assigned' = assigned \cup {<<input[r].coll, Tag(r)>>}
              \/ Fails /\ assigned' = assigned
  BY LoopFacts DEF Assign, TypeInv, Control, Knows

LEMMA FindTagFacts ==
    ASSUME TypeInv, NEW r \in Requests, FindTag(r)
    PROVE  /\ pc[r] = "tag" /\ SameTables /\ read' = read /\ at' = at
           /\ \/ Turn(r, "assign", None) /\ Tag(r) \in tags
              \/ Turn(r, "new tag", None) /\ (Tag(r) \notin tags \/ Fails)
  <1>1. result[r] = None /\ {"assign", "new tag"} \subseteq Steps
    BY DEF FindTag, TypeInv, Control, Knows, Steps, Working
  <1> QED BY <1>1, TurnFacts DEF FindTag, tables, SameTables

LEMMA NewTagFacts ==
    ASSUME TypeInv, NEW r \in Requests, NewTag(r)
    PROVE  /\ pc[r] = "new tag" /\ read' = read /\ at' = at
           /\ rows' = rows /\ types' = types /\ assigned' = assigned
           /\ \/ Tag(r) \notin tags /\ tags' = tags \cup {Tag(r)} /\ Turn(r, "assign", None)
              \/ (Tag(r) \in tags \/ Fails) /\ tags' = tags /\ Turn(r, "done", "error")
  <1>1. result[r] = None /\ "assign" \in Steps
    BY DEF NewTag, TypeInv, Control, Knows, Steps, Working
  <1> QED BY <1>1, TurnFacts DEF NewTag

LEMMA UnassignFacts ==
    ASSUME TypeInv, NEW r \in Requests, Unassign(r)
    PROVE  /\ pc[r] = "unassign" /\ input[r].op = "unassign" /\ read' = read /\ at'[r] = at[r] + 1
           /\ rows' = rows /\ types' = types /\ tags' = tags
           /\ assigned' \subseteq assigned /\ assigned \subseteq assigned' \cup {<<input[r].coll, Tag(r)>>}
           /\ \/ at'[r] < Len(input[r].tags) /\ Turn(r, "unassign", None)
              \/ Turn(r, "done", "ok")
  <1>1. result[r] = None /\ "unassign" \in Steps /\ at \in [Requests -> Nat]
    BY DEF Unassign, TypeInv, Control, Knows, Steps, Working, TypeOK
  <1>2. at'[r] = at[r] + 1
    BY <1>1 DEF Unassign
  <1>3. (at'[r] < Len(input[r].tags) /\ Goto(r, "unassign")) \/ Reply(r, "ok")
    BY DEF Unassign
  <1>4. (at'[r] < Len(input[r].tags) /\ Turn(r, "unassign", None)) \/ Turn(r, "done", "ok")
    BY <1>1, <1>3, TurnFacts
  <1>5. assigned' \subseteq assigned /\ assigned \subseteq assigned' \cup {<<input[r].coll, Tag(r)>>}
    BY DEF Unassign
  <1>6. /\ pc[r] = "unassign" /\ input[r].op = "unassign" /\ read' = read
        /\ rows' = rows /\ types' = types /\ tags' = tags
    BY DEF Unassign, TypeInv, Control, Knows
  <1> QED BY <1>2, <1>4, <1>5, <1>6

\* After the type is found or made: a move goes on, createArtifactType ends.
Typed(r) ==
    \/ input[r].op = "move" /\ Turn(r, "set type", None)
    \/ input[r].op = "type" /\ Turn(r, "done", "ok")

LEMMA AfterTypeFacts ==
    ASSUME TypeInv, NEW r \in Requests, pc[r] \in {"type", "new type"}, AfterType(r)
    PROVE  Typed(r)
  <1>1. result[r] = None /\ "set type" \in Steps /\ input[r].op \in {"move", "type"}
    BY DEF TypeInv, Control, Knows, Steps, Working
  <1> QED BY <1>1, TurnFacts DEF AfterType, Typed

LEMMA FindTypeFacts ==
    ASSUME TypeInv, NEW r \in Requests, FindType(r)
    PROVE  /\ pc[r] = "type" /\ SameTables /\ read' = read /\ at' = at
           /\ \/ Typed(r)
              \/ input[r].type \notin types /\ Turn(r, "new type", None)
              \/ Fails /\ Turn(r, "done", "error")
  <1>1. result[r] = None /\ "new type" \in Steps /\ pc[r] = "type"
    BY DEF FindType, TypeInv, Control, Knows, Steps, Working
  <1> QED BY <1>1, TurnFacts, AfterTypeFacts DEF FindType, tables, SameTables

LEMMA NewTypeFacts ==
    ASSUME TypeInv, NEW r \in Requests, NewType(r)
    PROVE  /\ pc[r] = "new type" /\ read' = read /\ at' = at
           /\ rows' = rows /\ tags' = tags /\ assigned' = assigned
           /\ \/ input[r].type \notin types /\ types' = types \cup {input[r].type} /\ Typed(r)
              \/ (input[r].type \in types \/ Fails) /\ types' = types /\ Turn(r, "done", "error")
  BY TurnFacts, AfterTypeFacts DEF NewType

LEMMA SetTypeFacts ==
    ASSUME TypeInv, NEW r \in Requests, SetType(r)
    PROVE  /\ pc[r] = "set type" /\ input[r].op = "move" /\ read' = read /\ at' = at
           /\ types' = types /\ tags' = tags /\ assigned' = assigned
           /\ \/ /\ rows' = [rows EXCEPT ![input[r].coll] = [rows[input[r].coll] EXCEPT !.type = input[r].type]]
                 /\ Turn(r, "done", "ok")
              \/ Fails /\ rows' = rows /\ Turn(r, "done", "error")
  BY TurnFacts DEF SetType, TypeInv, Control, Knows

LEMMA ReceiveFacts ==
    ASSUME TypeInv, NEW r \in Requests, Receive(r)
    PROVE  /\ pc[r] = "idle" /\ SameTables /\ read' = read /\ at' = at /\ crashes' = crashes /\ faults' = faults
           /\ input'[r] \in Inputs /\ input' \in [Requests -> Inputs \cup {None}]
           /\ seen'[r] = Ended /\ seen' \in [Requests -> SUBSET Requests]
           /\ before'[r] = TagsOf(input'[r].coll) /\ before' \in [Requests -> SUBSET Tags]
           /\ \A q \in Requests \ {r} : input'[q] = input[q] /\ seen'[q] = seen[q] /\ before'[q] = before[q]
           /\ \/ Turn(r, "done", "ok") /\ input'[r].op = "unassign" /\ input'[r].tags = <<>>
              \/ Turn(r, "type", None) /\ input'[r].op = "type"
              \/ Turn(r, "unassign", None) /\ input'[r].op = "unassign" /\ input'[r].tags # <<>>
              \/ Turn(r, "find", None) /\ input'[r].op \in {"delete", "update", "move", "assign"}
  <1>1. /\ input \in [Requests -> Inputs \cup {None}] /\ seen \in [Requests -> SUBSET Requests]
        /\ before \in [Requests -> SUBSET Tags] /\ assigned \subseteq Colls \X Tags /\ pc[r] = "idle"
    BY DEF TypeInv, TypeOK, Receive
  <1>2. result[r] = None
    BY <1>1 DEF TypeInv, Control, Knows
  <1>3. PICK i \in Inputs :
          /\ input' = [input EXCEPT ![r] = i]
          /\ IF i.op = "unassign" /\ i.tags = <<>> THEN Reply(r, "ok")
             ELSE Goto(r, CASE i.op = "type" -> "type" [] i.op = "unassign" -> "unassign" [] OTHER -> "find")
          /\ before' = [before EXCEPT ![r] = TagsOf(i.coll)]
    BY DEF Receive
  <1>4. /\ seen' = [seen EXCEPT ![r] = Ended] /\ SameTables /\ read' = read /\ at' = at
        /\ crashes' = crashes /\ faults' = faults
    BY DEF Receive, tables, SameTables
  <1>5. input'[r] = i /\ input' \in [Requests -> Inputs \cup {None}]
        /\ \A q \in Requests \ {r} : input'[q] = input[q]
    BY <1>1, <1>3
  <1>6. Ended \subseteq Requests /\ TagsOf(i.coll) \subseteq Tags
    BY DEF Ended, TagsOf
  <1>7. /\ seen'[r] = Ended /\ seen' \in [Requests -> SUBSET Requests]
        /\ \A q \in Requests \ {r} : seen'[q] = seen[q]
    BY <1>1, <1>4, <1>6
  <1>8. /\ before'[r] = TagsOf(i.coll) /\ before' \in [Requests -> SUBSET Tags]
        /\ \A q \in Requests \ {r} : before'[q] = before[q]
    BY <1>1, <1>3, <1>6
  <1>9. i \in Input
    BY CollectionsAssumption DEF CollectionsAssumption
  <1>10. i.op \in {"delete", "update", "move", "type", "assign", "unassign"}
    BY <1>9 DEF Input
  <1>11. {"type", "unassign", "find"} \subseteq Steps
    BY DEF Steps, Working
  <1>12. \/ Turn(r, "done", "ok") /\ i.op = "unassign" /\ i.tags = <<>>
         \/ Turn(r, "type", None) /\ i.op = "type"
         \/ Turn(r, "unassign", None) /\ i.op = "unassign" /\ i.tags # <<>>
         \/ Turn(r, "find", None) /\ i.op \in {"delete", "update", "move", "assign"}
    <2>1. CASE i.op = "unassign" /\ i.tags = <<>>
      BY <1>3, <2>1, TurnFacts
    <2>2. CASE i.op = "unassign" /\ i.tags # <<>>
      <3>1. Goto(r, "unassign")
        BY <1>3, <2>2
      <3> QED BY <1>2, <1>11, <2>2, <3>1, TurnFacts
    <2>3. CASE i.op = "type"
      <3>1. Goto(r, "type")
        BY <1>3, <2>3
      <3> QED BY <1>2, <1>11, <2>3, <3>1, TurnFacts
    <2>4. CASE i.op \in {"delete", "update", "move", "assign"}
      <3>1. Goto(r, "find")
        BY <1>3, <2>4
      <3> QED BY <1>2, <1>11, <2>4, <3>1, TurnFacts
    <2> QED BY <1>10, <2>1, <2>2, <2>3, <2>4
  <1> QED BY <1>1, <1>3, <1>4, <1>5, <1>7, <1>8, <1>12

LEMMA CrashFacts ==
    ASSUME TypeInv, Crash
    PROVE  /\ SameTables /\ input' = input /\ read' = read /\ at' = at /\ result' = result
           /\ seen' = seen /\ before' = before /\ faults' = faults /\ crashes' = crashes + 1
           /\ pc' \in [Requests -> Steps]
           /\ \A q \in Requests : pc'[q] = (IF pc[q] \in Working THEN "done" ELSE pc[q])
  <1>1. pc \in [Requests -> Steps] /\ "done" \in Steps
    BY DEF TypeInv, TypeOK, Steps
  <1>2. pc' = [r \in Requests |-> IF pc[r] \in Working THEN "done" ELSE pc[r]]
    BY DEF Crash
  <1> QED BY <1>1, <1>2 DEF Crash, tables, history, SameTables

(***************************************************************************)
(* Types and control.                                                      *)
(***************************************************************************)
LEMMA TypeInit == Init => TypeInv
  <1> SUFFICES ASSUME Init PROVE TypeInv
    OBVIOUS
  <1>1. [c \in Colls |-> [name |-> FirstName[c], type |-> FirstType, state |-> "active"]] \in [Colls -> Row]
    BY CollectionsAssumption DEF CollectionsAssumption, Row
  <1>2. TypeOK
    BY <1>1, CollectionsAssumption DEF Init, TypeOK, Steps, CollectionsAssumption
  <1>3. Control
    BY DEF Init, Control, Knows, Ended
  <1> QED BY <1>2, <1>3 DEF TypeInv

\* The element after the first n.
LEMMA NextElement ==
    ASSUME NEW T, NEW s \in Seq(T), NEW n \in Nat, n < Len(s)
    PROVE  s[n + 1] \in T /\ s[n + 1] \in {s[i] : i \in DOMAIN s}
  <1>1. Len(s) \in Nat /\ DOMAIN s = 1..Len(s)
    OBVIOUS
  <1>2. n + 1 \in DOMAIN s
    BY <1>1
  <1> QED BY <1>1, <1>2

\* The tag a request works on is one of its tags.
LEMMA TagTyped ==
    ASSUME TypeInv, NEW r \in Requests, pc[r] \in {"tag", "new tag", "assign", "unassign"}
    PROVE  /\ Tag(r) \in Tags /\ Tag(r) \in Range(input[r].tags)
           /\ input[r].tags # None /\ at[r] \in Nat /\ at[r] < Len(input[r].tags) /\ input[r].tags \in Seq(Tags)
  <1>1. pc[r] # "idle" /\ input[r].tags # None /\ at[r] < Len(input[r].tags)
    BY DEF TypeInv, Control, Knows
  <1>2. PICK s \in Seq(Tags) : s = input[r].tags
    BY <1>1, InputFacts
  <1>3. PICK n \in Nat : n = at[r]
    BY DEF TypeInv, TypeOK
  <1>4. n < Len(s)
    BY <1>1, <1>2, <1>3
  <1>6. s[n + 1] \in Tags /\ s[n + 1] \in {s[i] : i \in DOMAIN s}
    BY <1>4, NextElement
  <1>7. Tag(r) = s[n + 1] /\ Range(input[r].tags) = {s[i] : i \in DOMAIN s}
    BY <1>2, <1>3 DEF Tag, Range
  <1> QED BY <1>1, <1>2, <1>3, <1>6, <1>7

\* What the steps do to the tables keeps their types.
LEMMA TablesTyped ==
    ASSUME TypeInv, NEW r \in Requests, Step(r)
    PROVE  /\ rows' \in [Colls -> Row] /\ types' \subseteq Types /\ tags' \subseteq Tags
           /\ assigned' \subseteq Colls \X Tags /\ read' \in [Requests -> Row \cup {None}]
  <1>1. /\ rows \in [Colls -> Row] /\ types \subseteq Types /\ tags \subseteq Tags
        /\ assigned \subseteq Colls \X Tags /\ read \in [Requests -> Row \cup {None}] /\ at \in [Requests -> Nat]
    BY DEF TypeInv, TypeOK
  <1>2. pc[r] # "idle" /\ pc[r] \in Working
    BY DEF Step, Find, Save, Rename, Reload, Clear, FindTag, NewTag, Assign, Unassign, FindType, NewType, SetType, Working
  <1> DEFINE c == input[r].coll
  <1>3. /\ c \in Colls /\ rows[c] \in Row /\ WellFormed(input[r])
        /\ input[r].name \in Names \cup {None} /\ input[r].type \in Types \cup {None}
        /\ input[r].tags # None => input[r].tags \in Seq(Tags)
    BY <1>1, <1>2, InputFacts
  <1>4. pc[r] \in {"tag", "new tag", "assign", "unassign"} => Tag(r) \in Tags
    BY <1>2, TagTyped
  <1>5. CASE Find(r)
    BY <1>1, <1>3, <1>5, FindFacts DEF SameTables
  <1>6. CASE Save(r)
    <2>1. [read[r] EXCEPT !.state = "deleted"] \in Row
      BY <1>6, SaveFacts DEF Row
    <2> QED BY <1>1, <1>3, <1>6, <2>1, SaveFacts
  <1>7. CASE Rename(r)
    <2>1. input[r].name \in Names
      BY <1>3, <1>7, RenameFacts
    <2>2. [rows[c] EXCEPT !.name = input[r].name] \in Row
      BY <1>3, <2>1 DEF Row
    <2>3. rows' = rows \/ rows' = [rows EXCEPT ![c] = [@ EXCEPT !.name = input[r].name]]
      BY <1>7, RenameFacts
    <2>4. rows' \in [Colls -> Row]
      BY <1>1, <1>3, <2>2, <2>3
    <2>5. types' = types /\ tags' = tags /\ assigned' = assigned /\ read' = read
      BY <1>7, RenameFacts
    <2>6. /\ types' \subseteq Types /\ tags' \subseteq Tags
          /\ assigned' \subseteq Colls \X Tags /\ read' \in [Requests -> Row \cup {None}]
      BY <1>1, <2>5
    <2> QED BY <2>4, <2>6
  <1>8. CASE Reload(r)
    <2>1. SameTables /\ (read' = [read EXCEPT ![r] = rows[input[r].coll]] \/ read' = read)
      BY <1>8, ReloadFacts
    <2>2. read' \in [Requests -> Row \cup {None}]
      BY <1>1, <1>3, <2>1
    <2> QED BY <1>1, <2>1, <2>2 DEF SameTables
  <1>9. CASE Clear(r)
    BY <1>1, <1>9, ClearFacts
  <1>10. CASE FindTag(r)
    BY <1>1, <1>10, FindTagFacts DEF SameTables
  <1>11. CASE NewTag(r)
    BY <1>1, <1>4, <1>11, NewTagFacts
  <1>12. CASE Assign(r)
    <2>1. <<c, Tag(r)>> \in Colls \X Tags
      BY <1>3, <1>4, <1>12, AssignFacts
    <2> QED BY <1>1, <1>12, <2>1, AssignFacts
  <1>13. CASE Unassign(r)
    BY <1>1, <1>13, UnassignFacts
  <1>14. CASE FindType(r)
    BY <1>1, <1>14, FindTypeFacts DEF SameTables
  <1>15. CASE NewType(r)
    <2>1. input[r].type \in Types
      <3>1. input[r].op \in {"move", "type"}
        BY <1>15, NewTypeFacts DEF TypeInv, Control, Knows
      <3> QED BY <1>3, <3>1 DEF WellFormed
    <2> QED BY <1>1, <1>15, <2>1, NewTypeFacts
  <1>16. CASE SetType(r)
    <2>1. input[r].type \in Types
      <3>1. input[r].op = "move"
        BY <1>16, SetTypeFacts
      <3> QED BY <1>3, <3>1 DEF WellFormed
    <2>2. [rows[c] EXCEPT !.type = input[r].type] \in Row
      BY <1>3, <2>1 DEF Row
    <2> QED BY <1>1, <1>3, <1>16, <2>2, SetTypeFacts
  <1> QED BY <1>5, <1>6, <1>7, <1>8, <1>9, <1>10, <1>11, <1>12, <1>13, <1>14, <1>15, <1>16 DEF Step

\* Where a step takes r.
LEMMA StepTurns ==
    ASSUME TypeInv, NEW r \in Requests, Step(r)
    PROVE  /\ pc[r] \in Working
           /\ \E step \in Steps \ {"idle", "find"}, res \in {None, "ok", "error"} :
                 Turn(r, step, res) /\ (res # None <=> step = "done")
           /\ pc' \in [Requests -> Steps] /\ result' \in [Requests -> {None, "ok", "error"}]
           /\ \A q \in Requests \ {r} : pc'[q] = pc[q] /\ result'[q] = result[q]
  <1>1. {"save", "rename", "clear", "tag", "new tag", "assign", "unassign", "reload", "type", "new type", "set type", "done"}
           \subseteq Steps \ {"idle", "find"}
    BY DEF Steps, Working
  <1>2. pc[r] \in Working
    BY DEF Step, Find, Save, Rename, Reload, Clear, FindTag, NewTag, Assign, Unassign, FindType, NewType, SetType, Working
  <1>3. None \notin {"ok", "error"}
    BY CollectionsAssumption DEF CollectionsAssumption
  <1> DEFINE Ends(step, res) == Turn(r, step, res) /\ (res # None <=> step = "done")
  <1>4. (\E step \in Steps \ {"idle", "find"}, res \in {None, "ok", "error"} : Ends(step, res))
    <2>1. CASE Find(r)
      BY <1>1, <1>3, <2>1, FindFacts
    <2>2. CASE Save(r)
      BY <1>1, <1>3, <2>2, SaveFacts
    <2>3. CASE Rename(r)
      BY <1>1, <1>3, <2>3, RenameFacts
    <2>4. CASE Reload(r)
      BY <1>1, <1>3, <2>4, ReloadFacts
    <2>5. CASE Clear(r)
      BY <1>1, <1>3, <2>5, ClearFacts DEF After
    <2>6. CASE FindTag(r)
      BY <1>1, <1>3, <2>6, FindTagFacts
    <2>7. CASE NewTag(r)
      BY <1>1, <1>3, <2>7, NewTagFacts
    <2>8. CASE Assign(r)
      BY <1>1, <1>3, <2>8, AssignFacts DEF After
    <2>9. CASE Unassign(r)
      BY <1>1, <1>3, <2>9, UnassignFacts
    <2>10. CASE FindType(r)
      BY <1>1, <1>3, <2>10, FindTypeFacts DEF Typed
    <2>11. CASE NewType(r)
      BY <1>1, <1>3, <2>11, NewTypeFacts DEF Typed
    <2>12. CASE SetType(r)
      BY <1>1, <1>3, <2>12, SetTypeFacts
    <2> QED BY <2>1, <2>2, <2>3, <2>4, <2>5, <2>6, <2>7, <2>8, <2>9, <2>10, <2>11, <2>12 DEF Step
  <1> QED BY <1>2, <1>4 DEF Turn

\* Each step takes r where its locals are known.
LEMMA StepKnows ==
    ASSUME TypeInv, NEW r \in Requests, Step(r)
    PROVE  Knows(r)'
  <1>1. pc[r] \in Working /\ pc[r] # "idle" /\ Frame(r)
    BY StepTurns, FrameFacts DEF Working
  <1>2. input[r] \in Inputs /\ input' = input /\ seen' = seen
    BY <1>1 DEF Frame, TypeInv, Control, Knows
  <1>3. pc'[r] \notin {"idle", "find"} /\ (result'[r] # None => pc'[r] = "done")
    BY StepTurns DEF Turn
  <1>4. seen[r] \subseteq Ended'
    <2>1. seen[r] \subseteq Ended
      BY DEF TypeInv, Control, Knows
    <2>2. \A q \in Ended : q # r /\ pc'[q] = "done"
      BY <1>1, StepTurns DEF Ended, Working
    <2> QED BY <2>1, <2>2 DEF Ended
  <1>5. input[r].op \in {"update", "assign"} /\ pc[r] \in {"tag", "new tag", "assign"} => input[r].tags # None
    BY DEF TypeInv, Control, Knows
  <1> DEFINE Tagged == input[r].tags # None /\ at'[r] < Len(input[r].tags)
             Rest == /\ pc'[r] = "save" => input[r].op = "delete" /\ read'[r] \in Row
                     /\ pc'[r] = "rename" => input[r].op = "update" /\ input[r].name # None
                     /\ pc'[r] = "clear" => input[r].op = "update" /\ input[r].tags # None
                     /\ pc'[r] \in {"tag", "new tag", "assign"} => input[r].op \in {"update", "assign"}
                     /\ pc'[r] = "unassign" => input[r].op = "unassign"
                     /\ pc'[r] \in {"tag", "new tag", "assign", "unassign"} => Tagged
                     /\ pc'[r] = "reload" => input[r].op = "update"
                     /\ pc'[r] \in {"type", "new type"} => input[r].op \in {"move", "type"}
                     /\ pc'[r] = "set type" => input[r].op = "move"
  <1>6. Rest
    <2>1. CASE Find(r)
      <3>1. rows[input[r].coll] \in Row /\ read \in [Requests -> Row \cup {None}]
        BY <1>1, InputFacts DEF TypeInv, TypeOK
      <3>2. input[r].op = "assign" => input[r].tags # None
        BY <1>1, InputFacts DEF WellFormed
      <3> QED BY <2>1, <3>1, <3>2, FindFacts DEF Turn
    <2>2. CASE Save(r)
      BY <2>2, SaveFacts DEF Turn
    <2>3. CASE Rename(r)
      BY <2>3, RenameFacts DEF Turn
    <2>4. CASE Reload(r)
      BY <2>4, ReloadFacts DEF Turn
    <2>5. CASE Clear(r)
      <3>1. at'[r] = 0 \/ pc'[r] # "tag"
        BY <2>5, ClearFacts DEF After, TypeInv, TypeOK
      <3>2. \/ 0 < Len(input[r].tags) /\ pc'[r] = "tag"
            \/ pc'[r] \in {"done", "reload"}
        BY <2>5, ClearFacts DEF After, Turn
      <3> QED BY <2>5, <3>1, <3>2, ClearFacts
    <2>6. CASE FindTag(r)
      BY <2>6, FindTagFacts DEF Turn, TypeInv, Control, Knows
    <2>7. CASE NewTag(r)
      BY <2>7, NewTagFacts DEF Turn, TypeInv, Control, Knows
    <2>8. CASE Assign(r)
      <3>1. at'[r] = at[r] + 1
        BY <2>8, AssignFacts DEF After, TypeInv, TypeOK
      <3>2. \/ at[r] + 1 < Len(input[r].tags) /\ pc'[r] = "tag"
            \/ pc'[r] = "done"
            \/ input[r].op # "assign" /\ pc'[r] = "reload"
        BY <2>8, AssignFacts DEF After, Turn
      <3> QED BY <1>5, <2>8, <3>1, <3>2, AssignFacts
    <2>9. CASE Unassign(r)
      BY <2>9, UnassignFacts DEF Turn, TypeInv, Control, Knows
    <2>10. CASE FindType(r)
      BY <2>10, FindTypeFacts DEF Turn, Typed, TypeInv, Control, Knows
    <2>11. CASE NewType(r)
      BY <2>11, NewTypeFacts DEF Turn, Typed
    <2>12. CASE SetType(r)
      BY <2>12, SetTypeFacts DEF Turn
    <2> QED BY <2>1, <2>2, <2>3, <2>4, <2>5, <2>6, <2>7, <2>8, <2>9, <2>10, <2>11, <2>12 DEF Step
  <1> QED BY <1>2, <1>3, <1>4, <1>6 DEF Knows

LEMMA TypeStep == ASSUME TypeInv, NEW r \in Requests, Step(r) PROVE TypeInv'
  <1>1. Frame(r)
    BY FrameFacts
  <1>2. faults' \in Nat /\ crashes' \in Nat
    BY <1>1 DEF Frame, TypeInv, TypeOK
  <1>3. TypeOK'
    BY <1>1, <1>2, TablesTyped, StepTurns DEF TypeInv, TypeOK, Frame
  <1>4. ASSUME NEW q \in Requests, q # r PROVE Knows(q)'
    <2>1. /\ pc'[q] = pc[q] /\ input'[q] = input[q] /\ read'[q] = read[q] /\ at'[q] = at[q]
          /\ result'[q] = result[q] /\ seen'[q] = seen[q]
      BY <1>1, <1>4, StepTurns DEF Frame
    <2>2. Knows(q)
      BY DEF TypeInv, Control
    <2>3. Ended \subseteq Ended'
      BY StepTurns DEF Ended, Working
    <2> QED BY <2>1, <2>2, <2>3 DEF Knows
  <1>5. Control'
    BY <1>4, StepKnows DEF Control
  <1> QED BY <1>3, <1>5 DEF TypeInv

LEMMA TypeReceive == ASSUME TypeInv, NEW r \in Requests, Receive(r) PROVE TypeInv'
  <1>1. /\ pc[r] = "idle" /\ SameTables /\ read' = read /\ at' = at /\ crashes' = crashes /\ faults' = faults
        /\ input'[r] \in Inputs /\ input' \in [Requests -> Inputs \cup {None}]
        /\ seen'[r] = Ended /\ seen' \in [Requests -> SUBSET Requests]
        /\ before' \in [Requests -> SUBSET Tags]
        /\ \A q \in Requests \ {r} : input'[q] = input[q] /\ seen'[q] = seen[q]
    BY ReceiveFacts
  <1>2. /\ pc' \in [Requests -> Steps] /\ result' \in [Requests -> {None, "ok", "error"}]
        /\ \A q \in Requests \ {r} : pc'[q] = pc[q] /\ result'[q] = result[q]
    BY ReceiveFacts DEF Turn
  <1>3. TypeOK'
    BY <1>1, <1>2 DEF TypeInv, TypeOK, SameTables
  <1>4. Ended \subseteq Ended'
    BY <1>1, <1>2 DEF Ended
  <1>5. ASSUME NEW q \in Requests, q # r PROVE Knows(q)'
    <2>1. Knows(q)
      BY DEF TypeInv, Control
    <2> QED BY <1>1, <1>2, <1>4, <1>5, <2>1 DEF Knows
  <1>6. Knows(r)'
    <2>1. /\ pc'[r] \in {"done", "type", "unassign", "find"} /\ (result'[r] # None => pc'[r] = "done")
          /\ (pc'[r] = "type" => input'[r].op = "type")
          /\ (pc'[r] = "unassign" => input'[r].op = "unassign" /\ input'[r].tags # <<>>)
          /\ (pc'[r] = "find" => input'[r].op \in {"delete", "update", "move", "assign"})
      BY ReceiveFacts DEF Turn
    <2>2. pc'[r] = "unassign" => input'[r].tags # None /\ at'[r] < Len(input'[r].tags)
      <3> SUFFICES ASSUME pc'[r] = "unassign" PROVE input'[r].tags # None /\ at'[r] < Len(input'[r].tags)
        OBVIOUS
      <3>1. input'[r] \in Input /\ WellFormed(input'[r])
        BY <1>1, CollectionsAssumption DEF CollectionsAssumption
      <3>2. input'[r].tags # None /\ input'[r].tags \in {None} \cup Seq(Tags)
        BY <2>1, <3>1 DEF WellFormed, Input
      <3>3. PICK s \in Seq(Tags) : s = input'[r].tags
        BY <3>2
      <3>4. s # <<>> /\ Len(s) \in Nat
        BY <2>1, <3>3
      <3>5. 0 < Len(s)
        BY <3>4
      <3>6. at[r] = 0
        BY <1>1 DEF TypeInv, Control, Knows
      <3> QED BY <1>1, <3>2, <3>3, <3>5, <3>6
    <2> QED BY <1>1, <1>4, <2>1, <2>2 DEF Knows
  <1>7. Control'
    BY <1>5, <1>6 DEF Control
  <1> QED BY <1>3, <1>7 DEF TypeInv

LEMMA TypeCrash == ASSUME TypeInv, Crash PROVE TypeInv'
  <1>1. crashes' \in Nat
    BY CrashFacts DEF TypeInv, TypeOK
  <1>2. TypeOK'
    BY <1>1, CrashFacts DEF TypeInv, TypeOK, SameTables
  <1>3. ASSUME NEW q \in Requests PROVE Knows(q)'
    <2>1. Knows(q)
      BY DEF TypeInv, Control
    <2>2. Ended \subseteq Ended'
      BY CrashFacts DEF Ended, Working
    <2>3. pc'[q] = pc[q] \/ (pc'[q] = "done" /\ pc[q] # "idle")
      BY CrashFacts DEF Working
    <2> QED BY <2>1, <2>2, <2>3, CrashFacts DEF Knows
  <1> QED BY <1>2, <1>3 DEF TypeInv, Control

LEMMA TypeNext == ASSUME TypeInv, [Next]_vars PROVE TypeInv'
  <1>1. CASE UNCHANGED vars
    BY <1>1 DEF vars, tables, history, TypeInv, TypeOK, Control, Knows, Ended
  <1>2. CASE Next
    BY <1>2, TypeStep, TypeReceive, TypeCrash DEF Next
  <1> QED BY <1>1, <1>2

(***************************************************************************)
(* Who overlaps whom.                                                      *)
(***************************************************************************)
\* Steps and deaths change no arguments and start nothing.
LEMMA SameRequests ==
    ASSUME TypeInv, Crash \/ \E r \in Requests : Step(r)
    PROVE  /\ input' = input /\ seen' = seen /\ before' = before /\ Started' = Started
           /\ \A q \in Requests : pc'[q] = "idle" <=> pc[q] = "idle"
  <1>1. CASE Crash
    <2>1. \A q \in Requests : pc'[q] = "idle" <=> pc[q] = "idle"
      BY <1>1, CrashFacts DEF Working
    <2> QED BY <1>1, <2>1, CrashFacts DEF Started
  <1>2. ASSUME NEW r \in Requests, Step(r)
        PROVE  /\ input' = input /\ seen' = seen /\ before' = before
               /\ \A q \in Requests : pc'[q] = "idle" <=> pc[q] = "idle"
    <2>1. pc'[r] # "idle" /\ pc[r] # "idle"
      BY <1>2, StepTurns DEF Turn, Working
    <2> QED BY <1>2, <2>1, StepTurns, FrameFacts DEF Frame
  <1> QED BY <1>1, <1>2 DEF Started

LEMMA SameOverlaps ==
    ASSUME TypeInv, Crash \/ \E r \in Requests : Step(r)
    PROVE  \A q \in Requests :
              /\ Overlaps(q)' = Overlaps(q) /\ Later(q)' = Later(q)
              /\ On(q, Overlaps(q))' = On(q, Overlaps(q)) /\ On(q, Later(q))' = On(q, Later(q))
              /\ NameCalm(q)' = NameCalm(q) /\ TypeCalm(q)' = TypeCalm(q) /\ TagCalm(q)' = TagCalm(q)
  BY SameRequests DEF Overlaps, Later, On, Alone, NameCalm, TypeCalm, TagCalm, Retags

\* A request that arrives overlaps those that work, and is later than those
\* that have ended.
LEMMA MoreOverlaps ==
    ASSUME TypeInv, NEW r \in Requests, Receive(r)
    PROVE  /\ \A q \in Started : q # r /\ q \in Started' /\ input'[q] = input[q]
           /\ \A q \in Started :
                 /\ Overlaps(q) \subseteq Overlaps(q)' /\ Later(q) \subseteq Later(q)'
                 /\ \A x \in Later(q)' : x # r => x \in Later(q)
           /\ \A q \in Started :
                 /\ NameCalm(q)' => NameCalm(q)
                 /\ TypeCalm(q)' => TypeCalm(q)
                 /\ TagCalm(q)' => TagCalm(q)
  <1>1. /\ pc[r] = "idle" /\ seen'[r] = Ended
        /\ \A q \in Requests \ {r} : input'[q] = input[q] /\ seen'[q] = seen[q] /\ pc'[q] = pc[q]
    BY ReceiveFacts DEF Turn
  <1>2. r \notin Started /\ \A q \in Started : q \in Requests /\ q # r
    BY <1>1 DEF Started
  <1>3. \A q \in Requests : r \notin seen[q]
    BY <1>1 DEF TypeInv, Control, Knows, Ended
  <1>4. \A q \in Started : q \in Started' /\ input'[q] = input[q]
    BY <1>1, <1>2 DEF Started
  <1>5. \A x \in Started' : x # r => x \in Started
    BY <1>1 DEF Started
  <1>6. ASSUME NEW q \in Started
        PROVE  /\ Overlaps(q) \subseteq Overlaps(q)' /\ Later(q) \subseteq Later(q)'
               /\ \A x \in Later(q)' : x # r => x \in Later(q)
    <2>1. \A x \in Started : seen'[x] = seen[x] /\ x \in Requests
      BY <1>1, <1>2
    <2> QED BY <1>4, <1>5, <2>1 DEF Overlaps, Later
  <1>7. ASSUME NEW q \in Started
        PROVE  /\ NameCalm(q)' => NameCalm(q)
               /\ TypeCalm(q)' => TypeCalm(q)
               /\ TagCalm(q)' => TagCalm(q)
    <2>1. Overlaps(q) \subseteq Started /\ Later(q) \subseteq Started
      BY DEF Overlaps, Later
    <2>2. Alone(q)' => Alone(q)
      BY <1>4, <1>6, <2>1 DEF Alone
    <2>3. On(q, Later(q)) \subseteq On(q, Later(q))' /\ \A x \in On(q, Later(q)) : input'[x] = input[x]
      BY <1>4, <1>6, <2>1 DEF On
    <2> QED BY <2>2, <2>3 DEF NameCalm, TypeCalm, TagCalm, Retags
  <1> QED BY <1>2, <1>4, <1>6, <1>7

\* A working request and another that has started: they overlap, or it is
\* the later one.
LEMMA WorkingMeets ==
    ASSUME TypeInv, NEW r \in Requests, pc[r] \in Working, NEW q \in Requests, q # r, pc[q] # "idle"
    PROVE  /\ r \in Overlaps(q) \/ r \in Later(q)
           /\ pc[q] \in Working => r \in Overlaps(q) /\ q \in Overlaps(r)
           /\ Later(r) = {}
  <1>1. r \in Started /\ q \in Started /\ r \notin Ended
    BY DEF Started, Ended, Working
  <1>2. \A x \in Requests : r \notin seen[x]
    BY <1>1 DEF TypeInv, Control, Knows
  <1>3. pc[q] \in Working => q \notin Ended
    BY DEF Ended, Working
  <1>4. pc[q] \in Working => q \notin seen[r]
    BY <1>3 DEF TypeInv, Control, Knows
  <1>5. Later(r) = {}
    BY <1>2 DEF Later, Started
  <1> QED BY <1>1, <1>2, <1>4, <1>5 DEF Overlaps, Later

\* A request that is alone, and after which nothing retags, renames or moves
\* its collection: who else works on that collection?
LEMMA OthersBarred ==
    ASSUME TypeInv, NEW r \in Requests, pc[r] \in Working, NEW q \in Requests, q # r, pc[q] # "idle",
           input[r].coll = input[q].coll, input[r].op # "type", Alone(q)
    PROVE  r \in On(q, Later(q))
  BY WorkingMeets DEF Alone, On

(***************************************************************************)
(* Who writes what.                                                        *)
(***************************************************************************)
\* A row is written by a delete, a rename or a move of its collection.
LEMMA RowStep ==
    ASSUME TypeInv, NEW r \in Requests, Step(r), rows' # rows
    PROVE  LET c == input[r].coll IN
           /\ c \in Colls
           /\ \A d \in Colls \ {c} : rows'[d] = rows[d]
           /\ \/ /\ pc[r] = "save" /\ input[r].op = "delete" /\ Turn(r, "done", "ok")
                 /\ Free(read[r].name, c) /\ read[r] \in Row /\ read' = read
                 /\ rows'[c].name = read[r].name /\ rows'[c].type = read[r].type /\ rows'[c].state = "deleted"
              \/ /\ pc[r] = "rename" /\ input[r].op = "update" /\ input[r].name # None
                 /\ Turn(r, IF input[r].tags # None THEN "clear" ELSE "reload", None)
                 /\ Free(input[r].name, c) /\ read' = read
                 /\ rows'[c].name = input[r].name /\ rows'[c].type = rows[c].type /\ rows'[c].state = rows[c].state
              \/ /\ pc[r] = "set type" /\ input[r].op = "move" /\ Turn(r, "done", "ok") /\ read' = read
                 /\ rows'[c].type = input[r].type /\ rows'[c].name = rows[c].name /\ rows'[c].state = rows[c].state
  <1>1. rows \in [Colls -> Row]
    BY DEF TypeInv, TypeOK
  <1>2. pc[r] # "idle"
    BY StepTurns DEF Working
  <1>3. input[r].coll \in Colls
    BY <1>2, InputFacts
  <1>4. PICK row \in Row : row = rows[input[r].coll]
    BY <1>1, <1>3
  <1>5. CASE Save(r)
    <2>1. PICK new \in Row : new = read[r]
      BY <1>5, SaveFacts
    <2>2. rows' = [rows EXCEPT ![input[r].coll] = [new EXCEPT !.state = "deleted"]]
      BY <1>5, <2>1, SaveFacts
    <2>3. /\ rows'[input[r].coll] = [new EXCEPT !.state = "deleted"]
          /\ \A d \in Colls \ {input[r].coll} : rows'[d] = rows[d]
      BY <1>1, <1>3, <2>2
    <2>4. /\ [new EXCEPT !.state = "deleted"].name = new.name /\ [new EXCEPT !.state = "deleted"].type = new.type
          /\ [new EXCEPT !.state = "deleted"].state = "deleted"
      BY DEF Row
    <2> QED BY <1>3, <1>5, <2>1, <2>3, <2>4, SaveFacts
  <1>6. CASE Rename(r)
    <2>1. rows' = [rows EXCEPT ![input[r].coll] = [row EXCEPT !.name = input[r].name]]
      BY <1>4, <1>6, RenameFacts
    <2>2. /\ rows'[input[r].coll] = [row EXCEPT !.name = input[r].name]
          /\ \A d \in Colls \ {input[r].coll} : rows'[d] = rows[d]
      BY <1>1, <1>3, <2>1
    <2>3. \A x : /\ [row EXCEPT !.name = x].name = x /\ [row EXCEPT !.name = x].type = row.type
                 /\ [row EXCEPT !.name = x].state = row.state
      BY DEF Row
    <2>4. /\ rows'[input[r].coll].name = input[r].name /\ rows'[input[r].coll].type = rows[input[r].coll].type
          /\ rows'[input[r].coll].state = rows[input[r].coll].state
      BY <1>4, <2>2, <2>3
    <2>5. rows' # rows => /\ Free(input[r].name, input[r].coll)
                          /\ Turn(r, IF input[r].tags # None THEN "clear" ELSE "reload", None)
      BY <1>6, RenameFacts
    <2> QED BY <1>3, <1>6, <2>2, <2>4, <2>5, RenameFacts
  <1>7. CASE SetType(r)
    <2>1. rows' = [rows EXCEPT ![input[r].coll] = [row EXCEPT !.type = input[r].type]]
      BY <1>4, <1>7, SetTypeFacts
    <2>2. /\ rows'[input[r].coll] = [row EXCEPT !.type = input[r].type]
          /\ \A d \in Colls \ {input[r].coll} : rows'[d] = rows[d]
      BY <1>1, <1>3, <2>1
    <2>3. \A x : /\ [row EXCEPT !.type = x].type = x /\ [row EXCEPT !.type = x].name = row.name
                 /\ [row EXCEPT !.type = x].state = row.state
      BY DEF Row
    <2>4. /\ rows'[input[r].coll].type = input[r].type /\ rows'[input[r].coll].name = rows[input[r].coll].name
          /\ rows'[input[r].coll].state = rows[input[r].coll].state
      BY <1>4, <2>2, <2>3
    <2>5. rows' # rows => Turn(r, "done", "ok")
      BY <1>7, SetTypeFacts
    <2> QED BY <1>3, <1>7, <2>2, <2>4, <2>5, SetTypeFacts
  <1> QED BY <1>5, <1>6, <1>7 DEF Step, Find, Reload, Clear, FindTag, NewTag, Assign, Unassign, FindType, NewType, tables

\* A collection whose row changes is that of the request that takes the step.
LEMMA RowOfOthers ==
    ASSUME TypeInv, NEW r \in Requests, Step(r), NEW c \in Colls, rows'[c] # rows[c]
    PROVE  rows' # rows /\ input[r].coll = c
  <1>1. rows' # rows
    OBVIOUS
  <1>2. \A d \in Colls \ {input[r].coll} : rows'[d] = rows[d]
    BY <1>1, RowStep
  <1> QED BY <1>1, <1>2

\* A delete starts to save with the row it has just read.
LEMMA SaveStep ==
    ASSUME TypeInv, NEW r \in Requests, Step(r), NEW q \in Requests, pc'[q] = "save"
    PROVE  IF q = r THEN rows' = rows /\ read'[q] = rows[input[q].coll]
           ELSE pc[q] = "save" /\ read'[q] = read[q]
  <1>1. CASE q # r
    BY <1>1, StepTurns, FrameFacts DEF Frame
  <1>2. CASE q = r
    <2>1. Find(r)
      <3>1. pc'[r] = "save"
        BY <1>2
      <3>2. CASE Save(r)
        BY <3>1, <3>2, SaveFacts DEF Turn
      <3>3. CASE Rename(r)
        BY <3>1, <3>3, RenameFacts DEF Turn
      <3>4. CASE Reload(r)
        BY <3>1, <3>4, ReloadFacts DEF Turn
      <3>5. CASE Clear(r)
        BY <3>1, <3>5, ClearFacts DEF Turn, After
      <3>6. CASE FindTag(r)
        BY <3>1, <3>6, FindTagFacts DEF Turn
      <3>7. CASE NewTag(r)
        BY <3>1, <3>7, NewTagFacts DEF Turn
      <3>8. CASE Assign(r)
        BY <3>1, <3>8, AssignFacts DEF Turn, After
      <3>9. CASE Unassign(r)
        BY <3>1, <3>9, UnassignFacts DEF Turn
      <3>10. CASE FindType(r)
        BY <3>1, <3>10, FindTypeFacts DEF Turn, Typed
      <3>11. CASE NewType(r)
        BY <3>1, <3>11, NewTypeFacts DEF Turn, Typed
      <3>12. CASE SetType(r)
        BY <3>1, <3>12, SetTypeFacts DEF Turn
      <3> QED BY <3>2, <3>3, <3>4, <3>5, <3>6, <3>7, <3>8, <3>9, <3>10, <3>11, <3>12 DEF Step
    <2>2. read' = [read EXCEPT ![r] = rows[input[r].coll]] /\ rows' = rows
      BY <1>2, <2>1, FindFacts DEF Turn, SameTables
    <2> QED BY <1>2, <2>2 DEF TypeInv, TypeOK
  <1> QED BY <1>1, <1>2

(***************************************************************************)
(* Names.                                                                  *)
(***************************************************************************)
LEMMA NamesInit == Init => NamesInv
  <1> SUFFICES ASSUME Init PROVE NamesInv
    OBVIOUS
  <1>1. \A c \in Colls : rows[c].name = FirstName[c]
    BY DEF Init
  <1>2. \A c, d \in Colls : c # d => FirstName[c] # FirstName[d]
    BY CollectionsAssumption DEF CollectionsAssumption, IsInjective
  <1>3. \A r \in Requests : pc[r] = "idle"
    BY DEF Init
  <1> QED BY <1>1, <1>2, <1>3 DEF NamesInv, Given

LEMMA NamesStep == ASSUME TypeInv, NamesInv, NEW r \in Requests, Step(r) PROVE NamesInv'
  <1> DEFINE c == input[r].coll
  <1>1. \A d \in Colls : \A name : Given(d, name)' <=> Given(d, name)
    BY SameRequests DEF Given
  <1>2. /\ \A d, e \in Colls : d # e => rows'[d].name # rows'[e].name
        /\ \A d \in Colls : Given(d, rows'[d].name)
    <2>1. CASE rows' = rows
      BY <2>1 DEF NamesInv
    <2>2. CASE rows' # rows
      <3>1. c \in Colls /\ \A d \in Colls \ {c} : rows'[d] = rows[d]
        BY <2>2, RowStep
      <3>2. \/ pc[r] = "save" /\ Free(read[r].name, c) /\ rows'[c].name = read[r].name
            \/ /\ pc[r] = "rename" /\ input[r].name # None /\ Free(input[r].name, c)
               /\ rows'[c].name = input[r].name
            \/ rows'[c].name = rows[c].name
        BY <2>2, RowStep
      <3>3. (\A d \in Colls \ {c} : rows[d].name # rows'[c].name) /\ Given(c, rows'[c].name)
        <4>1. CASE pc[r] = "save" /\ Free(read[r].name, c) /\ rows'[c].name = read[r].name
          BY <4>1 DEF NamesInv, Free
        <4>2. CASE /\ pc[r] = "rename" /\ input[r].name # None /\ Free(input[r].name, c)
                   /\ rows'[c].name = input[r].name
          BY <4>2 DEF Free, Given, Started
        <4>3. CASE rows'[c].name = rows[c].name
          BY <3>1, <4>3 DEF NamesInv
        <4> QED BY <3>2, <4>1, <4>2, <4>3
      <3> QED BY <3>1, <3>3 DEF NamesInv
    <2> QED BY <2>1, <2>2
  <1>3. ASSUME NEW q \in Requests, pc'[q] = "save" PROVE Given(input[q].coll, read'[q].name)
    <2>1. CASE q = r
      <3>1. input[q].coll \in Colls
        BY <2>1, StepTurns, InputFacts DEF Working
      <3> QED BY <1>3, <2>1, <3>1, SaveStep DEF NamesInv
    <2>2. CASE q # r
      BY <1>3, <2>2, SaveStep DEF NamesInv
    <2> QED BY <2>1, <2>2
  <1>4. ASSUME NEW q \in Requests, pc'[q] = "save" PROVE input[q].coll \in Colls /\ input' = input
    <2>1. pc[q] # "idle"
      BY <1>4, SameRequests
    <2> QED BY <2>1, InputFacts, SameRequests
  <1>5. \A d \in Colls : Given(d, rows[d].name)'
    BY <1>1, <1>2 DEF Given
  <1>6. \A q \in Requests : pc'[q] = "save" => Given(input[q].coll, read[q].name)'
    BY <1>1, <1>3, <1>4 DEF Given
  <1> QED BY <1>2, <1>5, <1>6 DEF NamesInv

LEMMA NamesReceive == ASSUME TypeInv, NamesInv, NEW r \in Requests, Receive(r) PROVE NamesInv'
  <1>1. rows' = rows /\ read' = read
    BY ReceiveFacts DEF SameTables
  <1>2. \A q \in Requests : pc'[q] = "save" => pc[q] = "save" /\ input'[q] = input[q]
    BY ReceiveFacts DEF Turn
  <1>3. \A d, name : Given(d, name) => Given(d, name)'
    BY MoreOverlaps DEF Given
  <1> QED BY <1>1, <1>2, <1>3 DEF NamesInv

\* No delete is half done when the server is dead.
LEMMA NoSaves == ASSUME TypeInv, Crash PROVE \A q \in Requests : pc'[q] \notin Working /\ (pc'[q] = "idle" \/ pc'[q] = "done")
  <1>1. \A q \in Requests : pc[q] \in Working \cup {"idle", "done"}
    BY DEF TypeInv, TypeOK, Steps
  <1> QED BY <1>1, CrashFacts DEF Working

LEMMA NamesCrash == ASSUME TypeInv, NamesInv, Crash PROVE NamesInv'
  <1>1. rows' = rows
    BY CrashFacts DEF SameTables
  <1>2. \A q \in Requests : pc'[q] # "save"
    BY NoSaves
  <1>3. \A d, name : Given(d, name) => Given(d, name)'
    BY SameRequests DEF Given
  <1> QED BY <1>1, <1>2, <1>3 DEF NamesInv

LEMMA SaveInvStep == ASSUME TypeInv, SaveInv, NEW r \in Requests, Step(r) PROVE SaveInv'
  <1> SUFFICES ASSUME NEW q \in Requests, pc'[q] = "save", read'[q].name # rows'[input'[q].coll].name
               PROVE  \E x \in On(q, Overlaps(q))' : input'[x].name # None \/ input'[x].op = "delete"
    BY DEF SaveInv
  <1>1. input' = input /\ On(q, Overlaps(q))' = On(q, Overlaps(q))
    BY SameRequests, SameOverlaps
  <1>2. q # r /\ pc[q] = "save" /\ read'[q] = read[q]
    BY <1>1, SaveStep
  <1>3. CASE rows'[input[q].coll].name # rows[input[q].coll].name
    <2>1. input[q].coll \in Colls
      BY <1>2, InputFacts
    <2>2. rows' # rows
      BY <1>3
    <2>3. input[r].coll = input[q].coll
      BY <1>3, <2>1, RowOfOthers
    <2> DEFINE c == input[r].coll
    <2>4. input[r].op = "delete" \/ input[r].name # None
      <3>1. input[r].op = "delete" \/ input[r].name # None \/ rows'[c].name = rows[c].name
        BY <2>2, RowStep
      <3> QED BY <1>3, <2>3, <3>1
    <2>5. r \in Overlaps(q)
      BY <1>2, StepTurns, WorkingMeets DEF Working
    <2> QED BY <1>1, <2>3, <2>4, <2>5 DEF On
  <1>4. CASE rows'[input[q].coll].name = rows[input[q].coll].name
    BY <1>1, <1>2, <1>4 DEF SaveInv
  <1> QED BY <1>3, <1>4

LEMMA SaveInvReceive == ASSUME TypeInv, SaveInv, NEW r \in Requests, Receive(r) PROVE SaveInv'
  <1> SUFFICES ASSUME NEW q \in Requests, pc'[q] = "save", read'[q].name # rows'[input'[q].coll].name
               PROVE  \E x \in On(q, Overlaps(q))' : input'[x].name # None \/ input'[x].op = "delete"
    BY DEF SaveInv
  <1>1. q # r /\ pc[q] = "save" /\ input'[q] = input[q] /\ read' = read /\ rows' = rows
    BY ReceiveFacts DEF Turn, SameTables
  <1>2. PICK x \in On(q, Overlaps(q)) : input[x].name # None \/ input[x].op = "delete"
    BY <1>1 DEF SaveInv
  <1>3. q \in Started /\ x \in Started
    BY <1>1 DEF Started, On, Overlaps
  <1>4. x \in On(q, Overlaps(q))' /\ input'[x] = input[x]
    BY <1>1, <1>3, MoreOverlaps DEF On
  <1> QED BY <1>2, <1>4

LEMMA SaveInvCrash == ASSUME TypeInv, SaveInv, Crash PROVE SaveInv'
  BY NoSaves DEF SaveInv

(***************************************************************************)
(* Renames.                                                                *)
(***************************************************************************)
\* Every step of an update after its rename finds the rename done.
LEMMA RenamedStep ==
    ASSUME TypeInv, NEW r \in Requests, Step(r), Renamed(r)'
    PROVE  \/ Renamed(r) /\ rows' = rows
           \/ input[r].coll \in Colls /\ rows'[input[r].coll].name = input[r].name
  <1>1. /\ pc[r] # "idle" /\ input' = input /\ input[r].name # None
        /\ pc'[r] \in {"clear", "tag", "new tag", "assign", "reload"} \/ (pc'[r] = "done" /\ result'[r] = "ok")
    BY StepTurns, SameRequests DEF Renamed, Working
  <1>2. input[r].op = "update" /\ input[r].coll \in Colls
    BY <1>1, InputFacts DEF WellFormed
  <1>3. "ok" # "error" /\ None \notin {"ok", "error"}
    BY CollectionsAssumption DEF CollectionsAssumption
  <1>4. CASE Find(r)
    BY <1>1, <1>2, <1>3, <1>4, FindFacts DEF Turn
  <1>5. CASE Rename(r)
    <2>1. rows' # rows => rows'[input[r].coll].name = input[r].name
      BY <1>5, RowStep, RenameFacts
    <2>2. rows' = [rows EXCEPT ![input[r].coll] = [rows[input[r].coll] EXCEPT !.name = input[r].name]]
      BY <1>1, <1>3, <1>5, RenameFacts DEF Turn
    <2>3. rows \in [Colls -> Row] /\ rows[input[r].coll] \in Row
      BY <1>2 DEF TypeInv, TypeOK
    <2>4. rows'[input[r].coll].name = input[r].name
      BY <1>2, <2>2, <2>3 DEF Row
    <2> QED BY <1>2, <2>4
  <1>6. CASE Reload(r)
    BY <1>1, <1>6, ReloadFacts DEF SameTables, Renamed
  <1>7. CASE Clear(r)
    BY <1>1, <1>7, ClearFacts DEF Renamed
  <1>8. CASE FindTag(r)
    BY <1>1, <1>8, FindTagFacts DEF SameTables, Renamed
  <1>9. CASE NewTag(r)
    BY <1>1, <1>9, NewTagFacts DEF Renamed
  <1>10. CASE Assign(r)
    BY <1>1, <1>10, AssignFacts DEF Renamed
  <1>11. ~(Save(r) \/ Unassign(r) \/ FindType(r) \/ NewType(r) \/ SetType(r))
    BY <1>2 DEF TypeInv, Control, Knows, Save, Unassign, FindType, NewType, SetType
  <1> QED BY <1>4, <1>5, <1>6, <1>7, <1>8, <1>9, <1>10, <1>11 DEF Step

LEMMA RenameStep == ASSUME TypeInv, RenameInv, NEW r \in Requests, Step(r) PROVE RenameInv'
  <1> SUFFICES ASSUME NEW q \in Requests, Renamed(q)', NameCalm(q)'
               PROVE  /\ rows'[input'[q].coll].name = input'[q].name
                      /\ \A x \in On(q, Later(q))' : pc'[x] = "save" => read'[x].name = input'[q].name
    BY DEF RenameInv
  <1>1. /\ input' = input /\ On(q, Later(q))' = On(q, Later(q)) /\ NameCalm(q) /\ Started' = Started
        /\ pc[r] \in Working
    BY SameRequests, SameOverlaps, StepTurns
  <1>2. CASE q = r
    <2>1. On(q, Later(q)) = {}
      <3>1. ASSUME NEW x \in Requests PROVE r \notin seen[x]
        BY <1>1 DEF TypeInv, Control, Knows, Ended, Working
      <3> QED BY <1>2, <3>1 DEF On, Later, Started
    <2>2. rows'[input[q].coll].name = input[q].name
      BY <1>1, <1>2, RenamedStep DEF RenameInv
    <2> QED BY <1>1, <2>1, <2>2
  <1>3. CASE q # r
    <2>1. Renamed(q)
      BY <1>1, <1>3, StepTurns DEF Renamed
    <2>2. /\ rows[input[q].coll].name = input[q].name
          /\ \A x \in On(q, Later(q)) : pc[x] = "save" => read[x].name = input[q].name
      BY <1>1, <2>1 DEF RenameInv
    <2>3. pc[q] # "idle" /\ input[q].coll \in Colls
      BY <2>1, InputFacts DEF Renamed
    <2>4. rows'[input[q].coll].name = rows[input[q].coll].name
      <3> SUFFICES ASSUME rows'[input[q].coll].name # rows[input[q].coll].name PROVE FALSE
        OBVIOUS
      <3>1. rows' # rows
        OBVIOUS
      <3>2. input[r].coll = input[q].coll
        BY <2>3, RowOfOthers
      <3> DEFINE c == input[r].coll
      <3>3. \/ pc[r] = "save" /\ input[r].op = "delete" /\ rows'[input[q].coll].name = read[r].name
            \/ input[r].op = "update" /\ input[r].name # None
        <4>1. \/ pc[r] = "save" /\ input[r].op = "delete" /\ rows'[c].name = read[r].name
              \/ input[r].op = "update" /\ input[r].name # None
              \/ rows'[c].name = rows[c].name
          BY <3>1, RowStep
        <4> QED BY <3>2, <4>1
      <3>4. r \in On(q, Later(q))
        BY <1>1, <1>3, <2>3, <3>2, <3>3, OthersBarred DEF NameCalm
      <3> QED BY <1>1, <2>2, <3>3, <3>4 DEF NameCalm
    <2>5. ASSUME NEW x \in On(q, Later(q)), pc'[x] = "save" PROVE read'[x].name = input[q].name
      <3>1. x \in Requests /\ input[x].coll = input[q].coll
        BY DEF On, Later, Started
      <3> QED BY <2>2, <2>5, <3>1, SaveStep
    <2> QED BY <1>1, <2>2, <2>4, <2>5
  <1> QED BY <1>2, <1>3

LEMMA RenameReceive == ASSUME TypeInv, RenameInv, NEW r \in Requests, Receive(r) PROVE RenameInv'
  <1> SUFFICES ASSUME NEW q \in Requests, Renamed(q)', NameCalm(q)'
               PROVE  /\ rows'[input'[q].coll].name = input'[q].name
                      /\ \A x \in On(q, Later(q))' : pc'[x] = "save" => read'[x].name = input'[q].name
    BY DEF RenameInv
  <1>1. /\ rows' = rows /\ read' = read /\ input'[r] \in Inputs
        /\ \/ pc'[r] \in {"type", "unassign", "find"}
           \/ pc'[r] = "done" /\ input'[r].op = "unassign"
        /\ \A x \in Requests \ {r} : pc'[x] = pc[x] /\ result'[x] = result[x] /\ input'[x] = input[x]
    BY ReceiveFacts DEF Turn, SameTables
  <1>2. q # r
    <2>1. WellFormed(input'[r])
      BY <1>1, CollectionsAssumption DEF CollectionsAssumption
    <2> QED BY <1>1, <2>1 DEF Renamed, WellFormed
  <1>3. Renamed(q) /\ q \in Started
    BY <1>1, <1>2 DEF Renamed, Started
  <1>4. NameCalm(q)
    BY <1>3, MoreOverlaps
  <1>5. ASSUME NEW x \in On(q, Later(q))', pc'[x] = "save" PROVE x \in On(q, Later(q)) /\ pc[x] = "save"
    <2>1. x \in Requests /\ x \in Later(q)' /\ input'[x].coll = input'[q].coll
      BY DEF On, Later, Started
    <2>2. x # r
      BY <1>1, <1>5
    <2> QED BY <1>1, <1>2, <1>3, <1>5, <2>1, <2>2, MoreOverlaps DEF On
  <1> QED BY <1>1, <1>2, <1>3, <1>4, <1>5 DEF RenameInv

LEMMA RenameCrash == ASSUME TypeInv, RenameInv, Crash PROVE RenameInv'
  <1> SUFFICES ASSUME NEW q \in Requests, Renamed(q)', NameCalm(q)'
               PROVE  /\ rows'[input'[q].coll].name = input'[q].name
                      /\ \A x \in On(q, Later(q))' : pc'[x] = "save" => read'[x].name = input'[q].name
    BY DEF RenameInv
  <1>1. /\ input' = input /\ On(q, Later(q))' = On(q, Later(q)) /\ NameCalm(q) /\ rows' = rows /\ result' = result
    BY SameRequests, SameOverlaps, CrashFacts DEF SameTables
  <1>2. \A x \in Later(q) : pc'[x] # "save"
    BY NoSaves DEF Later, Started
  <1>3. result[q] = "ok"
    BY <1>1, NoSaves DEF Renamed, Working
  <1>4. pc[q] = "done"
    BY <1>3, CollectionsAssumption DEF CollectionsAssumption, TypeInv, Control, Knows
  <1>5. Renamed(q)
    BY <1>1, <1>3, <1>4 DEF Renamed
  <1> QED BY <1>1, <1>2, <1>5 DEF RenameInv, On

(***************************************************************************)
(* Moves.                                                                  *)
(***************************************************************************)
\* A move is answered by the step that sets the type.
LEMMA MovedStep ==
    ASSUME TypeInv, NEW r \in Requests, Step(r), Moved(r)'
    PROVE  input[r].coll \in Colls /\ rows'[input[r].coll].type = input[r].type
  <1>1. pc[r] # "idle" /\ pc'[r] = "done" /\ result'[r] = "ok" /\ input[r].op = "move"
    BY StepTurns, SameRequests DEF Moved, Working
  <1>2. input[r].coll \in Colls
    BY <1>1, InputFacts
  <1>3. SetType(r)
    <2>1. ~Find(r)
      BY <1>1, FindFacts DEF Turn
    <2>2. ~(FindTag(r) \/ NewTag(r) \/ Assign(r))
      BY <1>1 DEF TypeInv, Control, Knows, FindTag, NewTag, Assign
    <2>3. ~(Save(r) \/ Rename(r) \/ Reload(r) \/ Clear(r) \/ Unassign(r))
      BY <1>1 DEF TypeInv, Control, Knows, Save, Rename, Reload, Clear, Unassign
    <2>4. ~FindType(r)
      BY <1>1, FindTypeFacts DEF Turn, Typed
    <2>5. ~NewType(r)
      BY <1>1, NewTypeFacts DEF Turn, Typed
    <2> QED BY <2>1, <2>2, <2>3, <2>4, <2>5 DEF Step
  <1>4. rows' = [rows EXCEPT ![input[r].coll] = [rows[input[r].coll] EXCEPT !.type = input[r].type]]
    BY <1>1, <1>3, SetTypeFacts DEF Turn
  <1>5. rows \in [Colls -> Row] /\ rows[input[r].coll] \in Row
    BY <1>2 DEF TypeInv, TypeOK
  <1>6. rows'[input[r].coll].type = input[r].type
    BY <1>2, <1>4, <1>5 DEF Row
  <1> QED BY <1>2, <1>6

LEMMA MoveStep == ASSUME TypeInv, MoveInv, NEW r \in Requests, Step(r) PROVE MoveInv'
  <1> SUFFICES ASSUME NEW q \in Requests, Moved(q)', TypeCalm(q)'
               PROVE  /\ rows'[input'[q].coll].type = input'[q].type
                      /\ \A x \in On(q, Later(q))' : pc'[x] = "save" => read'[x].type = input'[q].type
    BY DEF MoveInv
  <1>1. /\ input' = input /\ On(q, Later(q))' = On(q, Later(q)) /\ TypeCalm(q) /\ Started' = Started
        /\ pc[r] \in Working
    BY SameRequests, SameOverlaps, StepTurns
  <1>2. CASE q = r
    <2>1. On(q, Later(q)) = {}
      <3>1. ASSUME NEW x \in Requests PROVE r \notin seen[x]
        BY <1>1 DEF TypeInv, Control, Knows, Ended, Working
      <3> QED BY <1>2, <3>1 DEF On, Later, Started
    <2>2. rows'[input[q].coll].type = input[q].type
      BY <1>1, <1>2, MovedStep
    <2> QED BY <1>1, <2>1, <2>2
  <1>3. CASE q # r
    <2>1. Moved(q)
      BY <1>1, <1>3, StepTurns DEF Moved
    <2>2. /\ rows[input[q].coll].type = input[q].type
          /\ \A x \in On(q, Later(q)) : pc[x] = "save" => read[x].type = input[q].type
      BY <1>1, <2>1 DEF MoveInv
    <2>3. pc[q] # "idle"
      BY <2>1 DEF Moved
    <2>4. input[q].coll \in Colls
      BY <2>3, InputFacts
    <2>5. rows'[input[q].coll].type = rows[input[q].coll].type
      <3> SUFFICES ASSUME rows'[input[q].coll].type # rows[input[q].coll].type PROVE FALSE
        OBVIOUS
      <3>1. rows' # rows
        OBVIOUS
      <3>2. input[r].coll = input[q].coll
        BY <2>4, RowOfOthers
      <3>3. \/ pc[r] = "save" /\ input[r].op = "delete" /\ rows'[input[q].coll].type = read[r].type
            \/ input[r].op = "move"
        BY <3>1, <3>2, RowStep
      <3>4. r \in On(q, Later(q))
        BY <1>1, <1>3, <2>3, <3>2, <3>3, OthersBarred DEF TypeCalm
      <3> QED BY <1>1, <2>2, <3>3, <3>4 DEF TypeCalm
    <2>6. ASSUME NEW x \in On(q, Later(q)), pc'[x] = "save" PROVE read'[x].type = input[q].type
      <3>1. x \in Requests /\ input[x].coll = input[q].coll
        BY DEF On, Later, Started
      <3> QED BY <2>2, <2>6, <3>1, SaveStep
    <2> QED BY <1>1, <2>2, <2>5, <2>6
  <1> QED BY <1>2, <1>3

LEMMA MoveReceive == ASSUME TypeInv, MoveInv, NEW r \in Requests, Receive(r) PROVE MoveInv'
  <1> SUFFICES ASSUME NEW q \in Requests, Moved(q)', TypeCalm(q)'
               PROVE  /\ rows'[input'[q].coll].type = input'[q].type
                      /\ \A x \in On(q, Later(q))' : pc'[x] = "save" => read'[x].type = input'[q].type
    BY DEF MoveInv
  <1>1. /\ rows' = rows /\ read' = read
        /\ \/ pc'[r] \in {"type", "unassign", "find"}
           \/ pc'[r] = "done" /\ input'[r].op = "unassign"
        /\ \A x \in Requests \ {r} : pc'[x] = pc[x] /\ result'[x] = result[x] /\ input'[x] = input[x]
    BY ReceiveFacts DEF Turn, SameTables
  <1>2. q # r
    BY <1>1 DEF Moved
  <1>3. Moved(q) /\ q \in Started
    BY <1>1, <1>2 DEF Moved, Started
  <1>4. TypeCalm(q)
    BY <1>3, MoreOverlaps
  <1>5. ASSUME NEW x \in On(q, Later(q))', pc'[x] = "save" PROVE x \in On(q, Later(q)) /\ pc[x] = "save"
    <2>1. x \in Requests /\ x \in Later(q)' /\ input'[x].coll = input'[q].coll
      BY DEF On, Later, Started
    <2>2. x # r
      BY <1>1, <1>5
    <2> QED BY <1>1, <1>2, <1>3, <1>5, <2>1, <2>2, MoreOverlaps DEF On
  <1> QED BY <1>1, <1>2, <1>3, <1>4, <1>5 DEF MoveInv

LEMMA MoveCrash == ASSUME TypeInv, MoveInv, Crash PROVE MoveInv'
  <1> SUFFICES ASSUME NEW q \in Requests, Moved(q)', TypeCalm(q)'
               PROVE  /\ rows'[input'[q].coll].type = input'[q].type
                      /\ \A x \in On(q, Later(q))' : pc'[x] = "save" => read'[x].type = input'[q].type
    BY DEF MoveInv
  <1>1. /\ input' = input /\ On(q, Later(q))' = On(q, Later(q)) /\ TypeCalm(q) /\ rows' = rows /\ result' = result
    BY SameRequests, SameOverlaps, CrashFacts DEF SameTables
  <1>2. \A x \in Later(q) : pc'[x] # "save"
    BY NoSaves DEF Later, Started
  <1>3. result[q] = "ok" /\ input[q].op = "move"
    BY <1>1 DEF Moved
  <1>4. pc[q] = "done"
    BY <1>3, CollectionsAssumption DEF CollectionsAssumption, TypeInv, Control, Knows
  <1> QED BY <1>1, <1>2, <1>3, <1>4 DEF Moved, MoveInv, On

(***************************************************************************)
(* Tags.                                                                   *)
(***************************************************************************)
\* The next tag joins those that are done; when all are, they are the input's.
LEMMA DoneGrows ==
    ASSUME NEW T, NEW s \in Seq(T), NEW n \in Nat, n < Len(s)
    PROVE  /\ {s[i] : i \in 1..(n + 1)} = {s[i] : i \in 1..n} \cup {s[n + 1]}
           /\ ~(n + 1 < Len(s)) => {s[i] : i \in 1..(n + 1)} = {s[i] : i \in DOMAIN s}
           /\ {s[i] : i \in 1..n} \subseteq {s[i] : i \in DOMAIN s}
  <1>1. Len(s) \in Nat /\ DOMAIN s = 1..Len(s)
    OBVIOUS
  <1>2. 1..(n + 1) = (1..n) \cup {n + 1}
    OBVIOUS
  <1>3. ~(n + 1 < Len(s)) => n + 1 = Len(s)
    <2>1. PICK m \in Nat : m = Len(s)
      BY <1>1
    <2>2. ~(n + 1 < m) => n + 1 = m
      BY <2>1
    <2> QED BY <2>1, <2>2
  <1>4. 1..n \subseteq DOMAIN s
    BY <1>1
  <1> QED BY <1>1, <1>2, <1>3, <1>4

LEMMA EmptyRange == ASSUME NEW T, NEW s \in Seq(T), ~(0 < Len(s)) PROVE {s[i] : i \in DOMAIN s} = {}
  <1>1. Len(s) \in Nat /\ DOMAIN s = 1..Len(s)
    OBVIOUS
  <1>2. DOMAIN s = {}
    BY <1>1
  <1> QED BY <1>2

\* The tags of a collection change at a request that retags it.
LEMMA TagsStep ==
    ASSUME TypeInv, NEW r \in Requests, Step(r), NEW c \in Colls, TagsOf(c)' # TagsOf(c)
    PROVE  input[r].coll = c /\ Retags(r) /\ input[r].op # "type"
  <1>1. assigned \subseteq Colls \X Tags
    BY DEF TypeInv, TypeOK
  <1>2. assigned' # assigned
    BY DEF TagsOf
  <1>3. Clear(r) \/ Assign(r) \/ Unassign(r)
    BY <1>2 DEF Step, Find, Save, Rename, Reload, FindTag, NewTag, FindType, NewType, SetType, tables
  <1>4. Retags(r) /\ input[r].op # "type"
    <2>1. CASE Clear(r)
      BY <2>1, ClearFacts DEF Retags
    <2>2. CASE Assign(r)
      BY <2>2, AssignFacts DEF Retags, TypeInv, Control, Knows
    <2>3. CASE Unassign(r)
      BY <2>3, UnassignFacts DEF Retags
    <2> QED BY <1>3, <2>1, <2>2, <2>3
  <1>5. input[r].coll = c
    <2> SUFFICES ASSUME input[r].coll # c PROVE TagsOf(c)' = TagsOf(c)
      OBVIOUS
    <2>1. \A t : <<c, t>> # <<input[r].coll, Tag(r)>>
      OBVIOUS
    <2>2. \A t : <<c, t>> \in assigned' <=> <<c, t>> \in assigned
      <3>1. CASE Clear(r)
        <4>1. assigned' = {a \in assigned : a[1] # input[r].coll} \/ assigned' = assigned
          BY <3>1, ClearFacts
        <4>2. \A t : <<c, t>>[1] # input[r].coll
          OBVIOUS
        <4> QED BY <4>1, <4>2
      <3>2. CASE Assign(r)
        BY <2>1, <3>2, AssignFacts
      <3>3. CASE Unassign(r)
        BY <2>1, <3>3, UnassignFacts
      <3> QED BY <1>3, <3>1, <3>2, <3>3
    <2> QED BY <2>2 DEF TagsOf
  <1> QED BY <1>4, <1>5

\* An update with tags goes on replacing them.
LEMMA ReplacingStep ==
    ASSUME TypeInv, NEW r \in Requests, Step(r), faults' = 0,
           input[r].op = "update", input[r].tags # None, Replacing(r)
    PROVE  Replacing(r)'
  <1>1. /\ input' = input /\ before' = before /\ pc[r] # "idle" /\ ~Fails
        /\ assigned \subseteq Colls \X Tags /\ at \in [Requests -> Nat]
    BY SameRequests, StepTurns, FrameFacts DEF Frame, Working, TypeInv, TypeOK
  <1>2. input[r].coll \in Colls
    BY <1>1, InputFacts
  <1>3. PICK s \in Seq(Tags) : s = input[r].tags
    BY <1>1, InputFacts
  <1>4. None \notin {"ok", "error"}
    BY CollectionsAssumption DEF CollectionsAssumption
  <1>5. assigned' = assigned => TagsOf(input[r].coll)' = TagsOf(input[r].coll)
    BY <1>1 DEF TagsOf
  <1>6. Range(input[r].tags)' = Range(input[r].tags)
    BY <1>1
  <1>7. ASSUME at'[r] = at[r] PROVE DoneTags(r)' = DoneTags(r)
    BY <1>1, <1>7 DEF DoneTags
  <1>8. Range(input[r].tags) = {s[i] : i \in DOMAIN s}
    BY <1>3 DEF Range
  <1>9. CASE Find(r)
    <2>1. pc[r] = "find" /\ assigned' = assigned /\ (pc'[r] \in {"rename", "clear"} \/ (pc'[r] = "done" /\ result'[r] = "error"))
      BY <1>9, FindFacts DEF Turn, SameTables
    <2> QED BY <1>1, <1>5, <2>1 DEF Replacing
  <1>10. CASE Rename(r)
    <2>1. pc[r] = "rename" /\ assigned' = assigned /\ (pc'[r] = "clear" \/ (pc'[r] = "done" /\ result'[r] = "error"))
      BY <1>10, RenameFacts DEF Turn
    <2> QED BY <1>1, <1>5, <2>1 DEF Replacing
  <1>11. CASE Reload(r)
    <2>1. pc[r] = "reload" /\ assigned' = assigned /\ pc'[r] = "done" /\ result'[r] = "ok"
      BY <1>1, <1>11, ReloadFacts DEF Turn, SameTables
    <2> QED BY <1>1, <1>5, <1>6, <2>1 DEF Replacing
  <1>12. CASE Clear(r)
    <2>1. assigned' = {a \in assigned : a[1] # input[r].coll} /\ After(r, 0)
      BY <1>1, <1>12, ClearFacts
    <2>2. TagsOf(input[r].coll)' = {}
      <3>1. \A t : <<input[r].coll, t>>[1] = input[r].coll
        OBVIOUS
      <3> QED BY <1>1, <2>1, <3>1 DEF TagsOf
    <2>3. at'[r] = 0
      BY <1>1, <2>1 DEF After
    <2>4. DoneTags(r)' = {}
      BY <2>3 DEF DoneTags
    <2>5. pc'[r] = "tag" \/ (pc'[r] = "reload" /\ ~(0 < Len(s)))
      BY <1>3, <2>1 DEF After, Turn
    <2>6. pc'[r] = "reload" => Range(input[r].tags)' = {}
      BY <1>6, <1>8, <2>5, EmptyRange
    <2> QED BY <2>2, <2>4, <2>5, <2>6 DEF Replacing
  <1>13. CASE FindTag(r)
    <2>1. pc[r] = "tag" /\ assigned' = assigned /\ at'[r] = at[r] /\ pc'[r] \in {"assign", "new tag"}
      BY <1>13, FindTagFacts DEF Turn, SameTables
    <2> QED BY <1>5, <1>7, <2>1 DEF Replacing
  <1>14. CASE NewTag(r)
    <2>1. /\ pc[r] = "new tag" /\ assigned' = assigned /\ at'[r] = at[r]
          /\ pc'[r] = "assign" \/ (pc'[r] = "done" /\ result'[r] = "error")
      BY <1>14, NewTagFacts DEF Turn
    <2>2. DoneTags(r) \subseteq Range(input[r].tags)
      <3>1. PICK n \in Nat : n = at[r]
        BY <1>1
      <3>2. n < Len(s)
        BY <1>3, <2>1, <3>1, TagTyped
      <3>3. DoneTags(r) = {s[i] : i \in 1..n}
        BY <1>3, <3>1 DEF DoneTags
      <3> QED BY <1>8, <3>2, <3>3, DoneGrows
    <2> QED BY <1>5, <1>6, <1>7, <2>1, <2>2 DEF Replacing
  <1>15. CASE Assign(r)
    <2>1. PICK n \in Nat : n = at[r]
      BY <1>1
    <2>2. n < Len(s)
      BY <1>3, <1>15, <2>1, AssignFacts, TagTyped
    <2>3. assigned' = assigned \cup {<<input[r].coll, s[n + 1]>>} /\ pc[r] = "assign" /\ s[n + 1] \in Tags
      BY <1>1, <1>3, <1>15, <2>1, AssignFacts, TagTyped DEF Tag
    <2>4. TagsOf(input[r].coll)' = TagsOf(input[r].coll) \cup {s[n + 1]}
      BY <1>1, <2>3 DEF TagsOf
    <2>5. TagsOf(input[r].coll) = {s[i] : i \in 1..n}
      BY <1>3, <2>1, <2>3 DEF Replacing, DoneTags
    <2>6. TagsOf(input[r].coll)' = {s[i] : i \in 1..(n + 1)}
      BY <2>2, <2>4, <2>5, DoneGrows
    <2>7. at'[r] = n + 1
      BY <1>1, <1>15, <2>1, AssignFacts DEF After
    <2>8. DoneTags(r)' = {s[i] : i \in 1..(n + 1)}
      BY <1>1, <1>3, <2>7 DEF DoneTags
    <2>9. pc'[r] = "tag" \/ (pc'[r] = "reload" /\ ~(n + 1 < Len(s)))
      BY <1>3, <1>15, <2>1, AssignFacts DEF After, Turn
    <2>10. pc'[r] = "reload" => TagsOf(input[r].coll)' = Range(input[r].tags)'
      BY <1>6, <1>8, <2>2, <2>6, <2>9, DoneGrows
    <2> QED BY <2>6, <2>8, <2>9, <2>10 DEF Replacing
  <1>16. ~(Save(r) \/ Unassign(r) \/ FindType(r) \/ NewType(r) \/ SetType(r))
    BY DEF TypeInv, Control, Knows, Save, Unassign, FindType, NewType, SetType
  <1> QED BY <1>9, <1>10, <1>11, <1>12, <1>13, <1>14, <1>15, <1>16 DEF Step

LEMMA TagsInvStep == ASSUME TypeInv, TagsInv, NEW r \in Requests, Step(r) PROVE TagsInv'
  <1> SUFFICES ASSUME faults' = 0, NEW q \in Requests, pc'[q] # "idle", input'[q].op = "update", input'[q].tags # None, TagCalm(q)'
               PROVE  Replacing(q)'
    BY DEF TagsInv
  <1>1. /\ input' = input /\ before' = before /\ TagCalm(q) /\ pc[r] \in Working /\ pc[q] # "idle" /\ faults = 0
        /\ \A x \in Requests \ {r} : at'[x] = at[x]
    BY SameRequests, SameOverlaps, StepTurns, FrameFacts DEF Frame
  <1>2. Replacing(q)
    BY <1>1 DEF TagsInv
  <1>3. CASE q = r
    BY <1>1, <1>2, <1>3, ReplacingStep
  <1>4. CASE q # r
    <2>1. input[q].coll \in Colls
      BY <1>1, InputFacts
    <2>2. TagsOf(input[q].coll)' = TagsOf(input[q].coll)
      <3>1. PICK c \in Colls : c = input[q].coll
        BY <2>1
      <3>2. TagsOf(c)' = TagsOf(c)
        <4> SUFFICES ASSUME TagsOf(c)' # TagsOf(c) PROVE FALSE
          OBVIOUS
        <4>1. input[r].coll = c /\ Retags(r) /\ input[r].op # "type"
          BY TagsStep
        <4>2. r \in On(q, Later(q))
          BY <1>1, <1>4, <3>1, <4>1, OthersBarred DEF TagCalm
        <4> QED BY <1>1, <4>1, <4>2 DEF TagCalm
      <3> QED BY <1>1, <3>1, <3>2 DEF TagsOf
    <2>3. pc'[q] = pc[q] /\ result'[q] = result[q] /\ DoneTags(q)' = DoneTags(q)
      BY <1>1, <1>4, StepTurns DEF DoneTags
    <2> QED BY <1>1, <1>2, <2>2, <2>3 DEF Replacing
  <1> QED BY <1>3, <1>4

LEMMA TagsInvReceive == ASSUME TypeInv, TagsInv, NEW r \in Requests, Receive(r) PROVE TagsInv'
  <1> SUFFICES ASSUME faults' = 0, NEW q \in Requests, pc'[q] # "idle", input'[q].op = "update", input'[q].tags # None, TagCalm(q)'
               PROVE  Replacing(q)'
    BY DEF TagsInv
  <1>1. /\ assigned' = assigned /\ at' = at /\ faults' = faults
        /\ \A x \in Requests \ {r} : /\ input'[x] = input[x] /\ before'[x] = before[x]
                                     /\ pc'[x] = pc[x] /\ result'[x] = result[x]
    BY ReceiveFacts DEF Turn, SameTables
  <1>2. CASE q = r
    <2>1. pc'[r] = "find" /\ before'[r] = TagsOf(input'[r].coll)
      BY <1>2, ReceiveFacts DEF Turn
    <2> QED BY <1>1, <1>2, <2>1 DEF Replacing, TagsOf
  <1>3. CASE q # r
    <2>1. q \in Started
      BY <1>1, <1>3 DEF Started
    <2>2. TagCalm(q)
      BY <2>1, MoreOverlaps
    <2>3. Replacing(q)
      BY <1>1, <1>3, <2>2 DEF TagsInv
    <2>4. input'[q] = input[q] /\ at'[q] = at[q]
      BY <1>1, <1>3
    <2>5. TagsOf(input[q].coll)' = TagsOf(input[q].coll) /\ Range(input[q].tags)' = Range(input[q].tags)
      BY <1>1, <2>4 DEF TagsOf
    <2>6. DoneTags(q)' = DoneTags(q)
      BY <2>4 DEF DoneTags
    <2> QED BY <1>1, <1>3, <2>3, <2>5, <2>6 DEF Replacing
  <1> QED BY <1>2, <1>3

LEMMA TagsInvCrash == ASSUME TypeInv, TagsInv, Crash PROVE TagsInv'
  <1> SUFFICES ASSUME faults' = 0, NEW q \in Requests, pc'[q] # "idle", input'[q].op = "update", input'[q].tags # None, TagCalm(q)'
               PROVE  Replacing(q)'
    BY DEF TagsInv
  <1>1. /\ input' = input /\ before' = before /\ TagCalm(q) /\ assigned' = assigned /\ at' = at /\ result' = result
        /\ pc[q] # "idle" /\ faults = 0 /\ pc'[q] = "done"
    BY SameRequests, SameOverlaps, CrashFacts, NoSaves DEF SameTables
  <1>2. Replacing(q)
    BY <1>1 DEF TagsInv
  <1>3. CASE pc[q] = "done"
    BY <1>1, <1>2, <1>3 DEF Replacing, TagsOf
  <1>4. CASE pc[q] # "done"
    <2>1. result'[q] # "ok"
      BY <1>1, <1>4, CollectionsAssumption DEF CollectionsAssumption, TypeInv, Control, Knows
    <2>2. pc[q] \in {"find", "rename", "clear", "tag", "new tag", "assign", "reload"}
      <3>1. pc[q] \in Working
        BY <1>1, <1>4 DEF TypeInv, TypeOK, Steps
      <3>2. pc[q] \notin {"save", "unassign", "type", "new type", "set type"}
        BY <1>1 DEF TypeInv, Control, Knows
      <3> QED BY <3>1, <3>2 DEF Working
    <2>3. TagsOf(input[q].coll) = before[q] \/ TagsOf(input[q].coll) \subseteq Range(input[q].tags)
      <3>1. CASE pc[q] \in {"find", "rename", "clear", "reload"}
        BY <1>2, <3>1 DEF Replacing
      <3>2. CASE pc[q] \in {"tag", "new tag", "assign"}
        <4>1. PICK s \in Seq(Tags) : s = input[q].tags
          BY <1>1, InputFacts
        <4>2. PICK n \in Nat : n = at[q]
          BY DEF TypeInv, TypeOK
        <4>3. n < Len(s)
          BY <3>2, <4>1, <4>2, TagTyped
        <4>4. TagsOf(input[q].coll) = {s[i] : i \in 1..n}
          BY <1>2, <3>2, <4>1, <4>2 DEF Replacing, DoneTags
        <4>5. Range(input[q].tags) = {s[i] : i \in DOMAIN s}
          BY <4>1 DEF Range
        <4> QED BY <4>3, <4>4, <4>5, DoneGrows
      <3> QED BY <2>2, <3>1, <3>2
    <2> QED BY <1>1, <2>1, <2>3 DEF Replacing, TagsOf
  <1> QED BY <1>3, <1>4

(***************************************************************************)
(* Races and errors.                                                       *)
(***************************************************************************)
LEMMA RacesStep == ASSUME TypeInv, RacesInv, NEW r \in Requests, Step(r) PROVE RacesInv'
  <1> SUFFICES ASSUME faults' = 0, NEW q \in Requests,
                      \/ pc'[q] = "new tag" /\ Tag(q)' \in tags'
                      \/ pc'[q] = "new type" /\ input'[q].type \in types'
               PROVE  \E x \in Overlaps(q)' : Shared(q, x)'
    BY DEF RacesInv
  <1>1. /\ input' = input /\ Overlaps(q)' = Overlaps(q) /\ pc[r] \in Working /\ faults = 0 /\ ~Fails
        /\ \A x \in Requests \ {r} : at'[x] = at[x] /\ pc'[x] = pc[x]
    BY SameRequests, SameOverlaps, StepTurns, FrameFacts DEF Frame
  <1>2. \A x : Shared(q, x)' <=> Shared(q, x)
    BY <1>1 DEF Shared
  <1>3. q # r
    <2> SUFFICES ASSUME q = r PROVE FALSE
      OBVIOUS
    <2>1. pc'[r] \in {"new tag", "new type"}
      OBVIOUS
    <2>2. CASE FindTag(r)
      <3>1. Tag(r) \notin tags /\ pc'[r] = "new tag" /\ tags' = tags /\ at' = at
        BY <1>1, <2>1, <2>2, FindTagFacts DEF Turn, SameTables
      <3> QED BY <1>1, <3>1 DEF Tag
    <2>3. CASE FindType(r)
      <3>1. input[r].type \notin types /\ pc'[r] = "new type" /\ types' = types
        BY <1>1, <2>1, <2>3, FindTypeFacts DEF Turn, SameTables, Typed
      <3> QED BY <1>1, <3>1
    <2>4. CASE Find(r)
      BY <2>1, <2>4, FindFacts DEF Turn
    <2>5. CASE Save(r)
      BY <2>1, <2>5, SaveFacts DEF Turn
    <2>6. CASE Rename(r)
      BY <2>1, <2>6, RenameFacts DEF Turn
    <2>7. CASE Reload(r)
      BY <2>1, <2>7, ReloadFacts DEF Turn
    <2>8. CASE Clear(r)
      BY <2>1, <2>8, ClearFacts DEF Turn, After
    <2>9. CASE NewTag(r)
      BY <2>1, <2>9, NewTagFacts DEF Turn
    <2>10. CASE Assign(r)
      BY <2>1, <2>10, AssignFacts DEF Turn, After
    <2>11. CASE Unassign(r)
      BY <2>1, <2>11, UnassignFacts DEF Turn
    <2>12. CASE NewType(r)
      BY <2>1, <2>12, NewTypeFacts DEF Turn, Typed
    <2>13. CASE SetType(r)
      BY <2>1, <2>13, SetTypeFacts DEF Turn
    <2> QED BY <2>2, <2>3, <2>4, <2>5, <2>6, <2>7, <2>8, <2>9, <2>10, <2>11, <2>12, <2>13 DEF Step
  <1>4. pc[q] \in {"new tag", "new type"} /\ Tag(q)' = Tag(q) /\ r \in Overlaps(q)
    <2>1. pc[q] \in {"new tag", "new type"} /\ Tag(q)' = Tag(q)
      BY <1>1, <1>3 DEF Tag
    <2> QED BY <1>1, <1>3, <2>1, WorkingMeets DEF Working
  <1>5. CASE pc[q] = "new tag" /\ Tag(q) \in tags'
    <2>1. CASE Tag(q) \in tags
      BY <1>1, <1>2, <1>5, <2>1 DEF RacesInv
    <2>2. CASE Tag(q) \notin tags
      <3>1. NewTag(r)
        BY <1>5, <2>2 DEF Step, Find, Save, Rename, Reload, Clear, FindTag, Assign, Unassign, FindType, NewType, SetType, tables
      <3>2. Tag(q) = Tag(r) /\ pc[r] = "new tag"
        <4>1. pc[r] = "new tag" /\ (tags' = tags \cup {Tag(r)} \/ tags' = tags)
          BY <3>1, NewTagFacts
        <4> QED BY <1>5, <2>2, <4>1
      <3>3. /\ input[q].tags # None /\ input[r].tags # None
            /\ Tag(q) \in Range(input[q].tags) /\ Tag(r) \in Range(input[r].tags)
        BY <1>5, <3>2, TagTyped
      <3> QED BY <1>1, <1>2, <1>4, <3>2, <3>3 DEF Shared
    <2> QED BY <2>1, <2>2
  <1>6. CASE pc[q] = "new type" /\ input[q].type \in types'
    <2>1. CASE input[q].type \in types
      BY <1>1, <1>2, <1>6, <2>1 DEF RacesInv
    <2>2. CASE input[q].type \notin types
      <3>1. NewType(r)
        BY <1>6, <2>2 DEF Step, Find, Save, Rename, Reload, Clear, FindTag, NewTag, Assign, Unassign, FindType, SetType, tables
      <3>2. input[q].type = input[r].type
        BY <1>6, <2>2, <3>1, NewTypeFacts
      <3>3. input[q].op \in {"move", "type"}
        BY <1>6 DEF TypeInv, Control, Knows
      <3>4. input[q].type # None
        BY <1>6, <3>3, InputFacts DEF WellFormed
      <3> QED BY <1>1, <1>2, <1>4, <3>2, <3>4 DEF Shared
    <2> QED BY <2>1, <2>2
  <1> QED BY <1>1, <1>3, <1>4, <1>5, <1>6

LEMMA RacesReceive == ASSUME TypeInv, RacesInv, NEW r \in Requests, Receive(r) PROVE RacesInv'
  <1> SUFFICES ASSUME faults' = 0, NEW q \in Requests,
                      \/ pc'[q] = "new tag" /\ Tag(q)' \in tags'
                      \/ pc'[q] = "new type" /\ input'[q].type \in types'
               PROVE  \E x \in Overlaps(q)' : Shared(q, x)'
    BY DEF RacesInv
  <1>1. /\ tags' = tags /\ types' = types /\ at' = at /\ faults' = faults
        /\ pc'[r] \notin {"new tag", "new type"}
        /\ \A x \in Requests \ {r} : input'[x] = input[x] /\ pc'[x] = pc[x]
    BY ReceiveFacts DEF Turn, SameTables
  <1>2. q # r /\ input'[q] = input[q] /\ pc'[q] = pc[q]
    BY <1>1
  <1>3. Tag(q)' = Tag(q) /\ q \in Started
    BY <1>1, <1>2 DEF Tag, Started
  <1>4. PICK x \in Overlaps(q) : Shared(q, x)
    BY <1>1, <1>2, <1>3 DEF RacesInv
  <1>5. x \in Overlaps(q)' /\ input'[x] = input[x]
    BY <1>3, MoreOverlaps DEF Overlaps
  <1>6. Shared(q, x)'
    BY <1>2, <1>4, <1>5 DEF Shared
  <1> QED BY <1>5, <1>6

LEMMA RacesCrash == ASSUME TypeInv, RacesInv, Crash PROVE RacesInv'
  BY NoSaves DEF RacesInv

\* Why r was refused.
Reason(r) ==
    \/ input[r].needs \notin {None, Kind[input[r].coll]}
    \/ \E c \in Colls \ {input[r].coll} :
          FirstName[c] = input[r].name \/ \E q \in Started : input[q].coll = c /\ input[q].name = input[r].name
    \/ \E q \in Overlaps(r) : Shared(r, q)
    \/ /\ input[r].op = "delete"
       /\ \E q \in On(r, Overlaps(r)) : input[q].name # None \/ input[q].op = "delete"

\* The step that refuses has a reason.
LEMMA Refused ==
    ASSUME TypeInv, NamesInv, SaveInv, RacesInv, NEW r \in Requests, Step(r), faults' = 0, result'[r] = "error"
    PROVE  Reason(r)
  <1>1. pc[r] # "idle" /\ faults = 0 /\ ~Fails
    BY StepTurns, FrameFacts DEF Frame, Working
  <1>2. input[r].coll \in Colls /\ WellFormed(input[r])
    BY <1>1, InputFacts
  <1>3. None # "error" /\ "ok" # "error"
    BY CollectionsAssumption DEF CollectionsAssumption
  <1>4. CASE Find(r)
    BY <1>1, <1>3, <1>4, FindFacts DEF Turn, Reason
  <1>5. CASE Save(r)
    <2>1. ~Free(read[r].name, input[r].coll) /\ input[r].op = "delete" /\ pc[r] = "save"
      BY <1>1, <1>3, <1>5, SaveFacts DEF Turn
    <2>2. PICK d \in Colls \ {input[r].coll} : rows[d].name = read[r].name
      BY <2>1 DEF Free
    <2>3. read[r].name # rows[input[r].coll].name
      BY <1>2, <2>2 DEF NamesInv
    <2> QED BY <2>1, <2>3 DEF SaveInv, Reason
  <1>6. CASE Rename(r)
    <2>1. ~Free(input[r].name, input[r].coll)
      BY <1>1, <1>3, <1>6, RenameFacts DEF Turn
    <2>2. PICK d \in Colls \ {input[r].coll} : rows[d].name = input[r].name
      BY <2>1 DEF Free
    <2>3. Given(d, input[r].name)
      BY <2>2 DEF NamesInv
    <2> QED BY <2>2, <2>3 DEF Given, Reason
  <1>7. CASE NewTag(r)
    <2>1. pc[r] = "new tag" /\ Tag(r) \in tags
      BY <1>1, <1>3, <1>7, NewTagFacts DEF Turn
    <2> QED BY <1>1, <2>1 DEF RacesInv, Reason
  <1>8. CASE NewType(r)
    <2>1. pc[r] = "new type" /\ input[r].type \in types
      BY <1>1, <1>3, <1>8, NewTypeFacts DEF Turn, Typed
    <2> QED BY <1>1, <2>1 DEF RacesInv, Reason
  <1>9. ~Reload(r)
    BY <1>1, <1>3, ReloadFacts DEF Turn
  <1>10. ~Clear(r) /\ ~Assign(r)
    BY <1>3, ClearFacts, AssignFacts DEF Turn, After
  <1>11. ~FindTag(r)
    BY <1>3, FindTagFacts DEF Turn
  <1>12. ~Unassign(r)
    BY <1>3, UnassignFacts DEF Turn
  <1>13. ~FindType(r)
    BY <1>1, <1>3, FindTypeFacts DEF Turn, Typed
  <1>14. ~SetType(r)
    BY <1>1, <1>3, SetTypeFacts DEF Turn
  <1> QED BY <1>4, <1>5, <1>6, <1>7, <1>8, <1>9, <1>10, <1>11, <1>12, <1>13, <1>14 DEF Step

LEMMA ErrorsStep ==
    ASSUME TypeInv, NamesInv, SaveInv, RacesInv, ErrorsExplained, NEW r \in Requests, Step(r)
    PROVE  ErrorsExplained'
  <1>1. input' = input /\ Started' = Started /\ \A q \in Requests : Overlaps(q)' = Overlaps(q) /\ On(q, Overlaps(q))' = On(q, Overlaps(q))
    BY SameRequests, SameOverlaps
  <1>2. ASSUME NEW q \in Requests, result'[q] = "error", faults' = 0 PROVE Reason(q)
    <2>1. CASE q = r
      BY <1>2, <2>1, Refused
    <2>2. CASE q # r
      <3>1. result[q] = "error" /\ faults = 0
        BY <1>2, <2>2, StepTurns, FrameFacts DEF Frame
      <3> QED BY <3>1 DEF ErrorsExplained, Reason
    <2> QED BY <2>1, <2>2
  <1>3. \A q \in Requests : Reason(q) => Reason(q)'
    BY <1>1 DEF Reason, Shared
  <1> QED BY <1>2, <1>3 DEF ErrorsExplained, Reason

LEMMA ErrorsReceive == ASSUME TypeInv, ErrorsExplained, NEW r \in Requests, Receive(r) PROVE ErrorsExplained'
  <1>1. /\ faults' = faults /\ result'[r] # "error"
        /\ \A q \in Requests \ {r} : result'[q] = result[q] /\ input'[q] = input[q]
    BY ReceiveFacts, CollectionsAssumption DEF Turn, CollectionsAssumption
  <1>2. ASSUME NEW q \in Requests, result'[q] = "error", faults' = 0 PROVE Reason(q)'
    <2>1. q # r /\ result[q] = "error" /\ faults = 0 /\ input'[q] = input[q]
      BY <1>1, <1>2
    <2>2. Reason(q)
      BY <2>1 DEF ErrorsExplained, Reason
    <2>3. q \in Started
      BY <2>1, CollectionsAssumption DEF CollectionsAssumption, TypeInv, Control, Knows, Started
    <2>4. \A x \in Started : x \in Started' /\ input'[x] = input[x]
      BY MoreOverlaps
    <2>5. \A x \in Overlaps(q) : x \in Overlaps(q)' /\ input'[x] = input[x]
      BY <2>3, MoreOverlaps DEF Overlaps
    <2>6. \A x \in Overlaps(q) : Shared(q, x) => Shared(q, x)'
      BY <2>1, <2>5 DEF Shared
    <2>7. \A x \in On(q, Overlaps(q)) : x \in On(q, Overlaps(q))' /\ input'[x] = input[x]
      BY <2>1, <2>5 DEF On
    <2> QED BY <2>1, <2>2, <2>4, <2>5, <2>6, <2>7 DEF Reason
  <1> QED BY <1>2 DEF ErrorsExplained, Reason

LEMMA ErrorsCrash == ASSUME TypeInv, ErrorsExplained, Crash PROVE ErrorsExplained'
  <1>1. /\ input' = input /\ Started' = Started /\ result' = result /\ faults' = faults
        /\ \A q \in Requests : Overlaps(q)' = Overlaps(q) /\ On(q, Overlaps(q))' = On(q, Overlaps(q))
    BY SameRequests, SameOverlaps, CrashFacts
  <1> QED BY <1>1 DEF ErrorsExplained, Shared

(***************************************************************************)
(* The theorems.                                                           *)
(***************************************************************************)
LEMMA IInit == Init => IInv
  <1> SUFFICES ASSUME Init PROVE IInv
    OBVIOUS
  <1>1. \A r \in Requests : pc[r] = "idle" /\ result[r] = None
    BY DEF Init
  <1>2. None # "error"
    BY CollectionsAssumption DEF CollectionsAssumption
  <1>3. SaveInv /\ RenameInv /\ MoveInv /\ TagsInv /\ RacesInv /\ ErrorsExplained
    BY <1>1, <1>2 DEF SaveInv, RenameInv, Renamed, MoveInv, Moved, TagsInv, RacesInv, ErrorsExplained
  <1> QED BY <1>3, TypeInit, NamesInit DEF IInv

LEMMA INext == IInv /\ [Next]_vars => IInv'
  <1> SUFFICES ASSUME IInv, [Next]_vars PROVE IInv'
    OBVIOUS
  <1>1. TypeInv /\ NamesInv /\ SaveInv /\ RenameInv /\ MoveInv /\ TagsInv /\ RacesInv /\ ErrorsExplained
    BY DEF IInv
  <1>2. CASE Crash
    BY <1>1, <1>2, TypeCrash, NamesCrash, SaveInvCrash, RenameCrash, MoveCrash, TagsInvCrash, RacesCrash, ErrorsCrash DEF IInv
  <1>3. ASSUME NEW r \in Requests, Receive(r) PROVE IInv'
    BY <1>1, <1>3, TypeReceive, NamesReceive, SaveInvReceive, RenameReceive, MoveReceive, TagsInvReceive, RacesReceive,
       ErrorsReceive DEF IInv
  <1>4. ASSUME NEW r \in Requests, Step(r) PROVE IInv'
    BY <1>1, <1>4, TypeStep, NamesStep, SaveInvStep, RenameStep, MoveStep, TagsInvStep, RacesStep, ErrorsStep DEF IInv
  <1>5. CASE UNCHANGED vars
    <2>1. /\ rows' = rows /\ types' = types /\ tags' = tags /\ assigned' = assigned
          /\ pc' = pc /\ input' = input /\ read' = read /\ at' = at /\ result' = result
          /\ seen' = seen /\ before' = before /\ faults' = faults /\ crashes' = crashes
      BY <1>5 DEF vars, tables, history
    <2>2. /\ Started' = Started /\ Ended' = Ended
      BY <2>1 DEF Started, Ended
    <2>3. \A r : Overlaps(r)' = Overlaps(r) /\ Later(r)' = Later(r)
      BY <2>1, <2>2 DEF Overlaps, Later
    <2>4. \A r : /\ On(r, Overlaps(r))' = On(r, Overlaps(r)) /\ On(r, Later(r))' = On(r, Later(r))
                 /\ Alone(r)' = Alone(r) /\ Tag(r)' = Tag(r)
      BY <2>1, <2>3 DEF On, Alone, Tag
    <2>5. \A r : NameCalm(r)' = NameCalm(r) /\ TypeCalm(r)' = TypeCalm(r) /\ TagCalm(r)' = TagCalm(r)
      BY <2>1, <2>4 DEF NameCalm, TypeCalm, TagCalm, Retags
    <2>6. TypeInv'
      BY <1>1, <1>5, TypeNext
    <2>7. NamesInv' /\ SaveInv'
      <3>1. \A c, name : Given(c, name)' = Given(c, name)
        BY <2>1, <2>2 DEF Given
      <3>2. NamesInv'
        BY <1>1, <2>1, <3>1 DEF NamesInv
      <3>3. SaveInv'
        BY <1>1, <2>1, <2>4 DEF SaveInv
      <3> QED BY <3>2, <3>3
    <2>8. RenameInv' /\ MoveInv'
      <3>1. \A r : Renamed(r)' = Renamed(r) /\ Moved(r)' = Moved(r)
        BY <2>1 DEF Renamed, Moved
      <3>2. RenameInv'
        BY <1>1, <2>1, <2>4, <2>5, <3>1 DEF RenameInv
      <3>3. MoveInv'
        BY <1>1, <2>1, <2>4, <2>5, <3>1 DEF MoveInv
      <3> QED BY <3>2, <3>3
    <2>9. \A r : Replacing(r)' = Replacing(r)
      BY <2>1 DEF Replacing, TagsOf, DoneTags
    <2>10. TagsInv'
      BY <1>1, <2>1, <2>5, <2>9 DEF TagsInv
    <2>11. \A r, q : Shared(r, q)' = Shared(r, q)
      BY <2>1 DEF Shared
    <2>12. RacesInv' /\ ErrorsExplained'
      <3>1. RacesInv'
        BY <1>1, <2>1, <2>3, <2>4, <2>11 DEF RacesInv
      <3>2. ErrorsExplained'
        BY <1>1, <2>1, <2>2, <2>3, <2>4, <2>11 DEF ErrorsExplained
      <3> QED BY <3>1, <3>2
    <2> QED BY <2>6, <2>7, <2>8, <2>10, <2>12 DEF IInv
  <1> QED BY <1>2, <1>3, <1>4, <1>5 DEF Next

\* Whatever requests run next to each other, fail half-way or die: the parts
\* of the invariant above hold in every reachable state.
THEOREM Inductive == Spec => []IInv
  BY IInit, INext, PTL DEF Spec

\* updateArtifactSequence, updateArtifactPortfolio, moveArtifactSequence: a
\* rename or a move that was answered holds until the next one, next to any
\* number of deletes and updates that were received later.
THEOREM Changes == Spec => []ChangesKept
  <1>1. IInv => ChangesKept
    <2> SUFFICES ASSUME IInv PROVE ChangesKept
      OBVIOUS
    <2>1. TypeOK /\ TypeInv /\ NamesInv
      BY DEF IInv, TypeInv
    <2>2. RenameKept
      <3> SUFFICES ASSUME NEW r \in Ended, input[r].name # None, result[r] = "ok", Alone(r),
                          \A q \in On(r, Later(r)) : input[q].name = None
                   PROVE  Named(input[r].name) = {input[r].coll}
        BY DEF RenameKept
      <3>1. r \in Requests /\ pc[r] = "done"
        BY DEF Ended
      <3>2. rows[input[r].coll].name = input[r].name
        BY <3>1 DEF IInv, RenameInv, Renamed, NameCalm
      <3>3. input[r].coll \in Colls
        BY <2>1, <3>1, InputFacts
      <3> QED BY <2>1, <3>2, <3>3 DEF Named, NamesInv
    <2>3. MoveKept
      <3> SUFFICES ASSUME NEW r \in Ended, input[r].op = "move", result[r] = "ok", Alone(r),
                          \A q \in On(r, Later(r)) : input[q].op # "move"
                   PROVE  /\ input[r].coll \in OfType(input[r].type)
                          /\ input[r].coll \in TypeLookup(input[r].type, rows[input[r].coll].name)
        BY DEF MoveKept
      <3>1. r \in Requests /\ pc[r] = "done"
        BY DEF Ended
      <3>2. rows[input[r].coll].type = input[r].type
        BY <3>1 DEF IInv, MoveInv, Moved, TypeCalm
      <3>3. input[r].coll \in Colls
        BY <2>1, <3>1, InputFacts
      <3>4. input[r].coll \in OfType(input[r].type) /\ input[r].coll \in Named(rows[input[r].coll].name)
        BY <3>2, <3>3 DEF OfType, Named
      <3> QED BY <3>4 DEF TypeLookup
    <2> QED BY <2>1, <2>2, <2>3 DEF ChangesKept
  <1> QED BY <1>1, Inductive, PTL

\* updateArtifactSequence and updateArtifactPortfolio with tags, statement by
\* statement: the tags are replaced as a whole, or the request stops with the
\* old ones or with some of the new ones.
THEOREM Replaced == Spec => []TagsReplaced
  <1>1. IInv => TagsReplaced
    <2> SUFFICES ASSUME IInv, NEW r \in Ended, input[r].op = "update", input[r].tags # None, faults = 0, Alone(r),
                        \A q \in On(r, Later(r)) : ~Retags(q)
                 PROVE  LET now == TagsOf(input[r].coll)
                            new == Range(input[r].tags) IN
                        IF result[r] = "ok" THEN now = new ELSE now = before[r] \/ now \subseteq new
      BY DEF TagsReplaced
    <2>1. r \in Requests /\ pc[r] = "done"
      BY DEF Ended
    <2>2. Replacing(r)
      BY <2>1 DEF IInv, TagsInv, TagCalm
    <2> QED BY <2>1, <2>2 DEF Replacing
  <1> QED BY <1>1, Inductive, PTL

\* Every refusal has a reason that the sender can see, however many requests
\* are executed at the same time.
THEOREM Explained == Spec => []ErrorsExplained
  <1>1. IInv => ErrorsExplained
    BY DEF IInv
  <1> QED BY <1>1, Inductive, PTL

\* deleteArtifactSequence and deleteArtifactPortfolio: no request that read
\* the collection before makes it active again.
THEOREM Deleted == Spec => DeletedForGood
  <1>1. IInv /\ [Next]_vars => [\A c \in Colls : rows[c].state = "deleted" => rows'[c].state = "deleted"]_vars
    <2> SUFFICES ASSUME IInv, Next, NEW c \in Colls, rows[c].state = "deleted" PROVE rows'[c].state = "deleted"
      OBVIOUS
    <2>1. TypeInv
      BY DEF IInv
    <2>2. CASE Crash
      BY <2>1, <2>2, CrashFacts DEF SameTables
    <2>3. ASSUME NEW r \in Requests, Receive(r) PROVE rows'[c].state = "deleted"
      BY <2>1, <2>3, ReceiveFacts DEF SameTables
    <2>4. ASSUME NEW r \in Requests, Step(r) PROVE rows'[c].state = "deleted"
      <3>1. CASE rows'[c] = rows[c]
        BY <3>1
      <3>2. CASE rows'[c] # rows[c]
        <4>1. rows' # rows /\ input[r].coll = c
          BY <2>1, <2>4, <3>2, RowOfOthers
        <4> QED BY <2>1, <2>4, <4>1, RowStep
      <3> QED BY <3>1, <3>2
    <2> QED BY <2>2, <2>3, <2>4 DEF Next
  <1> QED BY <1>1, Inductive, PTL DEF Spec, DeletedForGood

=============================================================================
