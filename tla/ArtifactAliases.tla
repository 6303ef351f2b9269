--------------------------- MODULE ArtifactAliases ---------------------------
(***************************************************************************)
(* The life cycle and the aliases of artifact versions: commitArtifact,    *)
(* deleteArtifact, addAliases, deleteAliases, updateArtifact, linkArtifact *)
(* and unlinkArtifact (internal/graphql/artifact_mutations.go and          *)
(* internal/store/artifact.go).                                            *)
(*                                                                         *)
(* Each handler is a sequence of SQL statements without a transaction; an  *)
(* action is one statement of one request.  Rows that no handler here      *)
(* changes (the artifact's existence, collection and version, the project) *)
(* are read together with the first statement that uses them.  Many errors *)
(* are dropped by the code: there the failing statement has no effect and  *)
(* the handler goes on.                                                    *)
(*                                                                         *)
(* (collection_id, alias) is unique, so the table is a function of both.   *)
(* The primary key of a row is the request that inserted it: a request     *)
(* inserts a given alias of a given collection once.  (Only a link whose   *)
(* list gives a name twice, or the vN it is about to get, might not.)      *)
(***************************************************************************)
EXTENDS Naturals, FiniteSets

CONSTANTS
    Requests,       \* the requests that may be received
    Arts,           \* artifact versions, stored as PENDING by createArtifact
    Sequences,      \* collections that hold versions
    Portfolios,     \* names linkArtifact may create collections under
    SequenceOf,     \* artifact -> its collection
    VersionOf,      \* artifact -> its version index
    UserNames,      \* alias names chosen by users
    Lists,          \* the alias lists a request may carry
    Targets,        \* the collections named in linkArtifact and unlinkArtifact
    Operations,     \* the mutations the clients call
    None,           \* an absent row
    MaxVersion,     \* bound: the largest N of a vN alias
    MaxInFlight,    \* bound: requests executed at the same time
    MaxFaults       \* bound: statements that fail

Colls    == Sequences \cup Portfolios
Latest   == <<"latest", None>>
V(n)     == <<"v", n>>
Names    == {Latest} \cup {V(n) : n \in 0..MaxVersion} \cup {<<"user", u>> : u \in UserNames}

\* "latest" and whatever versionAliasRe matches are managed by the server.
AutoManaged == {n \in Names : n[1] \in {"latest", "v"}}

\* An alias is identified by its collection and its name.
Key == Colls \X Names
Row == [by: Requests, art: Arts]

ASSUME AliasAssumption ==
    /\ IsFiniteSet(Requests) /\ IsFiniteSet(Arts)
    /\ Sequences \cap Portfolios = {}
    /\ SequenceOf \in [Arts -> Sequences]
    /\ MaxVersion \in Nat
    /\ VersionOf \in [Arts -> 0..MaxVersion]
    /\ Targets \subseteq Colls
    /\ Operations \subseteq {"commit", "update", "add", "remove", "link", "unlink", "delete"}
    /\ Lists \subseteq SUBSET Key /\ {} \in Lists
    /\ None \notin Requests \cup Row \cup Key
    /\ MaxInFlight \in Nat /\ MaxFaults \in Nat

VARIABLES
    state,      \* artifacts.state
    colls,      \* the collections that exist
    linkable,   \* whether the artifact type "portfolio" exists
    aliases,    \* artifact_aliases: key -> row or None
    pc,         \* per request: the statement it executes next
    req,        \* per request: its operation and arguments
    local,      \* per request: its local variables
    before,     \* history: requests answered when this one was received
    faults      \* statements that have failed so far

tables == <<state, colls, linkable, aliases>>
vars   == <<tables, pc, req, local, before, faults>>

\* Aliases still to process, the one in hand, rows read earlier, linkedCount.
NoLocals == [todo |-> {}, cur |-> None, held |-> {}, count |-> 0]

Input == [op: Operations, art: Arts, coll: Colls, list: Lists, drop: BOOLEAN]

\* Arguments an operation does not have are fixed.
WellFormed(i) ==
    /\ i.coll \in IF i.op \in {"link", "unlink"} THEN Targets ELSE {SequenceOf[i.art]}
    /\ i.op \in {"add", "remove", "update", "link"} \/ i.list = {}
    /\ i.op = "delete" \/ ~i.drop

\* The first statement of each operation.  updateArtifact changes no alias
\* unless its input has a list; linkArtifact names the portfolio only.
FirstStep == [commit |-> "commit", update |-> "read aliases", add |-> "add",
              remove |-> "remove", link |-> "type", unlink |-> "unlink",
              delete |-> "drop aliases"]

Working == {"commit", "drop latest", "put latest", "find version", "put version",
            "read aliases", "drop held", "set", "add", "insert", "remove",
            "type", "new type", "portfolio", "new portfolio", "count",
            "linked", "put link", "find alias", "put alias", "move alias",
            "unlink", "drop aliases", "mark deleted"}
Steps   == Working \cup {"idle", "done", "failed", "killed"}

InFlight == {r \in Requests : pc[r] \in Working}

(***************************************************************************)
(* Statements.                                                             *)
(***************************************************************************)
Succeeds == UNCHANGED faults
Fails    == faults < MaxFaults /\ faults' = faults + 1

Goto(r, step)   == pc' = [pc EXCEPT ![r] = step] /\ UNCHANGED local
Set(r, step, l) == pc' = [pc EXCEPT ![r] = step] /\ local' = [local EXCEPT ![r] = l]
Finish(r, how)  == Set(r, how, NoLocals)

Taken(k)     == aliases[k] # None
RowsOf(a)    == {k \in Key : Taken(k) /\ aliases[k].art = a}
RowsIn(c)    == {k \in Key : Taken(k) /\ k[1] = c}
Delete(keys) == aliases' = [k \in Key |-> IF k \in keys THEN None ELSE aliases[k]]

\* INSERT; a conflict on (collection_id, alias) inserts nothing.
Insert(r, k) == aliases' = IF Taken(k) THEN aliases
                           ELSE [aliases EXCEPT ![k] = [by |-> r, art |-> req[r].art]]

\* A write whose error the code drops.
Try(write) == (Succeeds /\ write) \/ (Fails /\ UNCHANGED aliases)

Init ==
    /\ state = [a \in Arts |-> "PENDING"]
    /\ colls = Sequences
    /\ linkable = FALSE
    /\ aliases = [k \in Key |-> None]
    /\ pc = [r \in Requests |-> "idle"]
    /\ req = [r \in Requests |-> None]
    /\ local = [r \in Requests |-> NoLocals]
    /\ before = [r \in Requests |-> {}]
    /\ faults = 0

Receive(r) ==
    /\ pc[r] = "idle"
    /\ Cardinality(InFlight) < MaxInFlight
    /\ \E i \in Input :
          /\ WellFormed(i)
          /\ req' = [req EXCEPT ![r] = i]
          /\ Set(r, FirstStep[i.op], [NoLocals EXCEPT !.todo = i.list])
    /\ before' = [before EXCEPT ![r] = {q \in Requests : pc[q] = "done"}]
    /\ UNCHANGED <<tables, faults>>

\* The lookups of the artifact and its collection may fail.
LookupFails(r) ==
    /\ pc[r] \in Working /\ pc[r] = FirstStep[req[r].op]
    /\ local[r].todo = req[r].list
    /\ Fails /\ Finish(r, "failed")
    /\ UNCHANGED <<tables, req, before>>

(***************************************************************************)
(* commitArtifact.  The state is set without looking at what it was.       *)
(***************************************************************************)
Own(r)        == SequenceOf[req[r].art]
LatestKey(r)  == <<Own(r), Latest>>
VersionKey(r) == <<Own(r), V(VersionOf[req[r].art])>>

\* Fault seeded for AutoAliasesCommitted: the error of the UPDATE is dropped.
CommitStateUnchecked(r) ==
    /\ pc[r] = "commit"
    /\ \/ Succeeds /\ state' = [state EXCEPT ![req[r].art] = "COMMITTED"]
       \/ Fails /\ UNCHANGED state
    /\ Goto(r, "drop latest")
    /\ UNCHANGED <<colls, linkable, aliases, req, before>>

CommitState(r) ==
    /\ pc[r] = "commit"
    /\ \/ /\ Succeeds
          /\ state' = [state EXCEPT ![req[r].art] = "COMMITTED"]
          /\ Goto(r, "drop latest")
       \/ Fails /\ UNCHANGED state /\ Finish(r, "failed")
    /\ UNCHANGED <<colls, linkable, aliases, req, before>>

DropLatest(r) ==
    /\ pc[r] = "drop latest"
    /\ Try(Delete({LatestKey(r)}))
    /\ Goto(r, "put latest")
    /\ UNCHANGED <<state, colls, linkable, req, before>>

\* Fault seeded for LatestPresent: an insert that conflicts takes the row of
\* the other commit away.
PutLatestToggles(r) ==
    /\ pc[r] = "put latest"
    /\ Try(IF Taken(LatestKey(r)) THEN Delete({LatestKey(r)}) ELSE Insert(r, LatestKey(r)))
    /\ Goto(r, "find version")
    /\ UNCHANGED <<state, colls, linkable, req, before>>

PutLatest(r) ==
    /\ pc[r] = "put latest"
    /\ Try(Insert(r, LatestKey(r)))
    /\ Goto(r, "find version")
    /\ UNCHANGED <<state, colls, linkable, req, before>>

\* Fault seeded for VersionResolves: the handler ends when it finds no row.
FindVersionInverted(r) ==
    /\ pc[r] = "find version"
    /\ \/ Succeeds /\ Taken(VersionKey(r)) /\ Goto(r, "put version")
       \/ ((Succeeds /\ ~Taken(VersionKey(r))) \/ Fails) /\ Finish(r, "done")
    /\ UNCHANGED <<tables, req, before>>

FindVersion(r) ==
    /\ pc[r] = "find version"
    /\ \/ Succeeds /\ ~Taken(VersionKey(r)) /\ Goto(r, "put version")
       \/ ((Succeeds /\ Taken(VersionKey(r))) \/ Fails) /\ Finish(r, "done")
    /\ UNCHANGED <<tables, req, before>>

PutVersion(r) ==
    /\ pc[r] = "put version"
    /\ Try(Insert(r, VersionKey(r)))
    /\ Finish(r, "done")
    /\ UNCHANGED <<state, colls, linkable, req, before>>

(***************************************************************************)
(* deleteArtifact.                                                         *)
(***************************************************************************)
DropAliases(r) ==
    /\ pc[r] = "drop aliases"
    /\ \/ /\ Succeeds
          /\ Delete(IF req[r].drop THEN RowsOf(req[r].art) ELSE {})
          /\ Goto(r, "mark deleted")
       \/ Fails /\ UNCHANGED aliases /\ Finish(r, "failed")
    /\ UNCHANGED <<state, colls, linkable, req, before>>

MarkDeleted(r) ==
    /\ pc[r] = "mark deleted"
    /\ \/ Succeeds /\ state' = [state EXCEPT ![req[r].art] = "DELETED"] /\ Finish(r, "done")
       \/ Fails /\ UNCHANGED state /\ Finish(r, "failed")
    /\ UNCHANGED <<colls, linkable, aliases, req, before>>

(***************************************************************************)
(* addAliases.  For each alias: "latest" is refused, its collection is     *)
(* looked up, then the row, then it is inserted.  What was inserted before *)
(* an error stays.                                                         *)
(***************************************************************************)
Rest(r, k) == [local[r] EXCEPT !.todo = @ \ {k}, !.cur = None]

\* updateArtifact then reads the artifact again, and answers an error when
\* that fails.
EndOfList(r, step) ==
    /\ pc[r] = step
    /\ local[r].todo = {}
    /\ \/ Succeeds /\ Finish(r, "done")
       \/ step = "set" /\ Fails /\ Finish(r, "failed")
    /\ UNCHANGED <<tables, req, before>>

AddCheck(r) ==
    /\ pc[r] = "add"
    /\ \E k \in local[r].todo :
          \/ /\ k[2] = Latest \/ k[1] \notin colls
             /\ Succeeds /\ Finish(r, "failed")
          \/ /\ k[2] # Latest /\ k[1] \in colls
             /\ \/ Succeeds /\ k \in RowsOf(req[r].art) /\ Set(r, "add", Rest(r, k))
                \/ /\ Succeeds /\ k \notin RowsOf(req[r].art)
                   /\ Set(r, "insert", [local[r] EXCEPT !.cur = k])
                \/ Fails /\ Finish(r, "failed")
    /\ UNCHANGED <<tables, req, before>>

AddInsert(r) ==
    /\ pc[r] = "insert"
    /\ LET k == local[r].cur IN
          \/ Succeeds /\ ~Taken(k) /\ Insert(r, k) /\ Set(r, "add", Rest(r, k))
          \/ /\ (Succeeds /\ Taken(k)) \/ Fails
             /\ UNCHANGED aliases /\ Finish(r, "failed")
    /\ UNCHANGED <<state, colls, linkable, req, before>>

(***************************************************************************)
(* deleteAliases: an alias of a collection that is not there is skipped.   *)
(***************************************************************************)
Remove(r) ==
    /\ pc[r] = "remove"
    /\ \E k \in local[r].todo :
          /\ Try(Delete({k} \cap RowsOf(req[r].art)))
          /\ Set(r, "remove", Rest(r, k))
    /\ UNCHANGED <<state, colls, linkable, req, before>>

(***************************************************************************)
(* updateArtifact with a list of aliases: the aliases of the artifact that *)
(* users manage are read, deleted one by one by primary key, and the given *)
(* ones inserted.                                                          *)
(***************************************************************************)
Held(k)       == [key |-> k, by |-> aliases[k].by]
StillThere(h) == Taken(h.key) /\ aliases[h.key].by = h.by

\* Fault seeded for AliasesOfOthersStay: the query selects by collection.
ReadAliasesOfColl(r) ==
    /\ pc[r] = "read aliases"
    /\ \/ /\ Succeeds
          /\ Set(r, "drop held", [local[r] EXCEPT !.held =
                 {Held(k) : k \in {x \in RowsIn(Own(r)) : x[2] \notin AutoManaged}}])
       \/ Fails /\ Goto(r, "drop held")
    /\ UNCHANGED <<tables, req, before>>

ReadAliases(r) ==
    /\ pc[r] = "read aliases"
    /\ \/ /\ Succeeds
          /\ Set(r, "drop held", [local[r] EXCEPT !.held =
                 {Held(k) : k \in {x \in RowsOf(req[r].art) : x[2] \notin AutoManaged}}])
       \/ Fails /\ Goto(r, "drop held")
    /\ UNCHANGED <<tables, req, before>>

DropHeld(r) ==
    /\ pc[r] = "drop held"
    /\ \E h \in local[r].held :
          /\ Try(Delete({k \in {h.key} : StillThere(h)}))
          /\ Set(r, "drop held", [local[r] EXCEPT !.held = @ \ {h}])
    /\ UNCHANGED <<state, colls, linkable, req, before>>

\* Fault seeded for OldAliasesGone: the loop may end before its last row.
HeldDroppedEarly(r) ==
    /\ pc[r] = "drop held"
    /\ Goto(r, "set")
    /\ UNCHANGED <<tables, req, before, faults>>

HeldDropped(r) ==
    /\ pc[r] = "drop held" /\ local[r].held = {}
    /\ Goto(r, "set")
    /\ UNCHANGED <<tables, req, before, faults>>

\* Fault seeded for AliasesHaveCollections: the collection is not looked up.
SetAliasAnywhere(r) ==
    /\ pc[r] = "set"
    /\ \E k \in local[r].todo :
          /\ Try(IF k[2] \in AutoManaged THEN UNCHANGED aliases ELSE Insert(r, k))
          /\ Set(r, "set", Rest(r, k))
    /\ UNCHANGED <<state, colls, linkable, req, before>>

SetAlias(r) ==
    /\ pc[r] = "set"
    /\ \E k \in local[r].todo :
          \/ /\ k[2] \in AutoManaged
             /\ Succeeds /\ Set(r, "set", Rest(r, k)) /\ UNCHANGED aliases
          \/ /\ k[2] \notin AutoManaged /\ k[1] \in colls
             /\ Try(Insert(r, k)) /\ Set(r, "set", Rest(r, k))
          \/ /\ k[2] \notin AutoManaged
             /\ (Succeeds /\ k[1] \notin colls) \/ Fails
             /\ Finish(r, "failed") /\ UNCHANGED aliases
    /\ UNCHANGED <<state, colls, linkable, req, before>>

(***************************************************************************)
(* linkArtifact.  The type "portfolio" and the collection are looked up    *)
(* and inserted when missing; a request that loses the race looks again    *)
(* with the primary key of the row it could not insert, finds nothing and  *)
(* answers an error.                                                       *)
(***************************************************************************)
FindPortfolioType(r) ==
    /\ pc[r] = "type"
    /\ \/ Succeeds /\ Goto(r, IF linkable THEN "portfolio" ELSE "new type")
       \/ Fails /\ Finish(r, "failed")
    /\ UNCHANGED <<tables, req, before>>

NewPortfolioType(r) ==
    /\ pc[r] = "new type"
    /\ \/ Succeeds /\ ~linkable /\ linkable' = TRUE /\ Goto(r, "portfolio")
       \/ ((Succeeds /\ linkable) \/ Fails) /\ UNCHANGED linkable /\ Finish(r, "failed")
    /\ UNCHANGED <<state, colls, aliases, req, before>>

FindPortfolio(r) ==
    /\ pc[r] = "portfolio"
    /\ \/ Succeeds /\ Goto(r, IF req[r].coll \in colls THEN "count" ELSE "new portfolio")
       \/ Fails /\ Finish(r, "failed")
    /\ UNCHANGED <<tables, req, before>>

NewPortfolio(r) ==
    /\ pc[r] = "new portfolio"
    /\ LET p == req[r].coll IN
          \/ Succeeds /\ p \notin colls /\ colls' = colls \cup {p} /\ Goto(r, "count")
          \/ ((Succeeds /\ p \in colls) \/ Fails) /\ UNCHANGED colls /\ Finish(r, "failed")
    /\ UNCHANGED <<state, linkable, aliases, req, before>>

\* Fault seeded for LinkedIsMember: only the rows of the artifact are counted.
CountOwn(r) ==
    /\ pc[r] = "count"
    /\ \/ /\ Succeeds
          /\ Set(r, "linked", [local[r] EXCEPT !.count =
                 Cardinality(RowsIn(req[r].coll) \cap RowsOf(req[r].art))])
       \/ Fails /\ Goto(r, "linked")
       \/ Fails /\ Finish(r, "failed")
    /\ UNCHANGED <<tables, req, before>>

\* The artifact is looked up; then the version in the portfolio is the number
\* of its alias rows, and a failing count leaves it 0.
Count(r) ==
    /\ pc[r] = "count"
    /\ \/ /\ Succeeds
          /\ Cardinality(RowsIn(req[r].coll)) <= MaxVersion
          /\ Set(r, "linked", [local[r] EXCEPT !.count = Cardinality(RowsIn(req[r].coll))])
       \/ Fails /\ Goto(r, "linked")
       \/ Fails /\ Finish(r, "failed")
    /\ UNCHANGED <<tables, req, before>>

LinkKey(r) == <<req[r].coll, V(local[r].count)>>

Linked(r) ==
    /\ pc[r] = "linked"
    /\ LET linked == LinkKey(r) \in RowsOf(req[r].art) IN
          \/ Succeeds /\ ~linked /\ Goto(r, "put link")
          \/ ((Succeeds /\ linked) \/ Fails) /\ Goto(r, "find alias")
    /\ UNCHANGED <<tables, req, before>>

PutLink(r) ==
    /\ pc[r] = "put link"
    /\ Try(Insert(r, LinkKey(r)))
    /\ Goto(r, "find alias")
    /\ UNCHANGED <<state, colls, linkable, req, before>>

\* The further aliases are taken in the portfolio whatever collection the
\* list names.
InPortfolio(r, k) == <<req[r].coll, k[2]>>

FindAlias(r) ==
    /\ pc[r] = "find alias"
    /\ \E k \in local[r].todo : LET p == InPortfolio(r, k) IN
          \/ /\ Succeeds /\ ~Taken(p)
             /\ Set(r, "put alias", [local[r] EXCEPT !.cur = k])
          \/ /\ Succeeds /\ Taken(p)
             /\ Set(r, "move alias", [local[r] EXCEPT !.cur = k, !.held = {Held(p)}])
          \/ Fails /\ Set(r, "find alias", Rest(r, k))
    /\ UNCHANGED <<tables, req, before>>

PutAlias(r) ==
    /\ pc[r] = "put alias"
    /\ LET k == local[r].cur IN
          Try(Insert(r, InPortfolio(r, k))) /\ Set(r, "find alias", Rest(r, k))
    /\ UNCHANGED <<state, colls, linkable, req, before>>

\* UPDATE ... SET artifact_id WHERE id = the primary key of the row found.
MoveAlias(r) ==
    /\ pc[r] = "move alias"
    /\ \E h \in local[r].held :
          /\ Try(aliases' = IF StillThere(h)
                            THEN [aliases EXCEPT ![h.key].art = req[r].art] ELSE aliases)
          /\ Set(r, "find alias", [Rest(r, local[r].cur) EXCEPT !.held = {}])
    /\ UNCHANGED <<state, colls, linkable, req, before>>

Unlink(r) ==
    /\ pc[r] = "unlink"
    /\ LET p == req[r].coll IN
          \/ /\ Succeeds /\ p \in colls \cap Portfolios
             /\ Delete({k \in RowsOf(req[r].art) : k[1] = p}) /\ Finish(r, "done")
          \/ /\ (Succeeds /\ p \notin colls \cap Portfolios) \/ Fails
             /\ UNCHANGED aliases /\ Finish(r, "failed")
    /\ UNCHANGED <<state, colls, linkable, req, before>>

(***************************************************************************)
(* The process dies between two statements of the requests in flight.      *)
(***************************************************************************)
Crash ==
    /\ InFlight # {}
    /\ pc' = [r \in Requests |-> IF r \in InFlight THEN "killed" ELSE pc[r]]
    /\ local' = [r \in Requests |-> NoLocals]
    /\ UNCHANGED <<tables, req, before, faults>>

Step(r) ==
    \/ LookupFails(r)
    \/ CommitState(r) \/ DropLatest(r) \/ PutLatest(r) \/ FindVersion(r) \/ PutVersion(r)
    \/ DropAliases(r) \/ MarkDeleted(r)
    \/ AddCheck(r) \/ AddInsert(r) \/ EndOfList(r, "add")
    \/ Remove(r) \/ EndOfList(r, "remove")
    \/ ReadAliases(r) \/ DropHeld(r) \/ HeldDropped(r) \/ SetAlias(r) \/ EndOfList(r, "set")
    \/ FindPortfolioType(r) \/ NewPortfolioType(r) \/ FindPortfolio(r) \/ NewPortfolio(r)
    \/ Count(r) \/ Linked(r) \/ PutLink(r)
    \/ FindAlias(r) \/ PutAlias(r) \/ MoveAlias(r) \/ EndOfList(r, "find alias")
    \/ Unlink(r)

Next == Crash \/ \E r \in Requests : Receive(r) \/ Step(r)

Spec == Init /\ [][Next]_vars

(***************************************************************************)
(* Properties.                                                             *)
(***************************************************************************)
Done(op) == {r \in Requests : pc[r] = "done" /\ req[r].op = op}

\* Whether a request that was received may take away the row at k.
MayRemove(q, k) ==
    /\ pc[q] # "idle"
    /\ \/ req[q].op = "remove" /\ k \in req[q].list
       \/ req[q].op = "delete" /\ req[q].drop
       \/ req[q].op = "unlink" /\ req[q].coll = k[1]
       \/ req[q].op = "update" /\ k[2] \notin AutoManaged

\* Whether a link that was received may write aliases of collection c.
LinksTo(q, c) == pc[q] # "idle" /\ req[q].op = "link" /\ req[q].coll = c

\* Whether a request that was received may give collection c a vN that is not
\* the number of its rows.
Numbers(q, c) ==
    /\ pc[q] # "idle"
    /\ \/ req[q].op = "commit" /\ Own(q) = c
       \/ req[q].op = "add" /\ \E k \in req[q].list : k[1] = c /\ k[2][1] = "v"
       \/ LinksTo(q, c) /\ \E k \in req[q].list : k[2][1] = "v"

\* Every value has its type.
TypeOK ==
    /\ state \in [Arts -> {"PENDING", "COMMITTED", "DELETED"}]
    /\ colls \in SUBSET Colls
    /\ linkable \in BOOLEAN
    /\ aliases \in [Key -> Row \cup {None}]
    /\ pc \in [Requests -> Steps]
    /\ req \in [Requests -> Input \cup {None}]
    /\ local \in [Requests -> [todo: SUBSET Key, cur: Key \cup {None},
                               held: SUBSET [key: Key, by: Requests], count: Nat]]
    /\ before \in [Requests -> SUBSET Requests]
    /\ faults \in 0..MaxFaults

\* "latest" is never left at a version whose commit had been answered before
\* another commit of the collection started, once that one is answered too:
\* CommitArtifact deletes the row before it inserts its own.  Overlapping
\* commits may leave either.  A failing DELETE does break this.
LatestNotStale ==
    faults = 0 =>
        \A s \in Done("commit") :
            Taken(LatestKey(s)) => aliases[LatestKey(s)].by \notin before[s] \cap Done("commit")

\* When no commit of the collection is running or was cut off, a committed
\* version leaves "latest" resolvable: of overlapping commits that delete and
\* insert the same row, one insert survives.
LatestPresent ==
    faults = 0 =>
        \A r \in Done("commit") :
            \/ Taken(LatestKey(r))
            \/ \E q \in Requests \ before[r] : MayRemove(q, LatestKey(r))
            \/ \E q \in InFlight \cup {x \in Requests : pc[x] = "killed"} :
                  req[q].op = "commit" /\ Own(q) = Own(r)

\* As long as nobody inserts a vN alias by hand, or links into a sequence,
\* "collection:vN" resolves to a version whose index is N, from the answer to
\* its commit on.  (ArtifactCreate may give two versions one index.)
VersionResolves ==
    faults = 0 =>
        \A r \in Done("commit") :
            \/ LET a == aliases[VersionKey(r)].art IN
                  Taken(VersionKey(r)) /\ <<SequenceOf[a], V(VersionOf[a])>> = VersionKey(r)
            \/ \E q \in Requests \ before[r] : MayRemove(q, VersionKey(r))
            \/ \E q \in Requests : /\ pc[q] # "idle"
                                   /\ req[q].op = "add" /\ VersionKey(r) \in req[q].list
            \/ \E q \in Requests : LinksTo(q, Own(r))

\* What a commit's aliases point at has left PENDING, even when statements
\* fail: nothing uncommitted is visible through "latest" or vN.  (A link that
\* names a sequence instead of a portfolio may move them.)
AutoAliasesCommitted ==
    \A k \in Key :
        Taken(k) /\ req[aliases[k].by].op = "commit" /\ (\A q \in Requests : ~LinksTo(q, k[1]))
            => state[aliases[k].art] # "PENDING"

\* A request other than a link takes away or replaces aliases of its own
\* artifact only, apart from a commit and the "latest" of its collection:
\* updateArtifact deletes what it read earlier by primary key, so a row that
\* another request has since put in its place survives.  (One that a link has
\* since moved to another artifact does not.)
AliasesOfOthersStay ==
    [][\A k \in Key : (Taken(k) /\ aliases'[k] # aliases[k]) =>
          \E r \in Requests :
              /\ <<pc[r], local[r]>>' # <<pc[r], local[r]>>
              /\ \/ req[r].art = aliases[k].art
                 \/ req[r].op = "commit" /\ k = LatestKey(r)
                 \/ \E q \in Requests : LinksTo(q, k[1])]_vars

\* Once updateArtifact has answered, every alias users gave the artifact was
\* inserted by this request or by one it overlapped or preceded, or moved to
\* it by a link of which that is true.
OldAliasesGone ==
    faults = 0 =>
        \A r \in Done("update") : \A k \in RowsOf(req[r].art) :
            k[2] \notin AutoManaged =>
                \/ aliases[k].by \notin before[r]
                \/ \E q \in Requests \ before[r] : LinksTo(q, k[1]) /\ req[q].art = req[r].art

\* Whether neither of two requests was answered before the other was received.
Overlap(q, r) == pc[q] # "idle" /\ q \notin before[r] /\ r \notin before[q] /\ q # r

\* An artifact that was linked by itself, into a portfolio nothing has been
\* taken from and nobody else has numbered, is a member of it: the number of
\* rows names a vN nobody has.
LinkedIsMember ==
    faults = 0 =>
        \A r \in Done("link") :
            \/ \E k \in RowsOf(req[r].art) : k[1] = req[r].coll
            \/ \E q \in Requests : Overlap(q, r) /\ req[q].op = "link"
            \/ \E q \in Requests : Numbers(q, req[r].coll)
            \/ \E q \in Requests : pc[q] # "idle" /\
                  req[q].op \in {"remove", "delete", "unlink", "update"}

\* Every alias belongs to a collection that exists.
AliasesHaveCollections == \A k \in Key : Taken(k) => k[1] \in colls

\* Aliases and versions are sound: every value has its type and an
\* alias a commit inserted points at a version that is not pending.
AliasesSound == TypeOK /\ AutoAliasesCommitted

\* However commits of a collection overlap or are cut off, "latest" is there
\* and no commit's that ended before another one began.
LatestResolves == LatestNotStale /\ LatestPresent
=============================================================================
