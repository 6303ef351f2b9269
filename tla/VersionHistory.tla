--------------------------- MODULE VersionHistory ---------------------------
(***************************************************************************)
(* What artifact creation promises, whatever the handler does in between:  *)
(* the artifacts are a history that only grows.  A row is written once and *)
(* never changes; it starts its collection or follows a stored version; a  *)
(* request is answered at most once, and never with a row that is not in   *)
(* the history.                                                            *)
(***************************************************************************)
EXTENDS Naturals

CONSTANTS
    Ids,        \* artifact ids, one per request that could create one
    Colls,      \* collections
    None        \* not stored, not answered

VARIABLES
    rows,       \* id -> [coll, version] or None
    answers     \* request -> the id it was answered with, or None

History == {a \in Ids : rows[a] # None}

\* The rows that continue the history: the first version of a collection, or
\* the successor of a stored one.  Two rows may be the same successor.
Continuations ==
    {[coll |-> c, version |-> 0] : c \in Colls} \cup
    {[coll |-> rows[b].coll, version |-> rows[b].version + 1] : b \in History}

Init ==
    /\ rows = [a \in Ids |-> None]
    /\ answers = [r \in Ids |-> None]

\* A new version is stored, and its request may be answered with it at once.
Append(a) ==
    /\ rows[a] = None
    /\ \E row \in Continuations : rows' = [rows EXCEPT ![a] = row]
    /\ \/ UNCHANGED answers
       \/ answers[a] = None /\ answers' = [answers EXCEPT ![a] = a]

\* A request is answered with a version stored earlier, its own or another's.
Answer(r) ==
    /\ answers[r] = None
    /\ \E a \in History : answers' = [answers EXCEPT ![r] = a]
    /\ UNCHANGED rows

Next == \E a \in Ids : Append(a) \/ Answer(a)

Spec == Init /\ [][Next]_<<rows, answers>>
=============================================================================
