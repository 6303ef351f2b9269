----------------------------- MODULE MCRunUpsert -----------------------------
(***************************************************************************)
(* Model-checking instance of RunUpsert: two processes that start the same *)
(* run, an edit of a run by its id alone, as the public API makes it, and a*)
(* request for an entity that does not exist.                              *)
(***************************************************************************)
EXTENDS RunUpsert, TLC

CONSTANTS r1, r2, r3, r4, admin, stranger, n1, uncategorized, vision

Start(writes) == [by |-> "name", entity |-> None, model |-> vision, name |-> n1, writes |-> writes]

SomeInputs ==
    r1 :> Start({"config", "notes"}) @@
    r2 :> Start({"state", "program"}) @@
    r3 :> [Start({"config", "notes"}) EXCEPT !.by = "id", !.entity = admin, !.model = uncategorized] @@
    r4 :> [Start({}) EXCEPT !.entity = stranger]

Symmetric == Permutations(Slots)
=============================================================================
