-------------------------- MODULE MCArtifactCreate --------------------------
(***************************************************************************)
(* A model-checking instance of ArtifactCreate: calls for two collections, *)
(* with a client id and without, for a run, whose name another run may     *)
(* show, and for none.                                                     *)
(* Requests are alike, so the state is checked up to their permutation.    *)
(***************************************************************************)
EXTENDS ArtifactCreate, TLC

CONSTANTS k, c1, c2, t, n1, n2

Call(client, coll, run) == [client |-> client, coll |-> coll, type |-> t, run |-> run]

ThreeCalls == {Call(k, c1, n1), Call(k, c2, None), Call(None, c1, None)}

Symmetric == Permutations(Requests)
=============================================================================
