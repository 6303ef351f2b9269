----------------------- MODULE MCArtifactCollections -----------------------
(***************************************************************************)
(* Model-checking instances of ArtifactCollections: a sequence s and a     *)
(* portfolio f.                                                            *)
(***************************************************************************)
EXTENDS ArtifactCollections

CONSTANTS s, f, n1, n2, n3, t1, t2, g1, g2

KindOf  == (s :> "sequence") @@ (f :> "portfolio")
NameOf  == (s :> n1) @@ (f :> n2)

Ask(op, c) == [op |-> op, coll |-> c, needs |-> None, name |-> None, type |-> None, tags |-> None]

RequestSymmetry == Permutations(Requests)

Mixed ==
    {[Ask("delete", s) EXCEPT !.needs = "sequence"],
     [Ask("delete", f) EXCEPT !.needs = "portfolio"],
     [Ask("delete", s) EXCEPT !.needs = "portfolio"],
     [Ask("update", s) EXCEPT !.name = n3],
     [Ask("update", s) EXCEPT !.name = n2, !.tags = <<g1>>],
     [Ask("update", f) EXCEPT !.name = n1, !.needs = "portfolio"],
     [Ask("update", s) EXCEPT !.tags = <<g1, g2>>],
     [Ask("update", s) EXCEPT !.tags = <<>>],
     [Ask("move", s) EXCEPT !.type = t2],
     [Ask("type", s) EXCEPT !.type = t2],
     [Ask("assign", s) EXCEPT !.tags = <<g1>>],
     [Ask("assign", f) EXCEPT !.tags = <<g2, g1>>],
     [Ask("assign", s) EXCEPT !.tags = <<>>],
     [Ask("unassign", f) EXCEPT !.tags = <<>>],
     [Ask("unassign", s) EXCEPT !.tags = <<g2, g1>>]}
=============================================================================
