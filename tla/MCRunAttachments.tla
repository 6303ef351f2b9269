-------------------------- MODULE MCRunAttachments --------------------------
(***************************************************************************)
(* Model-checking instances of RunAttachments: runs a and b are there, c   *)
(* appears; a shows the name of b, and b the name of c.                    *)
(***************************************************************************)
EXTENDS RunAttachments

CONSTANTS a, b, c, f, g, art

ThreeRuns == <<a, b, c>>
Names     == [n \in {a, b, c} |-> CASE n = a -> "a" [] n = b -> "b" [] OTHER -> "c"]
Displays  == [n \in {a, b, c} |-> CASE n = a -> "b" [] n = b -> "c" [] OTHER -> "c"]

Want(name, list) == [op |-> "files", run |-> name, files |-> list]
Using(name, id)  == [op |-> "use", run |-> name, art |-> id]

Mixed ==
    {Want("a", <<f>>), Want("b", <<f, g>>), Want("c", <<g, f>>),
     Using("b", art), Using("a", art), Using("c", Unknown)}
=============================================================================
