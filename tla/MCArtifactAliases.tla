-------------------------- MODULE MCArtifactAliases --------------------------
(***************************************************************************)
(* Model-checking instances of ArtifactAliases: two versions of one        *)
(* sequence, one portfolio, one name users choose.                         *)
(***************************************************************************)
EXTENDS ArtifactAliases, TLC

CONSTANTS a1, a2, s1, p1, prod

TwoVersions  == (a1 :> 0) @@ (a2 :> 1)
OneSequence  == (a1 :> s1) @@ (a2 :> s1)

Prod(c)      == <<c, <<"user", prod>>>>
MissingLists == {{}, {Prod(s1), Prod(p1)}}
AutoLists    == {{}, {<<s1, V(0)>>}, {Prod(s1), <<s1, Latest>>}}

Symmetric    == Permutations(Requests)
=============================================================================
