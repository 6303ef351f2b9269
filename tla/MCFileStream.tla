---------------------------- MODULE MCFileStream ----------------------------
(***************************************************************************)
(* Model-checking instances of FileStream.                                 *)
(***************************************************************************)
EXTENDS FileStream

OneAndTwo == [f \in Files |-> IF f \in Json THEN 1 ELSE 2]
=============================================================================
