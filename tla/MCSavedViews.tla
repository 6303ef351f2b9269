---------------------------- MODULE MCSavedViews ----------------------------
(***************************************************************************)
(* Model-checking instances of SavedViews: two views x and y, two runs.    *)
(***************************************************************************)
EXTENDS SavedViews

CONSTANTS x, y

TwoViews == <<x, y>>

Ask(op, v, fields) == [op |-> op, view |-> v, fields |-> fields]

Mixed ==
    {Ask("create", None, {"name"}),
     Ask("update", x, {"name"}), Ask("update", x, {"spec"}),
     Ask("delete", x, {}), Ask("delete", y, {})}
=============================================================================
