---------------------------- MODULE MCRunHistory ----------------------------
(***************************************************************************)
(* Model-checking instances of RunHistory: two POSTs, of four steps and    *)
(* three log lines.                                                        *)
(***************************************************************************)
EXTENDS RunHistory

CONSTANTS loss, acc, s1, s2

Logged(step, keys) == [file |-> "history", num |-> step, keys |-> keys]
Printed(line)      == [file |-> "log", num |-> line]

TwoPosts ==
    <<[history |-> <<Logged(0, {loss, acc}), Logged(1, {loss})>>, log |-> <<Printed(0), Printed(1)>>],
      [history |-> <<Logged(3, {loss}), Logged(2, {})>>, log |-> <<Printed(2)>>]>>

\* The handlers of POSTs differ in nothing but their names.
Handlers == Permutations(Slots)
=============================================================================
