-------------------------- MODULE MCPrepaidLedger --------------------------
(* Instances of PrepaidLedger for TLC.                                     *)
EXTENDS PrepaidLedger, TLC

(* Amounts in a request: refused, small, and more than what is there.      *)
SomeAmounts == {-1, 1, 3}

(* A top-up and a charge there were before. *)
OneRow == {[id |-> 1, amount |-> 1, after |-> 1]}

Symmetry == Permutations(Workers) \cup Permutations(Calls)
=============================================================================
