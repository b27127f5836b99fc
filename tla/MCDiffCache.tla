----------------------------- MODULE MCDiffCache -----------------------------
(* A closure with three ports in a row for TLC. *)
EXTENDS DiffCache, TLC

CONSTANTS c, u, v

\* c - u - v: u may be spliced two ways, and v, which is on no tray, may be put first.
MCPair == {<<c, u>>, <<u, v>>, <<v, u>>}

\* A client claims that nothing is left to do.
MCSent == {[add |-> {}, remove |-> {}]}

\* Plans are interchangeable.
PlanSymmetry == Permutations(Plan)
=============================================================================
