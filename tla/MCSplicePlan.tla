---------------------------- MODULE MCSplicePlan ----------------------------
(* A closure with five ports in a row for TLC. *)
EXTENDS SplicePlan, TLC

CONSTANTS a, b, c, u, v

\* a - b - c - u - v: c may be spliced two ways, u and v are on no tray.
MCPair == {<<a, b>>, <<b, c>>, <<c, u>>, <<u, v>>}

\* Plans are interchangeable.
PlanSymmetry == Permutations(Plan)
=============================================================================
