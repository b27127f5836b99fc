------------------------ MODULE MCCircuitAssignment ------------------------
(* Small instances of CircuitAssignment for TLC. *)
EXTENDS CircuitAssignment, TLC

CONSTANTS h1, h2, h3

\* h1 and h2 run between the same end strands, h3 elsewhere.
MCEndStrands == [h \in Hops |-> CASE h = Cut -> "none" [] h = h3 -> "f" [] OTHER -> "e"]

\* Circuits and paths are each interchangeable.
CircuitSymmetry == Permutations(Circuit) \cup Permutations(Path)
=============================================================================
