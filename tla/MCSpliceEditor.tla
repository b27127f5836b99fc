---------------------------- MODULE MCSpliceEditor ----------------------------
(* A small closure for SpliceEditor: tubes A on the left, B and C on the     *)
(* right; B is on no tray yet, and the last strand carries a circuit.        *)
EXTENDS SpliceEditor, TLC

MCStrand == 1 .. 5
MCTubeOf == <<"A", "A", "B", "C", "C">>
MCTrayOf == [A |-> "T1", B |-> "no tray", C |-> "T3"]
MCLive == {{1, 3}}
PageSymmetry == Permutations(Page)
=============================================================================
