---------------------------- MODULE MCClosureTrays ----------------------------
(* Two cables, one with two tubes, one strand a tube; a tray for two strands  *)
(* and one for one tube.                                                      *)
EXTENDS ClosureTrays

MCCableOf == [t \in Tube |-> IF t = "b1" THEN "B" ELSE "A"]
MCPositionOf == [t \in Tube |-> IF t = "a2" THEN 2 ELSE 1]
MCStrandsOf == [t \in Tube |-> CASE t = "a1" -> {1} [] t = "b1" -> {2} [] t = "a2" -> {3}]
MCTypeOf == [m \in Tray |-> IF m = 1 THEN "small" ELSE "single"]
MCSpliceCap == [y \in TrayType |-> IF y = "small" THEN 1 ELSE 2]
MCTubeCap == [y \in TrayType |-> IF y = "small" THEN NoLimit ELSE 1]

Sym == Permutations(User)
==============================================================================
