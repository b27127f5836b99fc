------------------------------- MODULE MCFaults -------------------------------
(* Four places in a line and a side branch that closes a loop; two cables,   *)
(* measured twice: one estimate differs, another fails.                      *)
EXTENDS Faults

CONSTANTS d1, d2, d3, u1, u2

MCEndsOf ==
    [p \in Pathway |-> CASE p = "wx" -> <<"w", "x">> [] p = "xy" -> <<"x", "y">>
                         [] p = "yz" -> <<"y", "z">> [] p = "wy" -> <<"w", "y">>]
MCLengthOf == [p \in Pathway |-> CASE p = "wx" -> 1 [] p = "xy" -> 2 [] p = "yz" -> 0 [] p = "wy" -> 3]

Mark == {"mark"}
Shot == {"origin", "distance"}
OnStrand == Shot \cup {"strand"}
MCEntered == {{}, Mark, OnStrand}

Given == {<<Mark, 1, 1, 1>>, <<Mark, 1, 2, 2>>, <<Mark, 2, 1, 2>>, <<Mark, 2, 2, 2>>,
          <<Shot, 1, 1, 2>>, <<OnStrand, 1, 1, 1>>, <<OnStrand, 2, 2, 1>>}

MCEstimateOf ==
    [e \in Evidence |-> [c \in Cable |-> [n \in Network |->
        IF \E d \in Distance : <<e, c, n, d>> \in Given
        THEN CHOOSE d \in Distance : <<e, c, n, d>> \in Given ELSE Unset]]]

Alike == Permutations(User)
===============================================================================
