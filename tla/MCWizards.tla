------------------------------ MODULE MCWizards ------------------------------
(* Fourteen paths over five routes from device 1.  To device 3: over 2, by    *)
(* cables 11 and 12, the second stored from 3 to 2; direct by 13; direct by   *)
(* 14, whose strand 2 is on another rear port than 1 and 3; over 2 by 15,     *)
(* stored from 2 to 1 and with two rear ports a side, and 16, where path 12   *)
(* crosses 15 as a plain cable and sorts between its neighbours.  To device   *)
(* 4: by 11, a leased circuit from 2 to 3, and 17, stored from 4 to 3.        *)
EXTENDS Wizards
Hop(cable, position, rear, slot, ends) == [cable |-> cable, position |-> position, slot |-> <<rear, slot>>, ends |-> ends]
NoStrand(cable, ends) == [cable |-> cable, position |-> 0, slot |-> NoSlot, ends |-> ends]
Over2(a, b, rear, slot) == <<Hop(11, a, 110, a, <<1, 2>>), Hop(12, b, rear, slot, <<3, 2>>)>>
Direct(a) == <<Hop(13, a, 130, a, <<1, 3>>)>>
Crossed(a, rear, slot) == <<Hop(14, a, rear, slot, <<1, 3>>)>>
Over15(first, a) == <<first, Hop(16, a, 160, a, <<2, 3>>)>>
Tabs == Permutations(Tab)
MCFaultSite == {<<2, 11>>}
MCPath == 1..14
MCHopsOf ==
    <<Over2(2, 2, 120, 2), Over2(3, 3, 121, 1), Over2(1, 1, 120, 1), Direct(1), Direct(2), Direct(3), Direct(4),
      Crossed(1, 140, 1), Crossed(2, 141, 1), Crossed(3, 140, 2),
      Over15(Hop(15, 1, 150, 1, <<2, 1>>), 5), Over15(NoStrand(15, <<2, 2, 1, 1>>), 1), Over15(Hop(15, 2, 150, 2, <<2, 1>>), 6),
      <<Hop(11, 4, 110, 4, <<1, 2>>), NoStrand(0, <<>>), Hop(17, 1, 170, 1, <<4, 3>>)>>>>
MCWalkOf == [p \in MCPath |-> IF p = 14 THEN <<1, 2, 3, 4>> ELSE IF p \in 1..3 \cup 11..13 THEN <<1, 2, 3>> ELSE <<1, 3>>]
MCEndA == [p \in MCPath |-> 1]
MCEndB == [p \in MCPath |-> CASE p = 6 -> NoDevice [] p = 14 -> 4 [] OTHER -> 3]
MCBelongsTo == [x \in 1..4 \cup 11..17 |-> IF x = 2 THEN {21} ELSE IF x = 13 THEN {22} ELSE {}]
MCCircuitForm == {[count |-> 2, status |-> "active"], [count |-> 1, status |-> "planned"]}
Ask(through, avoid, incomplete) == [through |-> through, avoid |-> avoid, endsAt |-> {1}, incomplete |-> incomplete]
MCFilterForm == {Ask(<<2, 3>>, {15}, FALSE), Ask(<<>>, {21, 14}, TRUE)}
MCQuery ==
    {Ask(<<2, 3>>, {}, FALSE), Ask(<<3, 2>>, {}, FALSE), Ask(<<2, 1>>, {}, FALSE), Ask(<<4, 3>>, {}, FALSE), Ask(<<>>, {21}, TRUE),
     Ask(<<>>, {22, 11, 15}, FALSE), Ask(<<>>, {22, 11, 14}, FALSE), Ask(<<>>, {12, 14}, FALSE)}
=============================================================================
