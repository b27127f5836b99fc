---------------------------- MODULE MCPathStore ----------------------------
(* A fiber through two closures and a plain cable, for TLC. *)
EXTENDS TraceHops

\* Ports 1, 2 at the head, 3 to 5 in the first closure, 6 and 7 in the second, 8
\* at the tail; the positions of the rear ports behind them are 11 to 18.
MCDeviceOf ==
    [n \in 1 .. 8 \cup 11 .. 18 |->
        LET q == IF n > 10 THEN n - 10 ELSE n
        IN  CASE q <= 2 -> "head" [] q \in 3 .. 5 -> "first" [] q \in 6 .. 7 -> "second"
              [] OTHER -> "tail"]
MCEntry == {{3, 5}, {3, 4}}
MCBehind == [q \in 1 .. 8 |-> q + 10]

\* Cables 41 and 42 carry strands, 43 is plain.
MCPositions ==
    [k \in 41 .. 43 |-> CASE k = 41 -> {<<11, 13>>, <<12, 14>>}
                          [] k = 42 -> {<<15, 16>>}
                          [] k = 43 -> {<<17, 18>>}]
MCCableOf == [s \in 31 .. 33 |-> IF s <= 32 THEN 41 ELSE 42]

\* Splices, one that turns a fiber back, a patch at the head that closes it into a
\* loop, and a fan-out.
MCJumper == {<<{3}, {5}>>, <<{4}, {5}>>, <<{3}, {4}>>, <<{1}, {2}>>, <<{3, 4}, {5}>>, <<{6}, {7}>>}

Sides(a, b) == [side \in {"A", "B"} |-> IF side = "A" THEN a ELSE b]
AllLanded == [s \in 31 .. 33 |-> CASE s = 31 -> Sides(1, 3) [] s = 32 -> Sides(2, 4)
                                   [] s = 33 -> Sides(5, 6)]
MCMayLand == [s \in 31 .. 33 |-> [side \in {"A", "B"} |->
                IF s = 33 THEN {} ELSE {AllLanded[s][side]}]]

\* Spliced through; a fan-out to remove; a loop, with a cable that ends in the air.
MCInitialPlant ==
    {[cables |-> 41 .. 43, fiber |-> {41, 42},
      sides |-> [k \in 41 .. 43 |-> IF k = loose THEN {"B"} ELSE {"A", "B"}],
      landed |-> AllLanded, jumpers |-> jumpers, faults |-> {}]
       : <<loose, jumpers>> \in {<<NoPort, {<<{3}, {5}>>, <<{6}, {7}>>}>>,
                                <<NoPort, {<<{3, 4}, {5}>>, <<{6}, {7}>>}>>,
                                <<42, {<<{3}, {4}>>, <<{1}, {2}>>, <<{6}, {7}>>}>>}}

\* The plants meet the hypothesis of the theorems; so do those reached, as MayLand
\* gives every end of a strand one port.
ASSUME MCCrossesOnce == \A pl \in MCInitialPlant : CrossesOnce(pl)
=============================================================================
