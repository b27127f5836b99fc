----------------------------- MODULE MCPortNames -----------------------------
(* Two cables between two devices: one with a tube a strand, one without.    *)
EXTENDS PortNames
MCDevice == {"X", "Y"}
MCEndsOf == [c \in 1..2 |-> [e \in End |-> IF (c = 1) = (e = "A") THEN "X" ELSE "Y"]]
MCTubeOf == <<<<1, 2>>, <<0>>>>
MCRibbonOf == <<<<0, 0>>, <<0>>>>
MCPanelAt == [d \in MCDevice |-> IF d = "X" THEN 2 ELSE 0]
MCFrontSchemes == {Unset, {"strand"}, {"cable", "strand"}, {"cable"}, Broken}
MCRearSchemes == {Unset, {"cable", "tube"}}
MCLabelScheme == [front |-> {"cable", "strand", "tray"}, rear |-> {"cable", "tube"}]
=============================================================================
