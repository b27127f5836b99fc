------------------------ MODULE MCCableProvisioning ------------------------
(* The same three fibers on two rear ports at either device, the larger    *)
(* one last at A and first at B, and a second panel at A with one for all. *)
EXTENDS CableProvisioning

MCPanel == [small_large |-> [end |-> "A", rears |-> <<1, 2>>],
            whole       |-> [end |-> "A", rears |-> <<3>>],
            large_small |-> [end |-> "B", rears |-> <<2, 1>>]]

\* A registry with holes: no trunk of two-fiber connectors.
MCRegistered == {<<"single", 1, 1>>, <<"single", 1, 2>>, <<"single", 1, 3>>, <<"trunk", 2, 1>>}
=============================================================================
