-------------------------------- MODULE Faults --------------------------------
(***************************************************************************)
(* A fault's record and the two computations behind its location: the OTDR *)
(* estimate along a strand path and the place of a distance on the cable's *)
(* route.  The record takes estimates as a constant and the computations   *)
(* share no records, so each is varied while the others are as they start. *)
(***************************************************************************)
EXTENDS FaultRoute, FaultShot, FaultRecord

vars == <<routeVars, shotVars, recordVars>>

Init == RouteInit /\ ShotInit /\ RecordInit

\* One start of each stands for all while another is varied.
RouteParked == RouteInit /\ length = Min(CableLength)
ShotParked == ShotInit /\ stops = <<NoDevice>>
RecordParked == RecordInit /\ row.cable = Min(Cable) /\ net = Min(Network)

Next ==
    \/ RouteNext /\ ShotParked /\ RecordParked /\ UNCHANGED <<shotVars, recordVars>>
    \/ ShotNext /\ RouteParked /\ RecordParked /\ UNCHANGED <<routeVars, recordVars>>
    \/ RecordNext /\ RouteParked /\ ShotParked /\ UNCHANGED <<routeVars, shotVars>>

Spec == Init /\ [][Next]_vars

TypeOK == RouteTypeOK /\ ShotTypeOK /\ RecordTypeOK
===============================================================================
