------------------------------ MODULE FaultShot -------------------------------
(***************************************************************************)
(* The OTDR estimate: a shot of some distance from a device, walked along  *)
(* the shot strand's path to the fault's cable.                            *)
(*                                                                         *)
(* The path is a line of hops between devices, given with the way each     *)
(* cable lies, which the code has to find out from its ends.  A hop ends   *)
(* at no device where a provider circuit begins, or where a strand at the  *)
(* end of the path has no port.  Cables end where their strands do, and a  *)
(* path crosses a cable once.                                              *)
(***************************************************************************)
EXTENDS Integers, Sequences, FiniteSets, SequencesExt, FiniteSetsExt

CONSTANTS
    Device,
    NoDevice,
    HopLength,  \* lengths cables are recorded with
    NoLength,   \* a cable without a recorded length
    MaxHop,     \* bound: hops of the path
    MaxShot     \* bound: OTDR distance

ASSUME FaultShotAssumption ==
    /\ NoDevice \notin Device
    /\ HopLength \subseteq Nat \ {0} /\ NoLength \notin Nat /\ {MaxHop, MaxShot} \subseteq Nat

VARIABLES
    hops,    \* the hops of the path from its end A
    stops    \* stops[i] and stops[i + 1]: what hop i runs between

shotVars == <<hops, stops>>

\* "strand" of a fiber cable, plain "cable", or "provider" circuit;
\* backward: the A end is at the far side of the path.
Hop == [kind : {"strand", "cable"}, length : HopLength \cup {NoLength}, backward : BOOLEAN]
       \cup {[kind |-> "provider", length |-> NoLength, backward |-> FALSE]}

ShotTypeOK ==
    /\ hops \in Seq(Hop) /\ Len(hops) <= MaxHop
    /\ stops \in Seq(Device \cup {NoDevice}) /\ Len(stops) = Len(hops) + 1

(***************************************************************************)
(* The walk.                                                               *)
(***************************************************************************)

Ends(i) == IF hops[i].backward THEN <<stops[i + 1], stops[i]>> ELSE <<stops[i], stops[i + 1]>>

\* Devices of the hop's ends, A first; a provider circuit has none.
EndDevices(i) == SelectSeq(Ends(i), LAMBDA d : d # NoDevice)

\* Mutant: the ends are left A first.
AsRecorded(ends, previous) == ends

\* Ordered from end A of the path: reversed when the far one is where the hop
\* before ended.
InPathOrder(ends, previous) ==
    IF Len(ends) = 2 /\ ends[2] = previous THEN Reverse(ends) ELSE ends

\* path_hop_ends
HopEnds ==
    LET walk[i \in 0 .. Len(hops)] ==
            IF i = 0 THEN [ends |-> <<>>, previous |-> stops[1]]
            ELSE LET ends == InPathOrder(EndDevices(i), walk[i - 1].previous)
                 IN  [ends |-> ends, previous |-> IF ends = <<>> THEN walk[i - 1].previous ELSE Last(ends)]
    IN  [i \in DOMAIN hops |-> walk[i].ends]

\* _joints: the devices known before hop j + 1.
Joints ==
    LET ends == HopEnds
    IN  [j \in 0 .. Len(hops) |->
            {ends[i][1] : i \in {k \in DOMAIN hops : k = j + 1 /\ ends[k] # <<>>}}
            \cup {Last(ends[i]) : i \in {k \in DOMAIN hops : k = j /\ ends[k] # <<>>}}
            \cup ({stops[k] : k \in {1, Len(stops)} \cap {j + 1}} \ {NoDevice})]

\* Notes in place of a distance.
OffPath == -1    \* the origin is not on the path
Unknown == -2    \* a cable has no length
Elsewhere == -3  \* the shot lands on another cable, or beyond

\* _cable_end_at: terminations come A first.
CableEndAt(target, devices) ==
    CASE Ends(target)[1] \in devices -> "A"
      [] Ends(target)[2] \in devices -> "B"
      [] OTHER                             -> "none"

\* _land and _distance_on_cable
Land(target, remaining, devices) ==
    LET end == CableEndAt(target, devices)
        len == hops[target].length
    IN  CASE end = "none"    -> OffPath
          [] len = NoLength  -> Unknown
          [] remaining > len -> Elsewhere
          [] OTHER           -> IF end = "A" THEN remaining ELSE len - remaining

\* Joints from j to hop target.
Away(target, j) == IF j < target THEN target - 1 - j ELSE j - target

\* The hop where the distance runs out.
RunsOut(remaining, i) == remaining < hops[i].length

\* The hops from joint j to the target, nearest first, are walked off.
Subtract(remaining, i) ==
    IF remaining \in {Unknown, Elsewhere} THEN remaining
    ELSE IF hops[i].length = NoLength THEN Unknown
    ELSE IF RunsOut(remaining, i) THEN Elsewhere
    ELSE remaining - hops[i].length

\* estimate_from_otdr, for the cable of hop target
Estimate(target, origin, distance) ==
    LET joints == Joints
        at == {j \in 0 .. Len(hops) : origin \in joints[j]}
        nearest == Min({j \in at : \A k \in at : Away(target, j) <= Away(target, k)})
        earlier == IF nearest < target THEN [k \in 1 .. target - 1 - nearest |-> nearest + k]
                   ELSE [k \in 1 .. nearest - target |-> nearest + 1 - k]
        entry == IF nearest < target THEN joints[target - 1] ELSE joints[target]
        remaining == FoldLeft(Subtract, distance, earlier)
    IN  IF at = {} THEN OffPath
        ELSE IF remaining \in {Unknown, Elsewhere} THEN remaining
        ELSE Land(target, remaining, entry)

(***************************************************************************)
(* Paths grow hop by hop.                                                  *)
(***************************************************************************)

ShotInit == hops = <<>> /\ stops \in {<<d>> : d \in Device \cup {NoDevice}}

\* Mutant: a hop written without the device it ends at.
HopAlone(hop, d) ==
    /\ Len(hops) < MaxHop
    /\ hops' = Append(hops, hop)
    /\ UNCHANGED stops

\* A provider circuit lies between the cables that land on it.
AddHop(hop, d) ==
    /\ Len(hops) < MaxHop
    /\ hop.kind = "provider" <=> Last(stops) = NoDevice /\ hops # <<>> /\ Last(hops).kind # "provider"
    /\ hop.kind = "provider" => d = NoDevice
    /\ hops = <<>> /\ Last(stops) = NoDevice => hop.kind = "strand" /\ d # NoDevice
    /\ hops' = Append(hops, hop)
    /\ stops' = Append(stops, d)

ShotNext ==
    \E hop \in Hop, d \in Device \cup {NoDevice} : (d = Last(stops) => d = NoDevice) /\ AddHop(hop, d)

(***************************************************************************)
(* Properties.                                                             *)
(***************************************************************************)

\* The distance the shot covers before the cable of hop target, from the pass j
\* of the path through the origin, and whether it lands on that cable.
Between(target, j) == (IF j < target THEN j + 1 .. target - 1 ELSE target + 1 .. j)
Known(target, j) == \A i \in Between(target, j) \cup {target} : hops[i].length # NoLength
Covered(target, j) == MapThenSumSet(LAMBDA i : hops[i].length, Between(target, j))
LandsOn(target, j, distance) ==
    /\ Known(target, j)
    /\ Covered(target, j) <= distance /\ distance <= Covered(target, j) + hops[target].length

\* The point of the cable that far from pass j, from its A end.
PointFrom(target, j, distance) ==
    LET into == distance - Covered(target, j)
    IN  IF (j < target) = hops[target].backward THEN hops[target].length - into ELSE into

\* The path ends at a device or with a strand that has no port there.
WholePath ==
    Last(stops) # NoDevice \/ (Last(hops).kind = "strand" /\ stops[Len(hops)] # NoDevice)

\* "The remaining distance, counted from the end the walk entered, becomes the
\* distance from the A end" (docs/user-guide/fiber-faults.md).  Where the shot
\* lands follows from the line alone: the nearest pass of the origin, the
\* lengths between and the way the cable lies.  An estimate is given exactly
\* when the shot lands on the cable, and it is that point.
ShotLandsOnPoint ==
    \A target \in DOMAIN hops, origin \in Range(stops) \ {NoDevice}, distance \in 0 .. MaxShot :
        hops[target].kind = "strand" /\ WholePath =>
            LET passes == {i - 1 : i \in {k \in DOMAIN stops : stops[k] = origin}}
                nearest == Min({j \in passes : \A k \in passes : Away(target, j) <= Away(target, k)})
                estimate == Estimate(target, origin, distance)
            IN  IF LandsOn(target, nearest, distance)
                THEN estimate = PointFrom(target, nearest, distance)
                ELSE estimate \in {OffPath, Unknown, Elsewhere}
===============================================================================
