------------------------------ MODULE FaultRoute ------------------------------
(***************************************************************************)
(* Where on its cable's route a fault lies: the legs of the route turned   *)
(* to follow each other, slack coils placed between them, and a distance   *)
(* from the A end placed on a leg.                                         *)
(*                                                                         *)
(* Lengths are integers.  The route's scale factor is a fraction, so       *)
(* positions along the cable are held multiplied by the drawn length.      *)
(***************************************************************************)
EXTENDS Integers, Sequences, FiniteSets, SequencesExt, FiniteSetsExt

CONSTANTS
    Place,       \* structures and locations
    Pathway,
    EndsOf,      \* EndsOf[p]: the two places pathway p joins, as <<start, end>>
    LengthOf,    \* LengthOf[p]: its length; 0 when it has none
    EndA,        \* the places of the cable's A end
    CableLength, \* lengths the cable may be recorded with
    MaxLeg,      \* bound: segments of the route
    MaxCoil      \* bound: slack coiled at one place

ASSUME FaultRouteAssumption ==
    /\ EndsOf \in [Pathway -> Place \X Place]
    /\ LengthOf \in [Pathway -> Nat]
    /\ EndA \subseteq Place
    /\ CableLength \subseteq Nat \ {0}
    /\ {MaxLeg, MaxCoil} \subseteq Nat

VARIABLES
    route,   \* the cable's segments in route order: their pathways
    turned,  \* pathways drawn from their end to their start
    coiled,  \* coiled[x]: slack looped at place x
    length   \* recorded length of the cable

routeVars == <<route, turned, coiled, length>>

RouteTypeOK ==
    /\ route \in Seq(Pathway) /\ Len(route) <= MaxLeg
    /\ turned \subseteq Pathway
    /\ coiled \in [Place -> 0 .. MaxCoil]
    /\ length \in CableLength

(***************************************************************************)
(* Legs.                                                                   *)
(***************************************************************************)

Drawn(p) == IF p \in turned THEN Reverse(EndsOf[p]) ELSE EndsOf[p]

Joined(p, q) == Range(EndsOf[p]) \cap Range(EndsOf[q]) # {}

\* A segment after a gap has no length.
Leg(i) ==
    [pathway |-> route[i],
     length  |-> IF i > 1 /\ ~Joined(route[i - 1], route[i]) THEN 0 ELSE LengthOf[route[i]],
     starts  |-> {Drawn(route[i])[1]},
     ends    |-> {Drawn(route[i])[2]}]

Flip(leg) == [leg EXCEPT !.starts = leg.ends, !.ends = leg.starts]

\* _starting_at: turned to start at the places, as drawn unless only its end is there.
StartingAt(leg, places) ==
    IF leg.ends \cap places # {} /\ leg.starts \cap places = {} THEN Flip(leg) ELSE leg

\* Mutant: a lone leg is left as drawn.
LoneAsDrawn(legs) ==
    IF Len(legs) = 1 THEN legs[1]
    ELSE Flip(StartingAt(Flip(legs[1]), legs[2].starts \cup legs[2].ends))

\* The first leg starts at the A end when it is alone, and ends at the joint
\* with the second when it is not.
FirstLeg(legs) ==
    IF Len(legs) = 1 THEN StartingAt(legs[1], EndA)
    ELSE Flip(StartingAt(Flip(legs[1]), legs[2].starts \cup legs[2].ends))

\* _oriented
Oriented(legs) ==
    IF legs = <<>> THEN <<>>
    ELSE FoldLeft(LAMBDA acc, leg : Append(acc, StartingAt(leg, Last(acc).ends)),
                  <<FirstLeg(legs)>>, Tail(legs))

\* route_legs
RouteLegs == Oriented([i \in DOMAIN route |-> Leg(i)])

(***************************************************************************)
(* Slack and the walk along the cable.                                     *)
(***************************************************************************)

\* What meets before leg i + 1, and at the far end.
Boundary(legs, i) ==
    CASE i = 0         -> legs[1].starts
      [] i = Len(legs) -> legs[i].ends
      [] OTHER         -> legs[i].ends \cap legs[i + 1].starts

\* A coil is placed when its place is at exactly one boundary.
PlacedAt(legs, x) ==
    LET hits == {i \in 0 .. Len(legs) : x \in Boundary(legs, i)}
    IN  IF Cardinality(hits) = 1 THEN hits ELSE {}

\* _placed_slack: what is coiled at the boundaries up to i.
SlackTo(legs, i) ==
    MapThenSumSet(LAMBDA x : coiled[x], {x \in Place : \E j \in PlacedAt(legs, x) : j <= i})

DrawnTo(legs, i) == MapThenSumSet(LAMBDA j : legs[j].length, 1 .. i)
Whole(legs) == DrawnTo(legs, Len(legs))

\* Mutant: the scale leaves the coils in.
AllCable(legs) == length

\* Cable left to lay along the legs: the factor is Laid over Whole.
Laid(legs) == length - SlackTo(legs, Len(legs))

\* _route_problem and the factor
Walkable(legs) ==
    /\ legs # <<>>
    /\ \A i \in DOMAIN legs : legs[i].length > 0
    /\ Laid(legs) > 0

\* _walk: where leg i starts and ends, and where the far coil ends.
From(legs, i) == SlackTo(legs, i - 1) * Whole(legs) + DrawnTo(legs, i - 1) * Laid(legs)
To(legs, i) == SlackTo(legs, i - 1) * Whole(legs) + DrawnTo(legs, i) * Laid(legs)
FarEnd(legs) == SlackTo(legs, Len(legs)) * Whole(legs) + Whole(legs) * Laid(legs)

OffRoute == 0

\* locate_on_route, for the point num / den from the A end: a coil counts with
\* the leg before it.
LocateOnRoute(legs, num, den) ==
    LET at == num * Whole(legs)
        reached == {i \in DOMAIN legs : at <= den * To(legs, i)}
        i == Min(reached)
    IN  IF ~Walkable(legs) THEN OffRoute
        ELSE IF reached # {} THEN IF i > 1 /\ at <= den * From(legs, i) THEN i - 1 ELSE i
        ELSE IF at <= den * FarEnd(legs) THEN Len(legs) ELSE OffRoute

\* Mutant: the start of the leg, for its middle.
LegStart(legs, p) ==
    LET i == Min({j \in DOMAIN legs : legs[j].pathway = p})
    IN  2 * From(legs, i)

\* pathway_midpoint: twice Whole times the distance.
PathwayMidpoint(legs, p) ==
    LET i == Min({j \in DOMAIN legs : legs[j].pathway = p})
    IN  From(legs, i) + To(legs, i)

(***************************************************************************)
(* The records change under the faults.                                    *)
(***************************************************************************)

RouteInit ==
    /\ route = <<>> /\ turned = {}
    /\ coiled = [x \in Place |-> 0]
    /\ length \in CableLength

AddSegment(p) ==
    /\ Len(route) < MaxLeg
    /\ route' = Append(route, p)
    /\ UNCHANGED <<turned, coiled, length>>

Redraw(p) ==
    /\ turned' = (turned \ {p}) \cup ({p} \ turned)
    /\ UNCHANGED <<route, coiled, length>>

Coil(x, n) ==
    /\ coiled[x] # n
    /\ coiled' = [coiled EXCEPT ![x] = n]
    /\ UNCHANGED <<route, turned, length>>

RouteNext ==
    \/ \E p \in Pathway : AddSegment(p) \/ Redraw(p)
    \/ \E x \in Place, n \in 0 .. MaxCoil : Coil(x, n)

(***************************************************************************)
(* Properties.                                                             *)
(***************************************************************************)

\* The ways along the route that visit no place twice: several legs follow each
\* other one way only, a lone leg is followed from the A end.
Walks ==
    {walk \in [1 .. Len(route) + 1 -> Place] :
        /\ IsInjective(walk)
        /\ \A i \in DOMAIN route : Range(EndsOf[route[i]]) = {walk[i], walk[i + 1]}
        /\ Len(route) = 1 => walk[1] \in EndA /\ walk[2] \notin EndA}

\* "The way a pathway is drawn does not matter" (docs/user-guide/fiber-faults.md):
\* _oriented turns every leg of a route that revisits no place to follow the
\* route, a lone leg from the A end, whatever their drawing, so that every coil on
\* it is placed.
DrawingIrrelevant ==
    LET legs == RouteLegs IN
    route # <<>> => \A walk \in Walks :
        /\ \A i \in DOMAIN legs : legs[i].starts = {walk[i]} /\ legs[i].ends = {walk[i + 1]}
        /\ \A x \in Place :
            Cardinality(PlacedAt(legs, x)) = IF \E p \in Range(route) : x \in Range(EndsOf[p]) THEN 1 ELSE 0

\* Every point of the cable is on the route and none past its end is, points
\* further along are on the same leg or a later one, and no leg is skipped for
\* good: scaling and coils account for the whole cable.
CableCoversRoute ==
    LET legs == RouteLegs
        at == [d \in 0 .. length |-> LocateOnRoute(legs, d, 1)]
    IN  Walkable(legs) =>
            /\ \A d \in 0 .. length : at[d] # OffRoute
            /\ LocateOnRoute(legs, length + 1, 1) = OffRoute
            /\ at[length] = Len(legs)
            /\ \A d \in 1 .. length : at[d - 1] <= at[d]

\* A pathway picked in the fault form is the pathway the fault is then shown on
\* (forms.py:1078, fault_map.py:58): the middle of its first leg locates to it.
PickedIsShown ==
    LET legs == RouteLegs IN
    Walkable(legs) =>
        \A i \in DOMAIN legs :
            LET p == legs[i].pathway
            IN  legs[LocateOnRoute(legs, PathwayMidpoint(legs, p), 2 * Whole(legs))].pathway = p
===============================================================================
