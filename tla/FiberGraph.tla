---------------------------- MODULE FiberGraph ----------------------------
(***************************************************************************)
(* path_graph.py: the region of the plant that an analysis loads around    *)
(* some devices, the port graph built from it, the shapes it quarantines   *)
(* and the chains walked in the rest.                                      *)
(*                                                                         *)
(* A node of the graph is a front port or one position of a rear port; the *)
(* numbers order them as the code sorts them.  A hop is a strand or, where *)
(* no strand is landed, a cable.  Provider circuits and the planned flag   *)
(* are left out.                                                           *)
(***************************************************************************)
EXTENDS Integers, Sequences, FiniteSets, SequencesExt

CONSTANTS
    FrontPort,   \* front ports, numbered
    RearPos,     \* rear-port positions, numbered after the front ports
    DeviceOf,    \* DeviceOf[n]: the device of a port
    Behind,      \* Behind[q]: the rear-port position front port q is mapped to
    Terminated,  \* front ports of a type other than splice, or patched to an interface
    Cable,       \* cables between rear ports
    Positions,   \* Positions[k]: the pairs of positions cable k joins, side A first
    Strand,      \* strands, numbered after the ports
    CableOf,     \* CableOf[s]: the cable of strand s
    Jumper       \* splice jumpers and patch cords: pairs of sets of front ports

Node == FrontPort \cup RearPos
Device == {DeviceOf[n] : n \in Node}
Hop == Strand \cup Cable
NoPort == 0

ASSUME FiberGraphAssumption ==
    /\ Node \subseteq Nat \ {NoPort} /\ IsFiniteSet(Node)
    /\ \A q \in FrontPort, x \in RearPos : q < x
    /\ DOMAIN DeviceOf = Node
    /\ Behind \in [FrontPort -> RearPos]
    /\ \A q, r \in FrontPort : Behind[q] = Behind[r] => q = r
    /\ Terminated \subseteq FrontPort
    /\ Positions \in [Cable -> SUBSET (RearPos \X RearPos)]
    /\ Strand \subseteq Nat /\ IsFiniteSet(Strand) /\ \A s \in Strand, n \in Node : n < s
    /\ CableOf \in [Strand -> Cable]
    /\ Strand \cap Cable = {}
    /\ Jumper \subseteq (SUBSET FrontPort) \X (SUBSET FrontPort)

\* What the tables say: the cables that exist, those with a FiberCable, the sides
\* a cable is terminated on, where strands land, the jumpers, the open faults.
Plant == [cables : SUBSET Cable, fiber : SUBSET Cable,
          sides : [Cable -> SUBSET {"A", "B"}],
          landed : [Strand -> [{"A", "B"} -> FrontPort \cup {NoPort}]],
          jumpers : SUBSET Jumper, faults : SUBSET Hop]

(***************************************************************************)
(* The region: devices are expanded along cables as long as a fiber can    *)
(* continue on them.                                                       *)
(***************************************************************************)

EndDevices(k) == [A |-> {DeviceOf[x[1]] : x \in Positions[k]},
                  B |-> {DeviceOf[x[2]] : x \in Positions[k]}]

\* cable_device_ids, of a trunk and of a jumper
CableDevices(plant, k) == UNION {EndDevices(k)[side] : side \in plant.sides[k]}
JumperPorts(j) == j[1] \cup j[2]
JumperDevices(j) == {DeviceOf[q] : q \in JumperPorts(j)}

StrandsIn(plant, cables) == {s \in Strand : CableOf[s] \in cables \cap plant.fiber}
Landings(plant, s) == {plant.landed[s]["A"], plant.landed[s]["B"]} \ {NoPort}

\* The devices one cable away from devs.
Beside(plant, devs) ==
    LET ends == {CableDevices(plant, k) : k \in plant.cables}
                \cup {JumperDevices(j) : j \in plant.jumpers}
    IN  UNION {e \in ends : e \cap devs # {}}

\* _continuing_devices: a front-port cable ends on the device.
Continuing(plant, d) == \E j \in plant.jumpers : d \in JumperDevices(j)

Expanded(plant, seeds) ==
    LET grow[devs \in SUBSET Device] ==
          LET more == devs \cup {d \in Beside(plant, devs) : Continuing(plant, d)}
          IN  IF more = devs THEN devs ELSE grow[more]
    IN  grow[seeds]

(***************************************************************************)
(* The graph of a region.                                                  *)
(***************************************************************************)

\* _crossing_hops: the strands landed on the two sides of a crossing.
StrandsAt(plant, devs, cables, x) ==
    {s \in StrandsIn(plant, cables) :
        \E q \in Landings(plant, s) : Behind[q] = x /\ DeviceOf[q] \in devs}

Crossing(plant, devs, cables) ==
    UNION {{[cable |-> k, near |-> x[1], far |-> x[2],
             strands |-> IF k \notin plant.fiber THEN {}
                         ELSE StrandsAt(plant, devs, cables, x[1])
                              \cup StrandsAt(plant, devs, cables, x[2])]
              : x \in Positions[k]}
           : k \in {c \in cables : plant.sides[c] = {"A", "B"}}}

\* The crossings whose landings agree, with their one hop.
Agreed(crossings) ==
    {[link |-> {c.near, c.far},
      hop |-> IF c.strands = {} THEN c.cable ELSE CHOOSE s \in c.strands : TRUE]
       : c \in {d \in crossings : Cardinality(d.strands) <= 1}}

\* _load_strands and _quarantine: strands that land off their cable, disagree with
\* another one, or land on both ends and cross nothing.
Dangling(plant, cables, crossings) ==
    LET crossed == {c.hop : c \in Agreed(crossings)} IN
    {s \in StrandsIn(plant, cables) :
        \/ \E q \in Landings(plant, s) : DeviceOf[q] \notin CableDevices(plant, CableOf[s])
        \/ \E c \in crossings : s \in c.strands /\ Cardinality(c.strands) > 1
        \/ NoPort \notin {plant.landed[s]["A"], plant.landed[s]["B"]} /\ s \notin crossed}

\* load_plant
Load(plant, seeds) ==
    LET expanded == Expanded(plant, seeds)
        devs == expanded \cup Beside(plant, expanded)
        cables == {k \in plant.cables : CableDevices(plant, k) \cap expanded # {}}
        jumpers == {j \in plant.jumpers : JumperDevices(j) \cap devs # {}}
        crossings == Crossing(plant, devs, cables)
        dangling == Dangling(plant, cables, crossings)
        kept == {c \in Agreed(crossings) : c.hop \notin dangling}
    IN  [devices |-> devs,
         strands |-> StrandsIn(plant, cables),
         crossings |-> kept,
         links |-> {{q, Behind[q]} : q \in {r \in FrontPort : DeviceOf[r] \in devs}}
                   \cup (UNION {{{q, r} : q \in j[1], r \in j[2]} : j \in jumpers})
                   \cup {c.link : c \in kept},
         spliced |-> UNION {JumperPorts(j) : j \in jumpers},
         dangling |-> dangling]

(***************************************************************************)
(* Components, and those that are not chains.                              *)
(***************************************************************************)

Linked(g, n) == (UNION {l \in g.links : n \in l}) \ {n}

Component(g, n) ==
    LET grow[S \in SUBSET Node] ==
          LET more == S \cup UNION {l \in g.links : l \cap S # {}}
          IN  IF more = S THEN S ELSE grow[more]
    IN  grow[{n}]

Crossings(g, comp) == {c \in g.crossings : c.link \subseteq comp}

\* _is_branching, and a cycle: a port is mapped once, so only splices branch.
Quarantined(g, comp) ==
    \/ \E n \in comp : Cardinality(Linked(g, n)) > 2
    \/ Cardinality({l \in g.links : l \subseteq comp}) >= Cardinality(comp)

(***************************************************************************)
(* The walk.                                                               *)
(***************************************************************************)

CableEnd == [port |-> NoPort, kind |-> "open", reason |-> "cable_end"]

\* _open_reason: does another fiber of the same cable continue in this closure?
SiblingSpliced(plant, g, q) ==
    \E s \in g.strands : q \in Landings(plant, s)
        /\ \E t \in g.strands : CableOf[t] = CableOf[s]
             /\ \E r \in Landings(plant, t) \cap g.spliced :
                  r # q /\ DeviceOf[r] = DeviceOf[q]

\* classify_end
End(plant, g, n) ==
    IF n \notin FrontPort THEN CableEnd
    ELSE IF n \in Terminated \/ DeviceOf[n] \notin g.devices
    THEN [port |-> n, kind |-> "terminated", reason |-> ""]
    ELSE [port |-> n, kind |-> "open",
          reason |-> IF SiblingSpliced(plant, g, n) THEN "unspliced" ELSE "cable_end"]

\* _is_defective
Defective(plant, hops) ==
    \E h \in Range(hops) : \/ h \in plant.faults
                           \/ h \in Strand /\ CableOf[h] \in plant.faults

\* The nodes of a chain in order, from the lower of its two ends.
InOrder(g, comp) ==
    LET ends == {n \in comp : Cardinality(Linked(g, n)) <= 1}
        from == CHOOSE n \in ends : \A m \in ends : n <= m
        walk[path \in Seq(comp) \ {<<>>}] ==
          LET next == Linked(g, Last(path)) \ Range(path)
          IN  IF next = {} THEN path ELSE walk[Append(path, CHOOSE n \in next : TRUE)]
    IN  walk[<<from>>]

\* The k-th of a set of numbers.
Nth(I, k) == CHOOSE i \in I : Cardinality({j \in I : j <= i}) = k

HopsAlong(g, path) ==
    LET link(i) == {path[i], path[i + 1]}
        crossed == {i \in 1 .. Len(path) - 1 : \E c \in g.crossings : c.link = link(i)}
    IN  [k \in 1 .. Cardinality(crossed) |->
           (CHOOSE c \in g.crossings : c.link = link(Nth(crossed, k))).hop]

\* rank: the place of the chain in the order the walker emits them.
Chain(plant, hops, a, b, rank) ==
    [hops |-> hops, a |-> a, b |-> b, bad |-> Defective(plant, hops), rank |-> rank]

\* walk_from: the one fiber of a component, or its half-landed strands.
ChainsIn(plant, g, comp, first) ==
    IF Quarantined(g, comp) THEN {}
    ELSE IF Crossings(g, comp) # {}
    THEN LET path == InOrder(g, comp)
         IN  {Chain(plant, HopsAlong(g, path), End(plant, g, path[1]),
                    End(plant, g, Last(path)), <<first, 0>>)}
    ELSE {Chain(plant, <<l[1]>>, End(plant, g, l[2]), CableEnd, <<first, l[2]>>)
            : l \in {m \in (g.strands \ g.dangling) \X (comp \cap FrontPort) :
                       /\ m[2] \in Landings(plant, m[1])
                       /\ \A c \in g.crossings : c.hop # m[1]}}

\* orphan_chains
Orphans(plant, g) ==
    {Chain(plant, <<s>>, CableEnd, CableEnd, <<s, 0>>)
       : s \in {t \in g.strands : Landings(plant, t) = {}}}

\* walk_nodes
Walk(plant, g, starts) ==
    LET comps == {Component(g, n) : n \in starts}
        First(comp) == CHOOSE n \in comp \cap starts : \A m \in comp \cap starts : n <= m
    IN  (UNION {ChainsIn(plant, g, comp, First(comp)) : comp \in comps}) \cup Orphans(plant, g)

\* walk_all
WalkAll(plant, g) ==
    Walk(plant, g, (UNION g.links) \cup (UNION {Landings(plant, s) : s \in g.strands}))
=============================================================================
