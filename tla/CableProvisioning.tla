------------------------- MODULE CableProvisioning -------------------------
(***************************************************************************)
(* How a fiber cable gets its glass and its ports: a cable type's          *)
(* templates, the strands instantiated from them, the rear ports each end  *)
(* lands on, the strand-to-port links, the connector numbers the walker    *)
(* pairs the two ends by, and the cable profile derived from the type.     *)
(* netbox_fms/models.py, services.py and trace.py; NetBox's Cable.save() is *)
(* modelled as those files use it.                                         *)
(***************************************************************************)
EXTENDS Naturals, FiniteSets, FiniteSetsExt, Sequences, SequencesExt

CONSTANTS
    Panel,       \* [name -> [end, rears]]: the rear ports standing at the two devices, by size
    Declared,    \* FiberCableType.strand_count
    Registered,  \* the profile keys of NetBox and FIBER_CABLE_PROFILES
    MaxTemplate, \* bound on the templates of a type
    MaxStrand,   \* bound on the strands of a type
    MaxFiber     \* bound on the fibers of one template

ASSUME ProvisioningAssumption ==
    /\ \A p \in DOMAIN Panel : Panel[p].end \in {"A", "B"} /\ Panel[p].rears \in Seq(Nat \ {0})
    /\ \A key \in Registered : key \in {"single", "trunk"} \X Nat \X Nat
    /\ {Declared, MaxTemplate, MaxStrand, MaxFiber} \subseteq Nat

VARIABLES
    type,       \* [tubes: Seq([fibers, ribbons]), core]: the templates; core holds the ribbons of no tube
    cable,      \* "none", "bare" (a dcim.Cable) or "fiber" (it carries a FiberCable)
    strands,    \* the container of each strand, in position order
    at,         \* [end -> the panel the end lands on, or Nowhere]
    fresh,      \* [end -> sizes of the rear ports provisioning created there]
    connector,  \* [end -> [rear port -> connector number, 0 for NULL]]
    port,       \* [end -> [strand -> front port <<panel, rear port, position>>, or None]]
    profile,    \* Cable.profile, or None
    shown,      \* [end -> the mapping on an open confirm page, or None]
    settled     \* [end -> the end's connectors are as linking or creating it left them]

vars == <<type, cable, strands, at, fresh, connector, port, profile, shown, settled>>

None == <<>>
Nowhere == "nowhere"
End == {"A", "B"}

----------------------------------------------------------------------------
(* The type and what is made from it.                                      *)

TotalFiberCount(tube) ==
    IF tube.fibers > 0 THEN tube.fibers ELSE FoldLeft(+, 0, tube.ribbons)

RibbonStrands(t, ribbons) ==
    FlattenSeq([r \in DOMAIN ribbons |-> [i \in 1..ribbons[r] |-> <<"ribbon", t, r>>]])

TubeStrands(t) ==
    LET tube == type.tubes[t] IN
    IF tube.ribbons # <<>> THEN RibbonStrands(t, tube.ribbons)
    ELSE [i \in 1..tube.fibers |-> <<"tube", t>>]

Instantiated ==
    LET inTubes == FlattenSeq([t \in DOMAIN type.tubes |-> TubeStrands(t)]) IN
    IF type.core # <<>> THEN inTubes \o RibbonStrands(0, type.core)
    ELSE IF type.tubes # <<>> THEN inTubes
    ELSE [i \in 1..Declared |-> <<"cable">>]

Ribbons == type.core \o FlattenSeq([t \in DOMAIN type.tubes |-> type.tubes[t].ribbons])

ProfileOf(kind, sizes) ==
    LET key == <<kind, Len(sizes), sizes[1]>> IN
    IF Cardinality(ToSet(sizes)) = 1 /\ key \in Registered THEN key ELSE None

\* A mutant: connectors are counted by tube whatever the tubes hold.
ProfileByTubes ==
    IF type.tubes = <<>> THEN ProfileOf("single", <<Declared>>)
    ELSE ProfileOf("trunk", [t \in DOMAIN type.tubes |-> TotalFiberCount(type.tubes[t])])

GetCableProfile ==
    CASE Len(Ribbons) = 1 -> ProfileOf("single", Ribbons)
      [] Len(Ribbons) > 1 -> ProfileOf("trunk", Ribbons)
      [] Ribbons = <<>> /\ type.tubes = <<>> -> ProfileOf("single", <<Declared>>)
      [] OTHER -> ProfileOf("trunk", [t \in DOMAIN type.tubes |-> TotalFiberCount(type.tubes[t])])

\* Strands by innermost container, the containers in the order of their first strand.
Holding(glass, container) == {s \in DOMAIN glass : glass[s] = container}
StrandPortGroups(glass) ==
    SetToSortSeq({Holding(glass, c) : c \in ToSet(glass)}, LAMBDA g, h : Min(g) < Min(h))

----------------------------------------------------------------------------
(* Ports, connectors and the trace.                                        *)

New(e) == IF e = "A" THEN "newA" ELSE "newB"
Standing(e) == {p \in DOMAIN Panel : Panel[p].end = e}
RearsOf(e, panel) == CASE panel = Nowhere -> <<>>
                       [] panel = New(e) -> fresh[e]
                       [] OTHER -> Panel[panel].rears
Rears(e) == RearsOf(e, at[e])

InOrder(rears, Key(_)) ==
    SetToSortSeq(rears, LAMBDA r, q : Key(r) < Key(q) \/ (Key(r) = Key(q) /\ r < q))

Unnumbered == MaxStrand + Declared + 1   \* sorts after every connector and every strand

\* The front ports of the end, rear port by rear port.
PortsAlong(e, order) ==
    FlattenSeq([i \in DOMAIN order |-> [q \in 1..Rears(e)[order[i]] |-> <<at[e], order[i], q>>]])

\* By connector, the unnumbered rear ports last.
PortsInOrder(e) ==
    PortsAlong(e, InOrder(DOMAIN Rears(e),
        LAMBDA r : IF connector[e][r] = 0 THEN Unnumbered ELSE connector[e][r]))

\* A mutant: every port is offered, whether or not the type declares a strand for it.
ProposeEveryPort(e) == PortsInOrder(e)
ProposePortMapping(e) == SubSeq(PortsInOrder(e), 1, Min({Declared, Len(PortsInOrder(e))}))

StrandsOn(links, panel, r) ==
    {s \in DOMAIN links["A"] : \E e \in End : links[e][s] # None /\ SubSeq(links[e][s], 1, 2) = <<panel, r>>}

Numbered(order) == [r \in ToSet(order) |-> CHOOSE i \in DOMAIN order : order[i] = r]

\* A mutant (#191): rear ports are numbered as they are named.
NumberByName(e, links) == Numbered([r \in DOMAIN Rears(e) |-> r])
NumberByStrandOrder(e, links) ==
    Numbered(InOrder(DOMAIN Rears(e),
        LAMBDA r : LET on == StrandsOn(links, at[e], r) IN IF on = {} THEN Unnumbered ELSE Min(on)))

\* pair_far_rear_port_termination: the far rear ports that continue rear port r of end e.
Far(e) == IF e = "A" THEN "B" ELSE "A"
Continues(e, r, q) ==
    LET c == connector[e][r]
        matching == {x \in DOMAIN Rears(Far(e)) : connector[Far(e)][x] = c}
        alone == Len(Rears(Far(e))) = 1 /\ (c = 0 \/ Len(Rears(e)) = 1)
    IN  IF c # 0 /\ matching # {} THEN q \in matching ELSE alone

Crosses(a, b) ==
    /\ Continues("A", a[2], b[2]) /\ Continues("B", b[2], a[2])
    /\ a[3] = b[3]

----------------------------------------------------------------------------
(* The cable type.                                                         *)

Bounded == Len(type'.tubes) + Len(Ribbons') <= MaxTemplate /\ Len(Instantiated') <= MaxStrand

AddTube(n) ==
    /\ type' = [type EXCEPT !.tubes = Append(@, [fibers |-> n, ribbons |-> <<>>])]
    /\ Bounded
    /\ UNCHANGED <<cable, strands, at, fresh, connector, port, profile, shown, settled>>

\* The ribbon's own form never looks at the tube's fiber_count.
AddRibbon(t, n) ==
    /\ t \in DOMAIN type.tubes
    /\ type' = [type EXCEPT !.tubes[t].ribbons = Append(@, n)]
    /\ Bounded
    /\ UNCHANGED <<cable, strands, at, fresh, connector, port, profile, shown, settled>>

AddCoreRibbon(n) ==
    /\ type' = [type EXCEPT !.core = Append(@, n)]
    /\ Bounded
    /\ UNCHANGED <<cable, strands, at, fresh, connector, port, profile, shown, settled>>

----------------------------------------------------------------------------
(* The cable and its ends.                                                 *)

Init ==
    /\ type = [tubes |-> <<>>, core |-> <<>>]
    /\ cable = "none"
    /\ strands = <<>>
    /\ at = [e \in End |-> Nowhere]
    /\ fresh = [e \in End |-> <<>>]
    /\ connector = [e \in End |-> <<>>]
    /\ port = [e \in End |-> <<>>]
    /\ profile = None
    /\ shown = [e \in End |-> None]
    /\ settled = [e \in End |-> FALSE]

\* Cable.save(): a profile numbers the rear ports in the order given, no profile numbers none.
SavedConnectors(key, n) == [r \in 1..n |-> IF key = None THEN 0 ELSE r]
Fits(key, n) == key # None => n <= key[2]

\* A cable laid between two devices; an end may land on something other than a rear port.
CreateBare(a, b) ==
    /\ cable = "none"
    /\ cable' = "bare"
    /\ at' = [A |-> a, B |-> b]
    /\ connector' = [e \in End |-> SavedConnectors(None, Len(Rears(e)'))]
    /\ UNCHANGED <<type, strands, fresh, port, profile, shown, settled>>

\* An end is moved onto another panel.
Repatch(e, panel) ==
    /\ cable # "none"
    /\ panel # at[e]
    /\ RearsOf(e, panel) # <<>>
    /\ Fits(profile, Len(RearsOf(e, panel)))
    /\ at' = [at EXCEPT ![e] = panel]
    /\ connector' = [connector EXCEPT ![e] = SavedConnectors(profile, Len(RearsOf(e, panel)))]
    /\ settled' = [settled EXCEPT ![e] = FALSE]
    /\ UNCHANGED <<type, cable, strands, fresh, port, profile, shown>>

\* FiberCable.save() of a new row instantiates the type; later saves do not.
Carry ==
    /\ cable' = "fiber"
    /\ strands' = IF cable = "fiber" THEN strands ELSE Instantiated

Unlinked(e) == IF cable = "fiber" THEN port[e] ELSE [s \in DOMAIN Instantiated |-> None]

\* The FiberCable form: structure without ports.
CreateFiberCable ==
    /\ cable = "bare"
    /\ Carry
    /\ port' = [e \in End |-> Unlinked(e)]
    /\ UNCHANGED <<type, at, fresh, connector, profile, shown, settled>>

\* Setting the profile is a queryset update; without one the old profile stays.
SetProfile == profile' = IF GetCableProfile = None THEN profile ELSE GetCableProfile

\* _provision_device_ports: one rear port per container, its strands in order.
GroupSizes(glass) ==
    LET groups == StrandPortGroups(glass) IN [g \in DOMAIN groups |-> Cardinality(groups[g])]
FreshPorts(e, glass) ==
    [s \in DOMAIN glass |->
        LET groups == StrandPortGroups(glass)
            g == CHOOSE i \in DOMAIN groups : s \in groups[i]
        IN  <<New(e), g, Cardinality({t \in groups[g] : t <= s})>>]

\* link_cable_topology asks for confirmation where the cable already lands on rear ports.
Propose(e) ==
    /\ cable # "none"
    /\ Rears(e) # <<>>
    /\ shown' = [shown EXCEPT ![e] = ProposePortMapping(e)]
    /\ UNCHANGED <<type, cable, strands, at, fresh, connector, port, profile, settled>>

\* The adopt path: the mapped strands take their ports, the rest keep what they had.
Adopt(e, mapping) ==
    /\ cable # "none"
    /\ Rears(e) # <<>>
    /\ Carry
    /\ SetProfile
    /\ port' = [f \in End |->
                  [s \in DOMAIN strands' |->
                     IF f = e /\ s \in DOMAIN mapping THEN mapping[s] ELSE Unlinked(f)[s]]]
    /\ connector' = [connector EXCEPT ![e] = NumberByStrandOrder(e, port')]
    /\ settled' = [settled EXCEPT ![e] = TRUE]
    /\ UNCHANGED <<type, at, fresh>>

\* The confirm page posts the mapping it was rendered with.
Confirm(e) ==
    /\ shown[e] # None
    /\ Adopt(e, shown[e])
    /\ shown' = [shown EXCEPT ![e] = None]

\* A caller of the service maps every port of the end, taking the rear ports in an order of its own.
LinkAs(e, order) ==
    /\ Adopt(e, PortsAlong(e, order))
    /\ UNCHANGED shown

\* The greenfield path at a device where no rear port of the cable stands: it builds the A end.
LinkGreenfield ==
    /\ cable # "none"
    /\ Rears("A") = <<>>
    /\ Carry
    /\ SetProfile
    /\ fresh' = [fresh EXCEPT !["A"] = GroupSizes(strands')]
    /\ at' = [at EXCEPT !["A"] = New("A")]
    /\ port' = [A |-> FreshPorts("A", strands'), B |-> Unlinked("B")]
    /\ connector' = [connector EXCEPT !["A"] = [r \in DOMAIN fresh'["A"] |-> r]]
    /\ settled' = [settled EXCEPT !["A"] = TRUE]
    /\ UNCHANGED <<type, shown>>

\* create_closure_cable: both ends greenfield, then one Cable.save() that numbers the
\* rear ports only where the type derived a profile. Such an end counts as settled.
CreateClosureCable ==
    LET sizes == GroupSizes(Instantiated) IN
    /\ cable = "none"
    /\ Fits(GetCableProfile, Len(sizes))   \* full_clean
    /\ cable' = "fiber"
    /\ strands' = Instantiated
    /\ profile' = GetCableProfile
    /\ fresh' = [e \in End |-> sizes]
    /\ at' = [e \in End |-> New(e)]
    /\ port' = [e \in End |-> FreshPorts(e, Instantiated)]
    /\ connector' = [e \in End |-> SavedConnectors(GetCableProfile, Len(sizes))]
    /\ settled' = [e \in End |-> GetCableProfile # None]
    /\ UNCHANGED <<type, shown>>

Next ==
    \/ \E n \in 0..MaxFiber : AddTube(n)
    \/ \E n \in 1..MaxFiber : AddCoreRibbon(n) \/ \E t \in DOMAIN type.tubes : AddRibbon(t, n)
    \/ \E a \in Standing("A") \cup {Nowhere}, b \in Standing("B") \cup {Nowhere} : CreateBare(a, b)
    \/ CreateFiberCable
    \/ CreateClosureCable
    \/ LinkGreenfield
    \/ \E e \in End :
          \/ Propose(e) \/ Confirm(e)
          \/ \E order \in SetToSeqs(DOMAIN Rears(e)) : LinkAs(e, order)
          \/ \E panel \in Standing(e) \cup {New(e)} : Repatch(e, panel)

Spec == Init /\ [][Next]_vars

----------------------------------------------------------------------------
(* Properties.                                                             *)

PortsAt(e, panel) ==
    {<<panel, r, q>> : r \in DOMAIN RearsOf(e, panel), q \in 1..MaxStrand + Declared}
Carried(e) == \A s \in DOMAIN strands : port[e][s] # None /\ port[e][s][1] = at[e]

\* Shapes, and what the database's constraints say: a connector is given once per cable end
\* (services.py:130), and no confirm page offers a port to a strand the type does not declare.
TypeOK ==
    /\ cable \in {"none", "bare", "fiber"}
    /\ profile \in Registered \cup {None}
    /\ \A e \in End :
          /\ at[e] \in Standing(e) \cup {New(e), Nowhere}
          /\ DOMAIN connector[e] = DOMAIN Rears(e)
          /\ \A r, q \in DOMAIN Rears(e) : r # q /\ connector[e][r] # 0 => connector[e][r] # connector[e][q]
          /\ DOMAIN port[e] = DOMAIN strands
          /\ \A s \in DOMAIN strands : port[e][s] \in {None} \cup
                UNION {PortsAt(e, p) : p \in Standing(e) \cup {New(e)}}
          /\ Len(shown[e]) <= Declared

\* The two ends carry every strand, share rear ports among the same strands and hold each
\* strand at the same position: what a tube landing whole on a rear port looks like.
MountedAlike ==
    /\ \A e \in End : Carried(e) /\ IsInjective(port[e])
    /\ \A s \in DOMAIN strands : port["A"][s][3] = port["B"][s][3]
    /\ \A s, t \in DOMAIN strands : port["A"][s][2] = port["A"][t][2] <=> port["B"][s][2] = port["B"][t][2]

TracesAcross == \A s \in DOMAIN strands : Crosses(port["A"][s], port["B"][s])

\* A fiber that enters a linked cable on a strand's A port leaves it on the same strand's B port:
\* services.py:107 numbers each end by strand order so that trace.py pairs the right tubes,
\* whatever order the panels stand in, the ends were linked in or the mapping ran in (#191).
LinkedTraces == settled["A"] /\ settled["B"] /\ MountedAlike => TracesAcross

\* A cable that provisioning creates with a profile has the rear ports the profile describes, one
\* per connector and each of its size: models.py:283 against services.py:345 and full_clean.
ProfileMirrors ==
    [][CreateClosureCable /\ profile' # None =>
         \A e \in End : fresh'[e] = [r \in 1..profile'[2] |-> profile'[3]]]_vars

\* The wizard's cable carries the connector data the trace engine needs
\* (docs/user-guide/fiber-cables.md:157): every strand traces from end to end.
CreatedTraces == [][CreateClosureCable => TracesAcross']_vars

=============================================================================
