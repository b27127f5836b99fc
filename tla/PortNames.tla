------------------------------ MODULE PortNames ------------------------------
(***************************************************************************)
(* The names and labels of the ports a fiber cable stands on.              *)
(* services.py names the ports it creates by the configured templates or,  *)
(* a whole cable end at a time, by the pk grammar; convert_port_names      *)
(* plans new names for the ports of a cable and writes them afterwards;    *)
(* signals.py renders the labels again when a cable or a tray changes.     *)
(*                                                                         *)
(* A template is the set of tokens it uses, and what it renders to is the  *)
(* value of those tokens: two names are equal exactly when their tokens    *)
(* and the tokens' values are.                                             *)
(***************************************************************************)
EXTENDS Naturals, FiniteSets, FiniteSetsExt, Functions, Sequences, SequencesExt

CONSTANTS
    Cable,        \* primary keys
    Device,
    EndsOf,       \* [cable -> [end -> device]]
    TubeOf,       \* [cable -> [strand -> its tube's position, 0 for none]]
    RibbonOf,     \* [cable -> [strand -> its ribbon, 0 for none]]
    PanelAt,      \* [device -> how many front ports its panel has, on one rear port]
    Caption,      \* display labels a cable may have
    TooLong,      \* those that overflow a port name
    FrontSchemes, \* settings of the front port name template
    RearSchemes,  \* settings of the rear port name template
    LabelScheme,  \* [kind -> template] the label templates
    MaxEdit       \* bound on what people change

Kind == {"front", "rear"}
End == {"A", "B"}
Unset == {}                  \* a blank template
Broken == {"syntax error"}   \* a template that does not compile
None == <<>>

ASSUME NamesAssumption ==
    /\ Cable \subseteq Nat \ {0}
    /\ TooLong \subseteq Caption
    /\ \A c \in Cable :
          /\ DOMAIN TubeOf[c] = DOMAIN RibbonOf[c]
          /\ EndsOf[c] \in [End -> Device] /\ IsInjective(EndsOf[c])
    /\ PanelAt \in [Device -> Nat]
    /\ MaxEdit \in Nat

VARIABLES
    ports,    \* [port -> [name, label, strand, place]], for the ports that exist
    caption,  \* [cable -> its display label]
    scheme,   \* [kind -> template] the processes run with
    plan,     \* what a running conversion is about to write, or None
    named,    \* the cable whose names the last change of names gave, or 0
    edits     \* changes by people so far

vars == <<ports, caption, scheme, plan, named, edits>>

\* A port is <<device, kind, cable, i>>, the i-th made for the cable there; cable 0 is the
\* panel.  strand is <<cable, position>> on a linked front port.
DeviceOf(p) == p[1]
KindOf(p) == p[2]
Alike(p, q) == DeviceOf(p) = DeviceOf(q) /\ KindOf(p) = KindOf(q)
Strands(c) == DOMAIN TubeOf[c]
EndAt(c, d) == CHOOSE e \in End : EndsOf[c][e] = d

----------------------------------------------------------------------------
(* Containers.                                                             *)

\* strand_port_groups: by ribbon, else by tube, else the cable.
HolderOf(c, s) == IF RibbonOf[c][s] # 0 THEN <<"ribbon", RibbonOf[c][s]>> ELSE <<"tube", TubeOf[c][s]>>
Groups ==
    [c \in Cable |->
        LET holding(h) == {s \in Strands(c) : HolderOf(c, s) = h} IN
        SetToSortSeq({holding(HolderOf(c, s)) : s \in Strands(c)}, LAMBDA S, T : Min(S) < Min(T))]
GroupOf == [c \in Cable |-> [s \in Strands(c) |-> CHOOSE g \in DOMAIN Groups[c] : s \in Groups[c][g]]]

\* Ribbon.position restarts in every tube, so ribbons are numbered in fiber order.
RibbonOrdinal(c, r) ==
    LET first(q) == Min({s \in Strands(c) : RibbonOf[c][s] = q}) IN
    Cardinality({q \in Range(RibbonOf[c]) \ {0} : first(q) <= first(r)})

\* The container all strands of a group are in, or 0.
Shared(of, S) == IF \A s, t \in S : of[s] = of[t] THEN of[Min(S)] ELSE 0

RearBehind(p) ==
    <<DeviceOf(p), "rear", p[3],
      IF p[3] = 0 THEN 1 ELSE GroupOf[p[3]][p[4]]>>

Made(c, d) ==
    {<<d, "front", c, s>> : s \in Strands(c)} \cup {<<d, "rear", c, g>> : g \in DOMAIN Groups[c]}
CoveredByMade(c, p) == IF KindOf(p) = "front" THEN {p[4]} ELSE Groups[c][p[4]]

----------------------------------------------------------------------------
(* naming.py: the grammar, contexts and rendering.                         *)

FrontPortName(c, s) == [id |-> c, fiber |-> s]

RearPortName(c, S) ==
    LET ribbon == Shared(RibbonOf[c], S)
        tube == Shared(TubeOf[c], S) IN
    CASE ribbon # 0 -> [id |-> c, ribbon |-> RibbonOrdinal(c, ribbon)]
      [] ribbon = 0 /\ tube # 0 -> [id |-> c, tube |-> tube]
      [] OTHER -> [id |-> c]

Grammar(c, p, S) == IF KindOf(p) = "front" THEN FrontPortName(c, Min(S)) ELSE RearPortName(c, S)

PortContext(c, p, S, captions, onTray) ==
    [cable |-> captions[c], end |-> EndAt(c, DeviceOf(p)), tube |-> Shared(TubeOf[c], S),
     strand |-> IF KindOf(p) = "front" THEN Min(S) ELSE 0, tray |-> onTray]

Render(template, context) == [token \in template |-> context[token]]

\* What the panel's ports were called by the device type: the bare number, which is also what a
\* template of the strand alone renders.
FactoryName(i) == [strand |-> i]
FactoryNames(d) == {FactoryName(i) : i \in 1..PanelAt[d]}

----------------------------------------------------------------------------
(* services.py: names for a set of ports of one cable on one device.       *)
(* covers[p] is the strands port p stands for.                             *)

Rendered(c, covers) ==
    [p \in DOMAIN covers |->
        Render(scheme[KindOf(p)], PortContext(c, p, covers[p], caption, "no tray"))]

\* A mutant: the ports being named count as holders of their names.
HeldByAnybody(p, covers) == {ports[q].name : q \in {q \in DOMAIN ports : Alike(p, q)}}
HeldByOthers(p, covers) == {ports[q].name : q \in {q \in DOMAIN ports \ DOMAIN covers : Alike(p, q)}}

\* _check_port_names
NameRefused(c, p, covers, names) ==
    /\ scheme[KindOf(p)] # Unset
    /\ \/ "cable" \in scheme[KindOf(p)] /\ caption[c] \in TooLong
       \/ names[p] \in HeldByOthers(p, covers)
       \/ \E q \in DOMAIN covers \ {p} : Alike(p, q) /\ names[q] = names[p]

\* One failure, of either kind, takes the whole cable end back to the grammar.
FallsBack(c, covers, names) ==
    Broken \in Range(scheme) \/ \E p \in DOMAIN covers : NameRefused(c, p, covers, names)

GeneratePortNames(c, covers) ==
    LET names == Rendered(c, covers)
        fallen == FallsBack(c, covers, names)
    IN  [p \in DOMAIN covers |->
            IF scheme[KindOf(p)] = Unset \/ fallen THEN Grammar(c, p, covers[p]) ELSE names[p]]

----------------------------------------------------------------------------
(* plan_port_names.                                                        *)

Linked(p) == KindOf(p) = "front" /\ ports[p].strand # None
PortsOf(c) == {p \in DOMAIN ports : Linked(p) /\ ports[p].strand[1] = c}

\* The strands of the cable each port of a walk stands for.
Behind(c, walked) ==
    [p \in walked \cup {RearBehind(q) : q \in walked} |->
        {ports[q].strand[2] : q \in {q \in walked : q = p \/ RearBehind(q) = p}}]

\* Judged by placement: nothing records which ports the plugin created.
Owned(p) ==
    \/ ports[p].place = "tray"
    \/ ports[p].place = "device" /\ ports[p].name \notin FactoryNames(DeviceOf(p))

\* The ports of the cable to be named on a device, with the strands each stands for.
Renamable(c, d) ==
    LET walked == {p \in PortsOf(c) : DeviceOf(p) = d}
        owned == {p \in walked : Owned(p)}
        rears == {RearBehind(p) : p \in owned} \ {RearBehind(p) : p \in walked \ owned}
    IN  Restrict(Behind(c, walked), owned \cup rears)

Proposed(c) ==
    FoldSet(LAMBDA d, names : names @@ GeneratePortNames(c, Renamable(c, d)), <<>>, Range(EndsOf[c]))

Renames(c) ==
    LET names == Proposed(c) IN Restrict(names, {p \in DOMAIN names : names[p] # ports[p].name})

\* A mutant: a name held by a port that is itself renamed is thought free.
ProblemOutside(renames, p, q) == q \notin DOMAIN renames /\ renames[p] = ports[q].name
Problem(renames, p, q) ==
    \/ renames[p] = ports[q].name
    \/ q \in DOMAIN renames /\ renames[p] = renames[q]

HasProblems(renames) ==
    \E p \in DOMAIN renames, q \in DOMAIN ports : p # q /\ Alike(p, q) /\ Problem(renames, p, q)

Unique(rows) == \A p, q \in DOMAIN rows : p # q /\ Alike(p, q) => rows[p].name # rows[q].name

\* One UPDATE writes the rows, in an order of its own; the index is checked at each row.
NameAfter(renames, rows, q) == IF q \in rows THEN renames[q] ELSE ports[q].name
MayFail(renames) ==
    \E p \in DOMAIN renames :
        LET others == {q \in DOMAIN ports \ {p} : Alike(p, q)} IN
        \E before \in SUBSET (others \cap DOMAIN renames), q \in others :
            NameAfter(renames, before, q) = renames[p]

----------------------------------------------------------------------------
(* signals.py: labels.                                                     *)

\* The label of every port the cable's strands reach, the ones it adopted included.
RenderedLabel(c, p, S, captions, from) ==
    Render(LabelScheme[KindOf(p)],
           PortContext(c, p, S, captions, IF from[p].place = "tray" THEN "tray" ELSE "no tray"))


Relabelled(c, captions, from) ==
    LET behind == Behind(c, PortsOf(c)) IN
    [p \in DOMAIN from |->
        IF p \in DOMAIN behind
        THEN [from[p] EXCEPT !.label = RenderedLabel(c, p, behind[p], captions, from)] ELSE from[p]]

----------------------------------------------------------------------------
(* What happens.                                                           *)

Init ==
    /\ ports = [p \in UNION {{<<d, "front", 0, i>> : i \in 1..PanelAt[d]} \cup
                             (IF PanelAt[d] = 0 THEN {} ELSE {<<d, "rear", 0, 1>>}) : d \in Device} |->
                  [name |-> FactoryName(p[4]), label |-> None, strand |-> None, place |-> "device"]]
    /\ caption \in [Cable -> Caption]
    /\ scheme \in [front : FrontSchemes, rear : RearSchemes]
    /\ plan = None
    /\ named = 0
    /\ edits = 0

\* create_closure_cable: the ports of both ends, in one transaction.
Provision(c) ==
    LET made == UNION {Made(c, d) : d \in Range(EndsOf[c])}
        names == FoldSet(LAMBDA d, acc : acc @@ GeneratePortNames(c, [p \in Made(c, d) |-> CoveredByMade(c, p)]),
                         <<>>, Range(EndsOf[c]))
        placed == [p \in made |->
                     [name |-> names[p], label |-> None, place |-> "device",
                      strand |-> IF KindOf(p) = "front" THEN <<c, p[4]>> ELSE None]]
        labelled == [p \in made |->
                       [placed[p] EXCEPT !.label = RenderedLabel(c, p, CoveredByMade(c, p), caption, placed)]]
    IN  /\ PortsOf(c) = {}
        /\ Unique(ports @@ placed)
        /\ ports' = ports @@ labelled
        /\ named' = c
        /\ UNCHANGED <<caption, scheme, plan, edits>>

\* A mutant: the whole panel is taken, strands or not.
AdoptPanel(c, d) ==
    LET lands(p) == p[3] = 0 /\ KindOf(p) = "front" /\ DeviceOf(p) = d IN
    /\ d \in Range(EndsOf[c])
    /\ \A p \in PortsOf(c) : DeviceOf(p) # d
    /\ \A p \in DOMAIN ports : lands(p) => ports[p].strand = None
    /\ ports' = [p \in DOMAIN ports |->
                   IF lands(p) THEN [ports[p] EXCEPT !.strand = <<c, p[4]>>] ELSE ports[p]]
    /\ named' = 0
    /\ UNCHANGED <<caption, scheme, plan, edits>>

\* link_cable_topology's adopt path: the strands land on the panel, in order.
Adopt(c, d) ==
    LET lands(p) == p[3] = 0 /\ KindOf(p) = "front" /\ DeviceOf(p) = d /\ p[4] \in Strands(c) IN
    /\ d \in Range(EndsOf[c])
    /\ \A p \in PortsOf(c) : DeviceOf(p) # d
    /\ \E p \in DOMAIN ports : lands(p)
    /\ \A p \in DOMAIN ports : lands(p) => ports[p].strand = None
    /\ ports' = [p \in DOMAIN ports |->
                   IF lands(p) THEN [ports[p] EXCEPT !.strand = <<c, p[4]>>] ELSE ports[p]]
    /\ named' = 0
    /\ UNCHANGED <<caption, scheme, plan, edits>>

Edit == edits < MaxEdit /\ edits' = edits + 1 /\ named' = 0

\* A cable is given another display label: its ports' labels follow, their names do not.
RelabelCable(c, text) ==
    /\ Edit
    /\ text # caption[c]
    /\ caption' = [caption EXCEPT ![c] = text]
    /\ ports' = Relabelled(c, caption', ports)
    /\ UNCHANGED <<scheme, plan>>

\* NetBox is restarted with other name templates; a conversion does not survive it.
Configure(front, rear) ==
    /\ Edit
    /\ <<front, rear>> # <<scheme.front, scheme.rear>>
    /\ scheme' = [front |-> front, rear |-> rear]
    /\ plan' = None
    /\ UNCHANGED <<ports, caption>>

\* An operator types a name; what other ports of the device are or could be called.
RenameByHand(p, name) ==
    /\ Edit
    /\ name # ports[p].name
    /\ ports' = [ports EXCEPT ![p].name = name]
    /\ Unique(ports')
    /\ UNCHANGED <<caption, scheme, plan>>

\* A front port is moved onto a module that is no splice tray.
MoveByHand(p) ==
    /\ Edit
    /\ KindOf(p) = "front" /\ ports[p].place = "device"
    /\ ports' = [ports EXCEPT ![p].place = "module"]
    /\ UNCHANGED <<caption, scheme, plan>>

\* sync_tube_assignment_ports, clear_tube_assignment_ports, and the labels after them.
Moved(c, d, t, S, place) ==
    [p \in DOMAIN ports |->
        IF p \in PortsOf(c) /\ DeviceOf(p) = d /\ TubeOf[c][ports[p].strand[2]] = t /\ ports[p].place \in S
        THEN [ports[p] EXCEPT !.place = place] ELSE ports[p]]

TrayRelabelled(c, moved) ==
    IF \E kind \in Kind : "tray" \in LabelScheme[kind] THEN Relabelled(c, caption, moved) ELSE moved

AssignTube(c, d, t) ==
    /\ Edit
    /\ t # 0
    /\ Moved(c, d, t, {"device", "module"}, "tray") # ports
    /\ ports' = TrayRelabelled(c, Moved(c, d, t, {"device", "module"}, "tray"))
    /\ UNCHANGED <<caption, scheme, plan>>

UnassignTube(c, d, t) ==
    /\ t # 0
    /\ Moved(c, d, t, {"tray"}, "device") # ports
    /\ ports' = TrayRelabelled(c, Moved(c, d, t, {"tray"}, "device"))
    /\ named' = 0
    /\ UNCHANGED <<caption, scheme, plan, edits>>

\* rerender_port_labels
RerenderLabels(c) ==
    /\ Relabelled(c, caption, ports) # ports
    /\ ports' = Relabelled(c, caption, ports)
    /\ UNCHANGED <<caption, scheme, plan, named, edits>>

\* convert_port_names: a cable's plan is made, then written in a transaction of its own.
PlanConversion(c) ==
    /\ plan = None
    /\ LET renames == Renames(c) IN
          /\ renames # None
          /\ ~HasProblems(renames)
          /\ plan' = [cable |-> c, renames |-> renames, seen |-> <<ports, caption>>]
    /\ UNCHANGED <<ports, caption, scheme, named, edits>>

ApplyPortNames ==
    /\ plan # None
    /\ ports' = [p \in DOMAIN ports |-> [ports[p] EXCEPT !.name = NameAfter(plan.renames, DOMAIN plan.renames, p)]]
    /\ Unique(ports')
    /\ named' = (IF plan.seen = <<ports, caption>> THEN plan.cable ELSE 0)
    /\ plan' = None
    /\ UNCHANGED <<caption, scheme, edits>>

\* The index refuses a row: nothing is written and the command ends.
ConversionFails ==
    /\ plan # None
    /\ MayFail(plan.renames)
    /\ plan' = None
    /\ UNCHANGED <<ports, caption, scheme, named, edits>>

HandNames(p) ==
    IF KindOf(p) = "front" THEN {FrontPortName(c, s) : c \in Cable, s \in {1, 2}} \cup {FactoryName(1)}
    ELSE {RearPortName(c, S) : c \in Cable, S \in {{1}}}

Next ==
    \/ \E c \in Cable :
          \/ Provision(c)
          \/ RerenderLabels(c)
          \/ PlanConversion(c)
          \/ \E text \in Caption : RelabelCable(c, text)
          \/ \E d \in Device : Adopt(c, d) \/ \E t \in Range(TubeOf[c]) : AssignTube(c, d, t) \/ UnassignTube(c, d, t)
    \/ \E front \in FrontSchemes, rear \in RearSchemes : Configure(front, rear)
    \/ \E p \in DOMAIN ports : MoveByHand(p) \/ \E name \in HandNames(p) : RenameByHand(p, name)
    \/ ApplyPortNames
    \/ ConversionFails

Spec == Init /\ [][Next]_vars

----------------------------------------------------------------------------
(* Properties.                                                             *)

\* Shapes; names are unique per device and kind, rear ports have no strand.
TypeOK ==
    /\ Unique(ports)
    /\ \A p \in DOMAIN ports :
          /\ ports[p].place \in {"device", "tray", "module"}
          /\ KindOf(p) = "rear" => ports[p].strand = None /\ ports[p].place = "device"
          /\ Linked(p) => ports[p].strand[2] \in Strands(ports[p].strand[1])
          /\ p[3] # 0 /\ KindOf(p) = "front" => ports[p].strand = <<p[3], p[4]>>
    /\ caption \in [Cable -> Caption]
    /\ plan # None => DOMAIN plan.renames \subseteq DOMAIN ports
    /\ named \in Cable \cup {0}
    /\ edits <= MaxEdit

\* A plan without problems can be written: while nothing has changed since it was made, no order
\* of the rows trips the unique index, not even halfway (services.py:649, the swap check).
PlanApplies == plan # None /\ plan.seen = <<ports, caption>> => ~MayFail(plan.renames)

\* Naming is idempotent, and creation and conversion agree: once a cable's ports were created, or
\* a conversion wrote what it saw, another conversion has nothing to rename, whatever fell back to
\* the grammar, was held by another port or changed hands by its new name.
NamingSettles == named # 0 => Renames(named) = None


\* "Adopted ports keep their names." (convert_port_names.py:34)
AdoptedKeepNames ==
    [][ApplyPortNames => \A p \in DOMAIN ports : p[3] = 0 => ports'[p].name = ports[p].name]_vars

=============================================================================
