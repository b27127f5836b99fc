----------------------------- MODULE TraceHops -----------------------------
(***************************************************************************)
(* trace_hops.py: a stored path shown hop by hop.  The path names strands  *)
(* and cables only; the ports it crosses and their order are read from the *)
(* plant as it is now, and which strand a cable carries from the port it   *)
(* was last seen at.                                                       *)
(*                                                                         *)
(* Every front port is mapped, as in FiberGraph, and provider circuits and *)
(* the rear ports shown beside the front ports are left out.               *)
(***************************************************************************)
EXTENDS PathStore

CONSTANT Entry  \* pairs of ports that the entries of any plan join

ASSUME TraceAssumption == Entry \subseteq SUBSET FrontPort

NoDevice == "none"
NoStrand == 0
DeviceAt(q) == IF q = NoPort THEN NoDevice ELSE DeviceOf[q]

(***************************************************************************)
(* flat_entries.                                                           *)
(***************************************************************************)

FrontPortEntry(q) == [type |-> "front_port", id |-> q]
RearPortEntry(q) == [type |-> "rear_port", id |-> Behind[q]]
CableEntry(k) == [type |-> "cable", id |-> k]
SpliceEntry(pair) == [type |-> "splice_entry", id |-> pair]

\* Mutant: a strand is read as it is stored.
OrientAToB(s, exit, ahead) == <<plant.landed[s]["A"], plant.landed[s]["B"]>>

\* _orient_strand: entry and exit.  The walk enters on the device it is on; when neither landing
\* is there, it leaves on a device that lies ahead.
OrientStrand(s, exit, ahead) ==
    LET a == plant.landed[s]["A"]
        b == plant.landed[s]["B"]
        here(q) == exit # NoPort /\ q # NoPort /\ DeviceOf[q] = DeviceOf[exit]
        turned == here(b) \/ (~here(a) /\ a # NoPort /\ DeviceOf[a] \in ahead)
    IN  IF turned THEN <<b, a>> ELSE <<a, b>>

\* _append_port
PortEntries(q) == IF q = NoPort THEN <<>> ELSE <<FrontPortEntry(q), RearPortEntry(q)>>

\* Where the walk gets to after each strand: on the next one, or to end B.
Ahead(row) ==
    LET strands == SelectSeq(row.hops, LAMBDA h : h \in Strand) IN
    [j \in DOMAIN strands |->
        IF j = Len(strands) THEN {DeviceAt(row.b.port)}
        ELSE {DeviceOf[q] : q \in Landings(plant, strands[j + 1])}]

\* A strand hop becomes the splice it is reached by, its ports and its cable.
CrossStrand(walk, s, ahead) ==
    LET ends == OrientStrand(s, walk.exit, ahead[walk.passed + 1])
        joint == {walk.exit, ends[1]}
        splice == IF joint \in Entry THEN <<SpliceEntry(joint)>> ELSE <<>>
    IN  [entries |-> walk.entries \o splice \o PortEntries(ends[1]) \o <<CableEntry(CableOf[s])>>
                     \o Reverse(PortEntries(ends[2])),
         exit |-> ends[2], passed |-> walk.passed + 1]

FlatEntries(row) ==
    LET ahead == Ahead(row)
        cross(walk, h) == IF h \in Strand THEN CrossStrand(walk, h, ahead)
                          ELSE [walk EXCEPT !.entries = Append(@, CableEntry(h))]
    IN  FoldLeft(cross, [entries |-> <<>>, exit |-> row.a.port, passed |-> 0], row.hops).entries

(***************************************************************************)
(* build_hops.                                                             *)
(***************************************************************************)

\* _make_device_hop: a hop is left pending until the walk comes out of the device.
DeviceHop(d, ingress, egress) ==
    [type |-> "device", id |-> d, ingress |-> ingress, egress |-> egress, splice |-> {}, pending |-> TRUE]
CableHop(k, s) == [type |-> "cable", id |-> k, strand |-> s]

\* _get_last_front_port_id
LastFrontPort(hops) ==
    LET devices == SelectSeq(hops, LAMBDA h : h.type = "device") IN
    IF devices = <<>> THEN NoPort
    ELSE IF Last(devices).egress # NoPort THEN Last(devices).egress ELSE Last(devices).ingress

StrandAt(q) ==
    LET landed == {s \in Strand : q \in Landings(plant, s)} IN
    IF q = NoPort \/ landed = {} THEN NoStrand ELSE CHOOSE s \in landed : TRUE

\* A front port before its rear port: the walk comes out of the device.
ComeOut(hops, q) ==
    IF hops # <<>> /\ Last(hops).type = "device" /\ Last(hops).pending /\ Last(hops).id = DeviceOf[q]
    THEN [hops EXCEPT ![Len(hops)] = [@ EXCEPT !.egress = q, !.pending = FALSE]]
    ELSE Append(hops, DeviceHop(DeviceOf[q], NoPort, q))

\* Mutant: the splice is shown in the device where the path began.
ShowSpliceFirst(hops, pair) ==
    LET devices == {i \in DOMAIN hops : hops[i].type = "device"} IN
    IF devices = {} THEN hops ELSE [hops EXCEPT ![CHOOSE i \in devices : \A j \in devices : i <= j].splice = pair]

\* The splice is shown in the last device.
ShowSplice(hops, pair) ==
    LET devices == {i \in DOMAIN hops : hops[i].type = "device"} IN
    IF devices = {} THEN hops ELSE [hops EXCEPT ![CHOOSE i \in devices : \A j \in devices : i >= j].splice = pair]

\* Two port entries of one device are read together.
BuildHops(entries) ==
    LET front(i) == entries[i].type = "front_port"
        rear(i) == entries[i].type = "rear_port"
        second(i) == i > 1 /\ {entries[i].type, entries[i - 1].type} = {"front_port", "rear_port"}
        show(hops, i) ==
            CASE second(i) -> hops
              [] front(i) /\ ~second(i) -> ComeOut(hops, entries[i].id)
              [] rear(i) /\ ~second(i) ->
                    Append(hops, DeviceHop(DeviceOf[entries[i + 1].id], entries[i + 1].id, NoPort))
              [] entries[i].type = "cable" ->
                    Append(hops, CableHop(entries[i].id, StrandAt(LastFrontPort(hops))))
              [] entries[i].type = "splice_entry" -> ShowSplice(hops, entries[i].id)
    IN  FoldLeft(show, <<>>, [i \in DOMAIN entries |-> i])

Trace(r) == BuildHops(FlatEntries(rows[r]))

(***************************************************************************)
(* What must hold.                                                         *)
(***************************************************************************)

\* A strand can be placed: it is landed at both ends, and beside another strand or an end.
Placeable(row, i) ==
    /\ NoPort \notin {plant.landed[row.hops[i]]["A"], plant.landed[row.hops[i]]["B"]}
    /\ i = 1 \/ i = Len(row.hops) \/ {row.hops[i - 1], row.hops[i + 1]} \cap Strand # {}

\* The hops of a current path are traced one by one, in order.  Every strand is shown on its own
\* cable, left and entered through its two ports, in the direction of the path; two strands meet
\* in one device, with the splice that joins them (trace_hops.py:65, 86).
TraceShowsPath ==
    (dirty = {} /\ ~unheard) =>
      \A r \in DOMAIN rows :
        LET row == rows[r]
            hops == Trace(r)
            at == SelectSeq([k \in DOMAIN hops |-> k], LAMBDA k : hops[k].type = "cable")
            strand == {i \in DOMAIN row.hops : row.hops[i] \in Strand}
        IN  /\ Len(at) = Len(row.hops)
            /\ \A i \in DOMAIN row.hops : hops[at[i]].id = CableOfHop(row.hops[i])
            /\ (\A i \in strand : Placeable(row, i)) =>
                 \A i \in strand :
                   LET before == hops[at[i] - 1]
                       after == hops[at[i] + 1]
                   IN  /\ hops[at[i]].strand = row.hops[i]
                       /\ {before.egress, after.ingress} = Landings(plant, row.hops[i])
                       /\ (i = 1 /\ row.a.port # NoPort) => before.egress = row.a.port
                       /\ (i = Len(row.hops) /\ row.b.port # NoPort) => after.ingress = row.b.port
                       /\ i - 1 \in strand =>
                            /\ at[i] = at[i - 1] + 2
                            /\ before.splice = IF {before.ingress, before.egress} \in Entry
                                                THEN {before.ingress, before.egress} ELSE {}

\* What does not hold: a cable is shown with a strand only if the path crosses that strand.  The
\* cable of a strand that is not landed where the path enters it, and a plain cable, are shown
\* with the strand before them (trace_hops.py:168).
OwnStrand ==
    \A r \in DOMAIN rows :
        \A k \in DOMAIN Trace(r) :
            LET hop == Trace(r)[k] IN
            (hop.type = "cable" /\ hop.strand # NoStrand) => CableOf[hop.strand] = hop.id
=============================================================================
