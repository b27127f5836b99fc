------------------------------ MODULE PathPicker ------------------------------
(***************************************************************************)
(* The fiber path picker of assignment.py: groups of paths over one route  *)
(* that a circuit could be assigned, filtered and ranked.                  *)
(***************************************************************************)
EXTENDS Naturals, FiniteSets, FiniteSetsExt, Functions, Sequences, SequencesExt

CONSTANTS
    Path,        \* primary keys of the stored paths
    HopsOf,      \* [path -> its hops, a sequence of [cable, position, slot, ends]]
    EndA, EndB,  \* [path -> the device of its end port, or NoDevice]
    Terminated,  \* paths terminated at both ends
    Proposed,    \* paths over fiber that is only planned
    Viewable,    \* paths the user may view
    BelongsTo,   \* [device or cable -> its site and tenants]
    FaultSite,   \* <<path, cable>> where a fault may be reported
    MaxShown     \* groups a page offers

\* position is 0 on a hop that is no strand, slot is <<rear port, position>> behind its A-side
\* front port or NoSlot.  ends are devices, those of the A side first: of its front ports, as far
\* as the strand is landed, or of every termination of a plain cable, so two for every pair of
\* rear ports.  A provider circuit has cable 0 and no ends.
NoDevice == 0
NoSlot == <<>>

ASSUME PickerAssumption ==
    /\ Path \subseteq Nat
    /\ Terminated \subseteq Path /\ Proposed \subseteq Path /\ Viewable \subseteq Path
    /\ MaxShown \in Nat \ {0}
    /\ \A site \in FaultSite : site[1] \in Path
    /\ \A p \in Path : HopsOf[p] # <<>>

VARIABLES
    assigned,  \* paths with an active assignment
    faults,    \* open faults
    defective  \* paths the analysis marked as crossing one

picker == <<assigned, faults, defective>>

----------------------------------------------------------------------------
(* What a path passes.                                                     *)

Cables == [p \in Path |-> {HopsOf[p][i].cable : i \in DOMAIN HopsOf[p]} \ {0}]
Route == [p \in Path |-> SelectSeq([i \in DOMAIN HopsOf[p] |-> HopsOf[p][i].cable], LAMBDA c : c # 0)]
StrandHops == [p \in Path |-> SelectSeq(HopsOf[p], LAMBDA hop : hop.position # 0)]
Damaged == {fault[2] : fault \in faults}

\* A mutant: hops are taken as stored, whichever way the path crosses them.
TurnedAsStored(ends, previous) == ends

\* path_hop_ends: a hop of two ends that leads back to where the path just was is stored the
\* other way.  A longer list is read as it is stored.
Turned(ends, previous) == IF Len(ends) = 2 /\ ends[2] = previous THEN Reverse(ends) ELSE ends

\* _device_sequence: the last device visited is also the last device of the last landed hop.
Visit(devices, d) == IF devices # <<>> /\ Last(devices) = d THEN devices ELSE Append(devices, d)
Cross(devices, hop) ==
    FoldLeft(Visit, devices, Turned(hop.ends, IF devices = <<>> THEN NoDevice ELSE Last(devices)))
DeviceSequence ==
    [p \in Path |->
        LET from == IF EndA[p] = NoDevice THEN <<>> ELSE <<EndA[p]>>
            walked == FoldLeft(Cross, from, HopsOf[p])
        IN  IF EndB[p] = NoDevice THEN walked ELSE Visit(walked, EndB[p])]

IsSubsequence(wanted, devices) ==
    FoldLeft(LAMBDA left, d : IF left # <<>> /\ Head(left) = d THEN Tail(left) ELSE left, wanted, devices) = <<>>

\* A filter is [through, avoid, endsAt, incomplete]; avoid holds devices, cables, sites, tenants.
Touched ==
    [p \in Path |->
        LET passed == Range(DeviceSequence[p]) \cup Cables[p] IN
        passed \cup UNION {BelongsTo[x] : x \in passed}]

PassesFilters(p, f) ==
    /\ f.avoid \cap Touched[p] = {}
    /\ f.endsAt \subseteq {EndA[p], EndB[p]}
    /\ IsSubsequence(f.through, DeviceSequence[p])

Candidates(status, incomplete) ==
    {p \in Path \ (assigned \cup defective) :
        /\ incomplete \/ p \in Terminated
        /\ status = "planned" \/ p \notin Proposed}

----------------------------------------------------------------------------
(* Groups.                                                                 *)

FirstPosition == [p \in Path |-> IF StrandHops[p] = <<>> THEN 0 ELSE StrandHops[p][1].position]

\* is_contiguous, for the mappings slots[p].
Adjacent(slots) ==
    LET positions == {slot[2] : slot \in Range(slots)} IN
    /\ Cardinality({slot[1] : slot \in Range(slots)}) = 1
    /\ Cardinality(positions) = Cardinality(DOMAIN slots)
    /\ Max(positions) - Min(positions) + 1 = Cardinality(positions)

Shape(p) == [i \in DOMAIN HopsOf[p] |-> HopsOf[p][i].position # 0]

GroupIsContiguous(S) ==
    /\ \A p, q \in S : Shape(p) = Shape(q)
    /\ \A p \in S :
          /\ StrandHops[p] # <<>>
          /\ \A i \in DOMAIN StrandHops[p] :
                LET slots == [q \in S |-> StrandHops[q][i].slot] IN NoSlot \notin Range(slots) /\ Adjacent(slots)

\* A mutant: in the order of their keys.
BeforeByKey(p, q) == p < q
Before(p, q) == FirstPosition[p] < FirstPosition[q] \/ (FirstPosition[p] = FirstPosition[q] /\ p < q)

\* The windows of n consecutive paths of a route, as PathGroups; met is when the route was met.
Group(paths, met) ==
    [paths |-> paths, contiguous |-> GroupIsContiguous(Range(paths)),
     damaged |-> \E p \in Range(paths) : Cables[p] \cap Damaged # {},
     hops |-> Len(HopsOf[paths[1]]), lowest |-> FirstPosition[paths[1]], met |-> met]

Windows(S, n) ==
    LET paths == SetToSortSeq(S, Before) IN
    {SubSeq(paths, i, i + n - 1) : i \in {i \in DOMAIN paths : i + n - 1 <= Len(paths)}}

\* Ties keep the order in which the routes, then their windows, were met.
Rank(g) ==
    <<IF g.contiguous THEN 0 ELSE 1, IF g.damaged THEN 1 ELSE 0, g.hops, g.lowest, g.met, g.paths[1]>>
Precedes(r, s) == \E i \in DOMAIN r : r[i] < s[i] /\ \A j \in 1..(i - 1) : r[j] = s[j]

FindAssignablePathGroups(n, status, f) ==
    LET passing == {p \in Candidates(status, f.incomplete) : PassesFilters(p, f)}
        routes == {{q \in passing : Route[q] = Route[p]} : p \in passing}
        groups == UNION {{Group(paths, Min(along)) : paths \in Windows(along, n)} : along \in routes}
    IN  SortSeq(FoldSet(LAMBDA g, met : Append(met, g), <<>>, groups),
                LAMBDA g, h : Precedes(Rank(g), Rank(h)))

\* viewable_groups, and the first page of them.
Offer(n, status, f) ==
    LET groups == SelectSeq(FindAssignablePathGroups(n, status, f), LAMBDA g : Range(g.paths) \subseteq Viewable) IN
    SubSeq(groups, 1, Min({MaxShown, Len(groups)}))

----------------------------------------------------------------------------
(* assign_paths, for a new circuit.                                        *)

\* A mutant: whether a path is taken is not asked again.
RefusedUnlocked(n, paths, incomplete) ==
    \/ Len(paths) > n
    \/ ~IsInjective(paths)
    \/ \E p \in Range(paths) : p \in defective \/ ~(p \in Terminated \/ incomplete)

Refused(n, paths, incomplete) ==
    \/ Len(paths) > n
    \/ ~IsInjective(paths)
    \/ \E p \in Range(paths) : p \in assigned \/ p \in defective \/ ~(p \in Terminated \/ incomplete)

\* Meanwhile, others assign paths and faults are reported and analyzed.
AssignElsewhere(p) ==
    /\ ~Refused(1, <<p>>, TRUE)
    /\ assigned' = assigned \cup {p}
    /\ UNCHANGED <<faults, defective>>

ReportFault(site) ==
    /\ site \notin faults
    /\ faults' = faults \cup {site}
    /\ UNCHANGED <<assigned, defective>>

Analyze ==
    /\ defective # {fault[1] : fault \in faults}
    /\ defective' = {fault[1] : fault \in faults}
    /\ UNCHANGED <<assigned, faults>>

=============================================================================
