----------------------------- MODULE PathStore -----------------------------
(***************************************************************************)
(* The stored fiber paths: changes of the plant as the signal receivers    *)
(* queue them (signals.py, path_queue.relevant_device_ids), and the        *)
(* incremental run and the reconcile that rewrite the path rows            *)
(* (path_analysis.py analyze_devices, run_reconcile, write_results).       *)
(*                                                                         *)
(* A run is one step here; AnalysisPipeline has its steps, and             *)
(* CircuitAssignment what it does to circuits.                             *)
(***************************************************************************)
EXTENDS FiberGraph

CONSTANTS
    InitialPlant,  \* plants to start from
    MayLand,       \* MayLand[s][side]: ports strand s may land on
    MaxAssigned,   \* bound: paths that are assigned
    MaxChanges,    \* bound: changes of the plant
    MaxRow         \* bound: a reconcile starts only below this primary key

ASSUME PathStoreAssumption ==
    /\ InitialPlant \subseteq Plant
    /\ MayLand \in [Strand -> [{"A", "B"} -> SUBSET FrontPort]]
    /\ MaxAssigned \in Nat /\ MaxChanges \in Nat /\ MaxRow \in Nat

VARIABLES
    plant,     \* what the plant tables say
    rows,      \* rows[r]: the FiberStrandPath with primary key r
    assigned,  \* the rows an active assignment references
    dirty,     \* devices in the queue
    issued,    \* the last primary key given to a row
    changes,   \* changes of the plant so far
    unheard    \* has a change touched a device that was not queued, since the last reconcile?

vars == <<plant, rows, assigned, dirty, issued, changes, unheard>>

EndOfPath == [port : FrontPort \cup {NoPort}, kind : {"open", "terminated"},
              reason : {"", "cable_end", "unspliced"}]
Row == [hops : Seq(Hop), a : EndOfPath, b : EndOfPath, bad : BOOLEAN]

TypeOK ==
    /\ plant \in Plant
    /\ DOMAIN rows \subseteq 1 .. issued
    /\ \A r \in DOMAIN rows : rows[r] \in Row
    /\ assigned \subseteq DOMAIN rows
    /\ dirty \subseteq Device
    /\ issued \in Nat /\ changes \in 0 .. MaxChanges
    /\ unheard \in BOOLEAN

FiberDevices(pl) == UNION {CableDevices(pl, k) : k \in pl.fiber}

Init ==
    /\ plant \in InitialPlant
    /\ rows = <<>>
    /\ assigned = {}
    /\ dirty = FiberDevices(plant)
    /\ issued = 0
    /\ changes = 0
    /\ unheard = FALSE

StrandsOf(hops) == Range(hops) \cap Strand
Ports(row) == {row.a.port, row.b.port} \ {NoPort}

\* PATH_DEVICE_LOOKUPS
PathDevices(pl, row) ==
    {DeviceOf[q] : q \in Ports(row) \cup UNION {Landings(pl, s) : s \in StrandsOf(row.hops)}}
    \cup UNION {CableDevices(pl, k) : k \in Range(row.hops) \cap Cable}

(***************************************************************************)
(* Changes of the plant.                                                   *)
(***************************************************************************)

\* Mutant: only devices with a fiber on them are worth analyzing.
RelevantByCable(pl, stored, devs) == devs \cap FiberDevices(pl)

\* relevant_device_ids, after the commit.
Relevant(pl, stored, devs) ==
    devs \cap (FiberDevices(pl) \cup UNION {PathDevices(pl, stored[r]) : r \in DOMAIN stored})

\* The hop rows of deleted strands and cables cascade away.
Spared(hops, gone) ==
    LET spared == {i \in DOMAIN hops : hops[i] \notin gone}
    IN  [k \in 1 .. Cardinality(spared) |-> hops[Nth(spared, k)]]
Without(gone) == [r \in DOMAIN rows |-> [rows[r] EXCEPT !.hops = Spared(@, gone)]]

\* A change commits: the plant becomes pl, the references in gone are deleted.
\* The receivers queue devs, out of the devices touched; or the flush is lost.
Commit(pl, gone, touched, devs) ==
    /\ changes < MaxChanges
    /\ changes' = changes + 1
    /\ plant' = pl
    /\ rows' = Without(gone)
    /\ \/ /\ dirty' = dirty \cup Relevant(pl, rows', devs)
          /\ unheard' = (unheard \/ touched \ devs # {})
       \/ /\ UNCHANGED dirty
          /\ unheard' = TRUE
    /\ UNCHANGED <<assigned, issued>>

Heard(pl, gone, devs) == Commit(pl, gone, devs, devs)

Crosses(hops, gone) == Range(hops) \cap gone # {}
Protected(gone) == \E r \in assigned : Crosses(rows[r].hops, gone)

StrandsOn(k) == {s \in Strand : CableOf[s] = k}
Off == [side \in {"A", "B"} |-> NoPort]

\* A cable is edited: it gains or loses the terminations of one side.
Terminate(k, side) ==
    /\ k \in plant.cables
    /\ side \notin plant.sides[k]
    /\ LET pl == [plant EXCEPT !.sides[k] = @ \cup {side}]
       IN  Heard(pl, {}, CableDevices(pl, k))

Detach(k, side) ==
    /\ side \in plant.sides[k]
    /\ Heard([plant EXCEPT !.sides[k] = @ \ {side}], {}, CableDevices(plant, k))

\* The cable goes with its FiberCable, strands and faults.
DeleteCable(k) ==
    LET gone == {k} \cup StrandsOn(k) IN
    /\ k \in plant.cables
    /\ ~Protected(gone)
    /\ Heard([plant EXCEPT !.cables = @ \ {k}, !.fiber = @ \ {k}, !.sides[k] = {},
                           !.landed = [s \in Strand |-> IF s \in gone THEN Off ELSE @[s]],
                           !.faults = @ \ gone],
             gone, CableDevices(plant, k))

\* Only the fiber record goes; the cable stays.
DeleteFiberCable(k) ==
    /\ k \in plant.fiber
    /\ ~Protected(StrandsOn(k))
    /\ Heard([plant EXCEPT !.fiber = @ \ {k},
                           !.landed = [s \in Strand |-> IF CableOf[s] = k THEN Off ELSE @[s]],
                           !.faults = @ \ ({k} \cup StrandsOn(k))],
             StrandsOn(k), CableDevices(plant, k))

\* A jumper needs free ports; nothing protects one.
Splice(j) ==
    /\ \A i \in plant.jumpers : JumperPorts(i) \cap JumperPorts(j) = {}
    /\ Heard([plant EXCEPT !.jumpers = @ \cup {j}], {}, JumperDevices(j))

Unsplice(j) ==
    /\ j \in plant.jumpers
    /\ Heard([plant EXCEPT !.jumpers = @ \ {j}], {}, JumperDevices(j))

\* A strand is saved: the devices of the ports it now lands on are queued.
Land(s, side, q) ==
    LET pl == [plant EXCEPT !.landed[s][side] = q]
        now == {DeviceOf[r] : r \in Landings(pl, s)} IN
    /\ CableOf[s] \in plant.fiber
    /\ plant.landed[s][side] # q
    /\ \A t \in Strand : q \notin Landings(plant, t)
    /\ Commit(pl, {}, {DeviceOf[r] : r \in Landings(plant, s)}, now)

\* A fault of a strand, or of a whole cable, is opened or resolved.
CableOfHop(h) == IF h \in Strand THEN CableOf[h] ELSE h

Report(h) ==
    /\ CableOfHop(h) \in plant.fiber
    /\ h \notin plant.faults
    /\ Heard([plant EXCEPT !.faults = @ \cup {h}], {}, CableDevices(plant, CableOfHop(h)))

Resolve(h) ==
    /\ h \in plant.faults
    /\ Heard([plant EXCEPT !.faults = @ \ {h}], {}, CableDevices(plant, CableOfHop(h)))

\* Circuits take and leave paths.
Assign(r) ==
    /\ r \notin assigned
    /\ Cardinality(assigned) < MaxAssigned
    /\ assigned' = assigned \cup {r}
    /\ UNCHANGED <<plant, rows, dirty, issued, changes, unheard>>

Unassign(r) ==
    /\ r \in assigned
    /\ assigned' = assigned \ {r}
    /\ UNCHANGED <<plant, rows, dirty, issued, changes, unheard>>

(***************************************************************************)
(* write_results.                                                          *)
(***************************************************************************)

NoMatch == 0

\* _anchor
Anchor(hops) ==
    LET strands == {i \in DOMAIN hops : hops[i] \in Strand}
    IN  IF strands = {} THEN Head(hops) ELSE hops[Min(strands)]

\* by_end_hop: the earliest row of the scope that begins or ends with hop h, the
\* rows in scope before those that merely share a strand.
ByEndHop(inScope, joined, h) ==
    LET at(S) == {r \in S : rows[r].hops # <<>> /\ h \in {Head(rows[r].hops), Last(rows[r].hops)}}
        S == IF at(inScope) # {} THEN at(inScope) ELSE at(joined)
    IN  IF S = {} THEN NoMatch ELSE CHOOSE r \in S : \A q \in S : r <= q

\* Mutant: a chain that shares no strand continues the row that ends on its port.
MatchByPort(c, inScope, joined) ==
    LET stored == {r \in inScope \cup joined : StrandsOf(rows[r].hops) \cap StrandsOf(c.hops) # {}}
        onPort == {r \in inScope : rows[r].hops # <<>>
                                    /\ {c.a.port, c.b.port} \cap Ports(rows[r]) # {}}
    IN  IF stored \cup onPort = {} THEN NoMatch
        ELSE CHOOSE r \in (IF stored # {} THEN stored ELSE onPort) : TRUE

\* _match
Match(c, inScope, joined) ==
    LET stored == {i \in DOMAIN c.hops : /\ c.hops[i] \in Strand
                                         /\ \E r \in inScope \cup joined : c.hops[i] \in Range(rows[r].hops)}
    IN  IF stored # {}
        THEN CHOOSE r \in inScope \cup joined : c.hops[Min(stored)] \in Range(rows[r].hops)
        ELSE IF StrandsOf(c.hops) # {} THEN NoMatch
        ELSE LET first == ByEndHop(inScope, joined, Head(c.hops))
             IN  IF first # NoMatch THEN first ELSE ByEndHop(inScope, joined, Last(c.hops))

Earlier(c, d) == \/ c.rank[1] < d.rank[1]
                 \/ c.rank[1] = d.rank[1] /\ c.rank[2] <= d.rank[2]

\* Mutant: the first chain of a cut keeps the row.
FirstKeeper(hops, candidates) == CHOOSE c \in candidates : \A d \in candidates : Earlier(c, d)

\* _keeper
Keeper(hops, candidates) ==
    LET holders == {c \in candidates : Anchor(hops) \in Range(c.hops)}
        S == IF holders # {} THEN holders ELSE candidates
    IN  CHOOSE c \in S : \A d \in S : Earlier(c, d)

\* Chain.reversed
Reversed(c) == [c EXCEPT !.hops = Reverse(c.hops), !.a = c.b, !.b = c.a]

IndexOf(seq, h) == CHOOSE i \in DOMAIN seq : seq[i] = h

\* _oriented
Oriented(c, hops) ==
    LET shared == {i \in DOMAIN c.hops : c.hops[i] \in StrandsOf(hops)}
        against == IF Cardinality(shared) >= 2
                   THEN IndexOf(hops, c.hops[Min(shared)]) > IndexOf(hops, c.hops[Max(shared)])
                   ELSE Head(c.hops) # Anchor(hops) /\ Last(c.hops) = Anchor(hops)
    IN  IF against THEN Reversed(c) ELSE c

AsRow(c) == [hops |-> c.hops, a |-> c.a, b |-> c.b, bad |-> c.bad]

\* Mutant: assigned paths are deleted as well.
DroppedAll(lost) == lost

\* _drop_lost: what an assignment references stays, without hops.
Dropped(lost) == lost \ assigned
HopLess(row) == [row EXCEPT !.hops = <<>>, !.bad = FALSE]

\* Rewrite in place, split on cuts, create the new, drop the lost.
WriteResults(chains, inScope, joined) ==
    LET scope == inScope \cup joined
        match == [c \in chains |-> Match(c, inScope, joined)]
        found == {match[c] : c \in chains} \ {NoMatch}
        keeper == [r \in found |-> Keeper(rows[r].hops, {c \in chains : match[c] = r})]
        new == chains \ {keeper[r] : r \in found}
        key(c) == issued + Cardinality({d \in new : Earlier(d, c)})
        lost == Dropped(scope \ found)
    IN  /\ rows' = [r \in (DOMAIN rows \ lost) \cup {key(c) : c \in new} |->
                      IF r > issued THEN AsRow(CHOOSE c \in new : key(c) = r)
                      ELSE IF r \in found THEN AsRow(Oriented(keeper[r], rows[r].hops))
                      ELSE IF r \in scope THEN HopLess(rows[r])
                      ELSE rows[r]]
        /\ issued' = issued + Cardinality(new)
        /\ dirty' = {}
        /\ UNCHANGED <<plant, assigned, changes>>

(***************************************************************************)
(* The two analyses.                                                       *)
(***************************************************************************)

\* Mutant: rows elsewhere that hold a walked strand are not looked for.
JoinedNone(strands, inScope) == {}

\* A splice may have joined a path from elsewhere.
Joined(strands, inScope) ==
    {r \in DOMAIN rows \ inScope : StrandsOf(rows[r].hops) \cap strands # {}}

\* analyze_devices
Run ==
    /\ dirty # {}
    /\ LET g == Load(plant, dirty)
           inScope == {r \in DOMAIN rows : PathDevices(plant, rows[r]) \cap dirty # {}}
           starts == {q \in FrontPort : DeviceOf[q] \in dirty}
                     \cup (UNION {Ports(rows[r]) : r \in inScope})
                     \cup (UNION {Landings(plant, s) : s \in
                             g.strands \cap (UNION {StrandsOf(rows[r].hops) : r \in inScope})})
           chains == Walk(plant, g, starts)
           strands == UNION {StrandsOf(c.hops) : c \in chains}
       IN  WriteResults(chains, inScope, Joined(strands, inScope))
    /\ UNCHANGED unheard

\* The whole plant, around every device with a fiber or on a path.
LoadAll(pl, stored) ==
    Load(pl, FiberDevices(pl) \cup UNION {PathDevices(pl, stored[r]) : r \in DOMAIN stored})

\* run_reconcile
Reconcile ==
    /\ issued < MaxRow
    /\ WriteResults(WalkAll(plant, LoadAll(plant, rows)), DOMAIN rows, {})
    /\ unheard' = FALSE

\* The changes the plugin listens to.
PlantChange ==
    \/ \E k \in Cable, side \in {"A", "B"} : Terminate(k, side) \/ Detach(k, side)
    \/ \E k \in Cable : DeleteCable(k) \/ DeleteFiberCable(k)
    \/ \E j \in Jumper : Splice(j) \/ Unsplice(j)
    \/ \E s \in Strand, side \in {"A", "B"} :
         \E q \in MayLand[s][side] \cup {NoPort} : Land(s, side, q)
    \/ \E h \in Hop : Report(h) \/ Resolve(h)

Next ==
    \/ PlantChange
    \/ \E r \in DOMAIN rows : Assign(r) \/ Unassign(r)
    \/ Run
    \/ Reconcile

Spec == Init /\ [][Next]_vars

(***************************************************************************)
(* What users of the plant keep to, and no constraint enforces: a strand   *)
(* lands behind the two ends of one crossing, never across two.            *)
(***************************************************************************)

LandsBehind(pl, s, x) == \E q \in Landings(pl, s) : Behind[q] \in {x[1], x[2]}

CrossesOnce(pl) ==
    \A s \in Strand : \A k, l \in pl.cables : \A x \in Positions[k], y \in Positions[l] :
        LandsBehind(pl, s, x) /\ LandsBehind(pl, s, y) => x = y

(***************************************************************************)
(* What must hold.                                                         *)
(***************************************************************************)

\* No strand is on two stored rows, or twice on one: circuits and the deletion
\* guards take the row a strand is on for the strand's only one (write_results
\* gives each chain one row and looks for the rows that shared its strands).
OneRowPerStrand ==
    \A s \in Strand :
        Cardinality({at \in UNION {{r} \X DOMAIN rows[r].hops : r \in DOMAIN rows} :
                       rows[at[1]].hops[at[2]] = s}) <= 1

\* Once the queue is empty the rows with a strand are exactly such chains of the
\* plant, each in one of its two directions, whatever the incremental runs looked
\* at (analyze_devices against run_reconcile).  Chains of plain cables come and go
\* with the region loaded.
StoredIsWalk ==
    dirty = {} /\ ~unheard =>
        LET chains == {c \in WalkAll(plant, LoadAll(plant, rows)) : StrandsOf(c.hops) # {}}
            stored == {r \in DOMAIN rows : StrandsOf(rows[r].hops) # {}}
        IN  /\ Cardinality(stored) = Cardinality(chains)
            /\ \A c \in chains : \E r \in stored : rows[r] \in {AsRow(c), AsRow(Reversed(c))}

\* Rows never move to other fiber: what a row is after a step keeps one of the hops
\* it had before, or has none at all (_match, the cascades of a deletion).  An
\* assigned row stays (_drop_lost).
RowsKeepTheirFiber ==
    [][/\ assigned \subseteq DOMAIN rows'
       /\ \A r \in DOMAIN rows \cap DOMAIN rows' :
            rows'[r].hops # <<>> => Range(rows[r].hops) \cap Range(rows'[r].hops) # {}]_vars

\* A cut leaves the row with the piece that holds the row's first strand (_keeper):
\* another row has that strand after a step only if it also has fiber of a path
\* that was another one.
CutKeepsFirst ==
    [][\A r \in DOMAIN rows : StrandsOf(rows[r].hops) # {} =>
         \A q \in DOMAIN rows' \ {r} : Anchor(rows[r].hops) \in Range(rows'[q].hops) =>
            \E p \in DOMAIN rows \ {r} :
              StrandsOf(rows[p].hops) \cap StrandsOf(rows'[q].hops) # {}]_vars

(***************************************************************************)
(* What the documentation says.                                            *)
(***************************************************************************)

\* _oriented: end A stays end A and an unchanged path is not rewritten.
UnchangedNotRewritten ==
    [][UNCHANGED plant /\ dirty = {} /\ ~unheard =>
         \A r \in DOMAIN rows : StrandsOf(rows[r].hops) # {}
            => r \in DOMAIN rows' /\ rows'[r] = rows[r]]_vars
=============================================================================
