----------------------------- MODULE ClosureTrays -----------------------------
(***************************************************************************)
(* One closure: the cables that enter it, the profiles of its trays, the   *)
(* TubeAssignment rows and the front ports they move, and auto-assignment. *)
(*                                                                         *)
(* An edit is checked by clean() and written later, in its own database    *)
(* calls, and a deletion loads its rows before it deletes them, so the     *)
(* requests of several users interleave between the two.                   *)
(***************************************************************************)
EXTENDS Integers, Sequences, FiniteSets, SequencesExt

CONSTANTS
    User,
    Cable,
    Tube,
    CableOf,      \* CableOf[t]: fiber cable of buffer tube t
    PositionOf,   \* PositionOf[t]: position of tube t in its cable
    StrandsOf,    \* StrandsOf[t]: strands of tube t; each has a port when its cable is linked
    Tray,         \* modules of the closure: primary keys
    TrayType,
    TypeOf,       \* TypeOf[m]: module type of module m
    SpliceCap,    \* SpliceCap[y]: splice_capacity of the profile of type y
    TubeCap,      \* TubeCap[y]: tube_capacity, or NoLimit
    NoLimit,
    MaxRow,       \* bound: TubeAssignment rows ever made
    MaxMove,      \* bound: ports moved by hand
    MaxRequest    \* bound: edits asked for

Strand == UNION Range(StrandsOf)
TubeWith(s) == CHOOSE t \in Tube : s \in StrandsOf[t]

ASSUME ClosureTraysAssumption ==
    /\ Tray \subseteq Nat \ {0}
    /\ CableOf \in [Tube -> Cable] /\ PositionOf \in [Tube -> Nat]
    /\ DOMAIN StrandsOf = Tube
    /\ \A t, u \in Tube : t # u => StrandsOf[t] \cap StrandsOf[u] = {}
    /\ TypeOf \in [Tray -> TrayType]
    /\ SpliceCap \in [TrayType -> Nat] /\ TubeCap \in [TrayType -> Nat \cup {NoLimit}]
    /\ {MaxRow, MaxMove, MaxRequest} \subseteq Nat

\* ClosureCableEntry rows of the closure.
Entries == SUBSET Cable

VARIABLES
    role,      \* role[y]: tray_role of the TrayProfile of type y, or "none"
    entered,   \* cables with a ClosureCableEntry
    rows,      \* TubeAssignment rows by primary key
    module,    \* module[s]: what the closure-side front port of strand s sits on
    request,   \* request[u]: what user u has had checked or loaded, and not written
    asked,     \* edits asked for so far, for the bound
    moves,     \* ports moved by hand so far, for the bound
    strayed    \* history: ports moved by hand, linked later than their tube was assigned,
               \* or of a tube whose row changed between the load and the deletion of it

vars == <<role, entered, rows, module, request, asked, moves, strayed>>

Role == {"splice_tray", "express_basket", "none"}
Device == 0        \* no module; primary keys start at 1
NoPort == -1
Gone == [gone |-> TRUE]
Idle == [op |-> "idle"]

Row == [tube : Tube, tray : Tray]
Placement == Seq(Row)
Request ==
    {Idle} \cup [op : {"assign"}, tube : Tube, tray : Tray, confirmed : SUBSET Strand]
           \cup [op : {"edit"}, row : 1 .. MaxRow, tube : Tube, tray : Tray, confirmed : SUBSET Strand]
           \cup [op : {"profile"}, type : TrayType, role : Role \ {"none"}]

TypeOK ==
    /\ role \in [TrayType -> Role]
    /\ entered \in Entries
    /\ rows \in Seq(Row \cup {Gone}) /\ Len(rows) <= MaxRow
    /\ \A i, j \in DOMAIN rows :
        i # j => rows[i] = Gone \/ rows[j] = Gone \/ rows[i].tube # rows[j].tube
    /\ module \in [Strand -> Tray \cup {Device, NoPort}]
    /\ \A u \in User : \/ request[u] \in Request
                       \/ request[u].op = "auto" /\ request[u].placed \in Placement
                       \/ /\ request[u].op = "delete" /\ request[u].leaving \subseteq Cable
                          /\ \E on \in SUBSET DOMAIN rows : request[u].loaded \in [on -> Row]
    /\ asked \in 0 .. MaxRequest /\ moves \in 0 .. MaxMove
    /\ strayed \subseteq Strand

(***************************************************************************)
(* Rows and ports.                                                         *)
(***************************************************************************)

Live(all) == {all[i] : i \in {j \in DOMAIN all : all[j] # Gone}}
Assigned(all, t) == \E row \in Live(all) : row.tube = t
IsSpliceTray(m) == role[TypeOf[m]] = "splice_tray"

\* closure_side_ports
PortsOf(t) == {s \in StrandsOf[t] : module[s] # NoPort}

\* sync_tube_assignment_ports: every port of the tube, wherever it is.  Its check of the
\* tray's role sees the profile clean() loaded.
Synced(at, row) ==
    [s \in Strand |-> IF s \in PortsOf(row.tube) THEN row.tray ELSE at[s]]

\* clear_tube_assignment_ports: the ports still on the tray.
Released(row) == {s \in PortsOf(row.tube) : module[s] = row.tray}
Cleared(ports) == [s \in Strand |-> IF s \in ports THEN Device ELSE module[s]]

\* Mutant: without the constraint.
AnyRows(all, i, t) == TRUE

\* unique_together of closure and tube, but for row i itself.
UniqueRows(all, i, t) == ~\E j \in DOMAIN all \ {i} : all[j] # Gone /\ all[j].tube = t

(***************************************************************************)
(* clean() of an assignment and of a profile, and the writes.              *)
(***************************************************************************)

\* TubeAssignment.clean; closures have one tray of the module each.
Valid(t, m) == IsSpliceTray(m) /\ CableOf[t] \in entered

\* conflicting_front_ports: on a module that is none of these trays.  Forms and API refuse
\* the request until the user confirms them; the closure's card does not ask, as if
\* confirmed.
Conflicting(t, trays) == {s \in PortsOf(t) : module[s] \notin {Device, NoPort} \cup trays}

Ask(u, req) ==
    /\ request[u] = Idle
    /\ request' = [request EXCEPT ![u] = req]
    /\ asked < MaxRequest /\ asked' = asked + 1
    /\ UNCHANGED <<role, entered, rows, module, moves, strayed>>

\* Form, REST API or card: the conflicts, validate_unique and clean.
CheckAssign(u, t, m) ==
    /\ Valid(t, m)
    /\ ~Assigned(rows, t)
    /\ Ask(u, [op |-> "assign", tube |-> t, tray |-> m, confirmed |-> Conflicting(t, {m})])

CheckEdit(u, i, t, m) ==
    /\ i \in DOMAIN rows /\ rows[i] # Gone
    /\ Valid(t, m)
    /\ UniqueRows(rows, i, t)
    /\ Ask(u, [op |-> "edit", row |-> i, tube |-> t, tray |-> m,
               confirmed |-> Conflicting(t, {m, rows[i].tray})])

\* TrayProfile.clean
RoleFree(y, r) == r = "splice_tray" \/ (\A row \in Live(rows) : TypeOf[row.tray] # y)

CheckProfile(u, y, r) ==
    /\ RoleFree(y, r)
    /\ Ask(u, [op |-> "profile", type |-> y, role |-> r])

Answer(u) == request' = [request EXCEPT ![u] = Idle]

\* The INSERT and its post_save.
WriteAssign(u) ==
    LET row == [tube |-> request[u].tube, tray |-> request[u].tray] IN
    /\ request[u].op = "assign"
    /\ Len(rows) < MaxRow
    /\ UniqueRows(rows, 0, row.tube)
    /\ rows' = Append(rows, row)
    /\ module' = Synced(module, row)
    /\ strayed' = strayed \ StrandsOf[row.tube]
    /\ Answer(u)
    /\ UNCHANGED <<role, entered, asked, moves>>

\* Mutant: pre_save compares the trays only.
MovedTray(old, row) == old.tray # row.tray

\* pre_save looks the stored row up anew and releases its ports when it moves.
Moved(old, row) == old # row

\* The UPDATE, or the INSERT of a row that was deleted meanwhile.
WriteEdit(u) ==
    LET i   == request[u].row
        row == [tube |-> request[u].tube, tray |-> request[u].tray]
        at  == IF rows[i] # Gone /\ Moved(rows[i], row) THEN Cleared(Released(rows[i])) ELSE module IN
    /\ request[u].op = "edit"
    /\ UniqueRows(rows, i, row.tube)
    /\ rows' = [rows EXCEPT ![i] = row]
    /\ module' = Synced(at, row)
    /\ strayed' = strayed \ StrandsOf[row.tube]
    /\ Answer(u)
    /\ UNCHANGED <<role, entered, asked, moves>>

WriteProfile(u) ==
    /\ request[u].op = "profile"
    /\ role' = [role EXCEPT ![request[u].type] = request[u].role]
    /\ Answer(u)
    /\ UNCHANGED <<entered, rows, module, asked, moves, strayed>>

\* The unique constraint fails the write.
WriteFails(u) ==
    /\ \/ request[u].op = "assign" /\ ~UniqueRows(rows, 0, request[u].tube)
       \/ request[u].op = "edit" /\ ~UniqueRows(rows, request[u].row, request[u].tube)
    /\ Answer(u)
    /\ UNCHANGED <<role, entered, rows, module, asked, moves, strayed>>

\* Cables whose entry is being deleted, in a transaction that has yet to commit.
Locked == UNION {request[u].leaving : u \in {v \in User : request[v].op = "delete"}}

\* The collector loads the rows it is to delete.
LoadRows(u, gone, leaving) ==
    /\ request[u] = Idle
    /\ request' = [request EXCEPT ![u] = [op |-> "delete", leaving |-> leaving,
                                          loaded |-> [i \in gone |-> rows[i]]]]
    /\ UNCHANGED <<role, entered, rows, module, asked, moves, strayed>>

\* From the closure's card, the row's page or a list.
Unassign(u, t) ==
    /\ Assigned(rows, t)
    /\ LoadRows(u, {i \in DOMAIN rows : rows[i] # Gone /\ rows[i].tube = t}, {})

\* Rows loaded that have changed since.
Late(loaded) == {i \in DOMAIN loaded : rows[i] # loaded[i]}
Straying(loaded) ==
    UNION {UNION {StrandsOf[row.tube] : row \in {loaded[i], rows[i]} \ {Gone}} : i \in Late(loaded)}

\* They go by primary key, as they are by now; each releases its ports by the tube and
\* the tray it was loaded with (post_delete).
DeleteRows(u) ==
    LET loaded == request[u].loaded IN
    /\ request[u].op = "delete"
    /\ rows' = [i \in DOMAIN rows |-> IF i \in DOMAIN loaded THEN Gone ELSE rows[i]]
    /\ module' = Cleared(UNION {Released(loaded[i]) : i \in DOMAIN loaded})
    /\ strayed' = strayed \cup Straying(loaded)
    /\ entered' = entered \ request[u].leaving
    /\ Answer(u)
    /\ UNCHANGED <<role, asked, moves>>

\* A profile is deleted whatever is assigned.
DeleteProfile(y) ==
    /\ role[y] # "none"
    /\ role' = [role EXCEPT ![y] = "none"]
    /\ UNCHANGED <<entered, rows, module, request, asked, moves, strayed>>

(***************************************************************************)
(* Cables and ports.                                                       *)
(***************************************************************************)

\* By the entry's own form, or with its gland label.
EnterCable(c) ==
    /\ c \notin entered
    /\ entered' = entered \cup {c}
    /\ UNCHANGED <<role, rows, module, request, asked, moves, strayed>>

\* Deleting the entry loads and deletes the assignments of its cable, before the commit.
LeaveCable(u, c) ==
    /\ c \in entered \ Locked
    /\ LoadRows(u, {i \in DOMAIN rows : rows[i] # Gone /\ CableOf[rows[i].tube] = c}, {c})

\* Editing it to name another cable does not.
RepointEntry(c, d) ==
    /\ c \in entered \ Locked /\ d \notin entered
    /\ entered' = (entered \ {c}) \cup {d}
    /\ UNCHANGED <<role, rows, module, request, asked, moves, strayed>>

\* link_cable_topology provisions the ports at device level.
LinkCable(c) ==
    LET new == UNION {StrandsOf[t] : t \in {v \in Tube : CableOf[v] = c}} IN
    /\ \E s \in new : module[s] = NoPort
    /\ module' = [s \in Strand |-> IF s \in new THEN Device ELSE module[s]]
    /\ strayed' = strayed \cup {s \in new : Assigned(rows, TubeWith(s))}
    /\ UNCHANGED <<role, entered, rows, request, asked, moves>>

MoveByHand(s, m) ==
    /\ moves < MaxMove /\ moves' = moves + 1
    /\ module[s] \notin {NoPort, m}
    /\ module' = [module EXCEPT ![s] = m]
    /\ strayed' = strayed \cup {s}
    /\ UNCHANGED <<role, entered, rows, request, asked>>

(***************************************************************************)
(* Auto-assignment.                                                        *)
(***************************************************************************)

TubesOn(placed, m) == {row.tube : row \in {r \in placed : r.tray = m}}
StrandTotal(tubes) == Cardinality(UNION {StrandsOf[t] : t \in tubes})

\* TrayUtilization: no more tubes than tube_capacity, no more strands than two
\* per splice.
WithinCapacity(m, tubes) ==
    /\ TubeCap[TypeOf[m]] = NoLimit \/ Cardinality(tubes) <= TubeCap[TypeOf[m]]
    /\ StrandTotal(tubes) <= 2 * SpliceCap[TypeOf[m]]

\* Mutant: fits looks at the strands only.
StrandsFit(placed, m, tubes) ==
    StrandTotal(TubesOn(placed, m) \cup tubes) <= 2 * SpliceCap[TypeOf[m]]

\* fits: on the tray as it is filled so far.
Fits(placed, m, tubes) == WithinCapacity(m, TubesOn(placed, m) \cup tubes)

\* Mutant: the last tray with room.
LastFit(before, placed, tubes) ==
    LET room == {m \in Tray : IsSpliceTray(m) /\ Fits(before \cup Range(placed), m, tubes)}
    IN  IF room = {} THEN {} ELSE {Max(room)}

\* first_fit: the first splice tray with room for them all.
FirstFit(before, placed, tubes) ==
    LET room == {m \in Tray : IsSpliceTray(m) /\ Fits(before \cup Range(placed), m, tubes)}
    IN  IF room = {} THEN {} ELSE {Min(room)}

\* place, for tubes in a given order.
PlaceAll(before, placed, tubes) ==
    LET m == FirstFit(before, placed, {tubes[k] : k \in DOMAIN tubes})
    IN  placed \o [k \in 1 .. Cardinality(m) * Len(tubes) |->
                      [tube |-> tubes[k], tray |-> CHOOSE x \in m : TRUE]]

Unassigned == {t \in Tube : CableOf[t] \in entered /\ ~Assigned(rows, t)}

\* Tubes at one position, by cable.
GroupAt(n) == SetToSeq({t \in Unassigned : PositionOf[t] = n})

\* A group that fits nowhere is split tube by tube.
PlaceGroup(before, placed, group) ==
    LET together == PlaceAll(before, placed, group)
    IN  IF together # placed THEN together
        ELSE FoldLeft(LAMBDA acc, t : PlaceAll(before, acc, <<t>>), placed, group)

Positions == SetToSortSeq({PositionOf[t] : t \in Unassigned}, <)

Placed == FoldLeft(LAMBDA acc, n : PlaceGroup(Live(rows), acc, GroupAt(n)), <<>>, Positions)

\* auto_assign_tubes up to assign_tubes.  History: what it saw.
PlanAuto(u) ==
    /\ \E m \in Tray : IsSpliceTray(m)
    /\ Placed # <<>>
    /\ Ask(u, [op |-> "auto", placed |-> Placed])

\* _check_tubes: known tubes on trays of the closure, each named once.
Placeable(placed) ==
    /\ placed \in Placement
    /\ \A k \in DOMAIN placed : /\ Valid(placed[k].tube, placed[k].tray)
                                /\ ~Assigned(rows, placed[k].tube)
    /\ \A k, l \in DOMAIN placed : k # l => placed[k].tube # placed[l].tube

\* The ports of every tube placed, whichever row is saved first.
SyncedAll(at, placed) ==
    [s \in Strand |-> LET of == {k \in DOMAIN placed : s \in PortsOf(placed[k].tube)}
                      IN  IF of = {} THEN at[s] ELSE placed[CHOOSE k \in of : TRUE].tray]

\* assign_tubes: checked again, and saved row by row in one transaction.
WriteAuto(u) ==
    LET placed == request[u].placed IN
    /\ request[u].op = "auto"
    /\ Placeable(placed)
    /\ Len(rows) + Len(placed) <= MaxRow
    /\ rows' = rows \o placed
    /\ module' = SyncedAll(module, placed)
    /\ strayed' = strayed \ UNION {StrandsOf[placed[k].tube] : k \in DOMAIN placed}
    /\ Answer(u)
    /\ UNCHANGED <<role, entered, asked, moves>>

AutoFails(u) ==
    /\ request[u].op = "auto"
    /\ ~Placeable(request[u].placed)
    /\ Answer(u)
    /\ UNCHANGED <<role, entered, rows, module, asked, moves, strayed>>

(***************************************************************************)
(* The specification.                                                      *)
(***************************************************************************)

\* A closure as create_splice_closure leaves it.
Init ==
    /\ role = [y \in TrayType |-> "splice_tray"]
    /\ entered = {}
    /\ rows = <<>>
    /\ module = [s \in Strand |-> NoPort]
    /\ request = [u \in User |-> Idle]
    /\ asked = 0
    /\ moves = 0
    /\ strayed = {}

Next ==
    \/ \E u \in User :
        \/ \E t \in Tube, m \in Tray :
              \/ CheckAssign(u, t, m)
              \/ \E i \in DOMAIN rows : CheckEdit(u, i, t, m)
        \/ \E y \in TrayType, r \in Role \ {"none"} : CheckProfile(u, y, r)
        \/ PlanAuto(u)
        \/ WriteAssign(u) \/ WriteEdit(u) \/ WriteProfile(u) \/ WriteFails(u)
        \/ WriteAuto(u) \/ AutoFails(u)
        \/ \E t \in Tube : Unassign(u, t)
        \/ \E c \in Cable : LeaveCable(u, c)
        \/ DeleteRows(u)
    \/ \E y \in TrayType : DeleteProfile(y)
    \/ \E c \in Cable : EnterCable(c) \/ LinkCable(c)
    \/ \E c, d \in Cable : RepointEntry(c, d)
    \/ \E s \in Strand, m \in Tray \cup {Device} : MoveByHand(s, m)

Spec == Init /\ [][Next]_vars

(***************************************************************************)
(* Properties.                                                             *)
(***************************************************************************)

\* No tube is assigned to an express basket.  TrayProfile.clean
\* (models.py:1886) refuses the role while assignments exist, which "would
\* strand assignments in a state the rest of the plugin considers impossible";
\* its check and an assignment's check are not in the transactions that write.
NoTubeOnBasket == \A row \in Live(rows) : role[TypeOf[row.tray]] # "express_basket"

\* A port stays with its tube: on the tube's tray while the tube is assigned,
\* at device level when it is not, across re-pointed, deleted and re-created
\* assignments and the removal of the cable's entry.  Left where they are until
\* the tube is assigned anew: ports moved by hand or linked after the assignment,
\* and those of a row that others edit, delete or insert again between its load
\* and its deletion (DeletedReleases).
PortsFollowTube ==
    \A s \in Strand \ strayed :
        \/ module[s] = NoPort
        \/ \E row \in Live(rows) : row.tube = TubeWith(s) /\ module[s] = row.tray
        \/ ~Assigned(rows, TubeWith(s)) /\ module[s] = Device

\* "Return the tube's front ports to device level" (signals.py:517): once the
\* assignment is deleted, none of its ports is left on a tray.
DeletedReleases ==
    [][\A u \in User : DeleteRows(u) =>
         \A s \in Strand \ strayed :
            Assigned(rows, TubeWith(s)) /\ ~Assigned(rows', TubeWith(s)) => module'[s] \in {Device, NoPort}]_vars

\* docs/user-guide/splice-planning.md: a port on another module is moved only
\* when the user confirmed it.
OnlyConfirmedMoves ==
    [][\A u \in User :
         WriteAssign(u) \/ WriteEdit(u)
         => \A s \in PortsOf(request[u].tube) \ request[u].confirmed :
              module[s] \in {Device, request[u].tray}
                            \cup {rows[i].tray : i \in {j \in DOMAIN rows : rows[j] # Gone /\ rows[j].tube = request[u].tube}}]_vars

\* Every assigned tube's cable enters the closure: TubeAssignment.clean
\* demands it and deleting an entry takes the assignments with it.
AssignedEnters == \A row \in Live(rows) : CableOf[row.tube] \in entered

Group(t) == {v \in Unassigned : PositionOf[v] = PositionOf[t]}

\* What auto_assign_tubes promises of a placement (services.py:963).
WellPlaced(placed) ==
    LET given == Range(placed)
        after == Live(rows) \cup given
        splice == {m \in Tray : IsSpliceTray(m)}
        Room(all, m, tubes) == WithinCapacity(m, TubesOn(all, m) \cup tubes)
        Earlier(t) == Live(rows) \cup {r \in given : PositionOf[r.tube] < PositionOf[t]}
        Mates(row) == {r.tube : r \in {g \in given : /\ g.tray = row.tray
                                                     /\ PositionOf[g.tube] = PositionOf[row.tube]}}
    IN  \* no tray is filled past its profile,
        /\ \A row \in given : Room(after, row.tray, {})
        \* a tube left out fits nowhere,
        /\ \A t \in Unassigned : \/ \E row \in given : row.tube = t
                                \/ \A m \in splice : ~Room(after, m, {t})
        \* a position is split only if no tray had room for it whole,
        /\ \A t \in Unassigned : \/ \E m \in splice : \A v \in Group(t) : [tube |-> v, tray |-> m] \in given
                                \/ \A m \in splice : ~Room(Earlier(t), m, Group(t))
        \* and trays fill in order.
        /\ \A row \in given : \A m \in {n \in splice : n < row.tray} : ~Room(after, m, Mates(row))

AutoPlaced ==
    [][\A u \in User : request[u] # request'[u] /\ request'[u].op = "auto"
                            => WellPlaced(request'[u].placed)]_vars
=============================================================================
