------------------------- MODULE CircuitAssignment -------------------------
(***************************************************************************)
(* Fiber circuits and the fiber paths assigned to them: assignment.py      *)
(* (assign, acknowledge, authorize), the verdict half of path_analysis.py  *)
(* (evaluate_assignments, sync_circuit_broken, what becomes of lost paths) *)
(* and models.py FiberCircuit.save (decommission, reactivate).             *)
(*                                                                         *)
(* A hop list is a value of Route, or Cut when it is empty; plant[p] is    *)
(* what the next walk yields for path p.  Which chain continues which      *)
(* stored path is left to the writer.                                      *)
(*                                                                         *)
(* The analysis and the requests load rows and write whole rows back       *)
(* later.  Serial says whether one may run between the steps of another.   *)
(***************************************************************************)
EXTENDS Naturals, FiniteSets

CONSTANTS
    Circuit,      \* fiber circuits
    Path,         \* primary keys a stored path may get
    Route,        \* non-empty hop lists
    Cut,          \* the empty hop list
    EndStrands,   \* EndStrands[h]: the first and last strand of hop list h
    StrandCount,  \* how many paths a circuit may assign
    Request,      \* request handlers
    Serial,       \* TRUE when the analysis and the requests do not overlap
    MaxChanges    \* bound: changes of the plant

Hops == Route \cup {Cut}

ASSUME CircuitAssumption ==
    /\ Cut \notin Route
    /\ DOMAIN EndStrands = Hops
    /\ \A h \in Route : EndStrands[h] # EndStrands[Cut]
    /\ StrandCount \in Nat /\ MaxChanges \in Nat
    /\ Serial \in BOOLEAN

VARIABLES
    plant,    \* plant[p]: hops and fault the next walk finds for path p
    stored,   \* stored[p]: the FiberStrandPath row
    circuit,  \* circuit[c]: the FiberCircuit row, its assignments, its authorization
    run,      \* the analysis run in progress
    req,      \* req[r]: what handler r has loaded
    changes   \* plant changes so far

vars == <<plant, stored, circuit, run, req, changes>>

Live == "live"                      \* planned, staged or active
Decommissioned == "decommissioned"

Walked == [hops : Hops, fault : BOOLEAN]

\* fresh: the row's own columns describe its hops; a hop row that cascaded away
\* with its cable leaves them (ends, route key) behind.
StoredPath == [state : {"unborn", "stored", "deleted"}, hops : Hops,
               defective : BOOLEAN, fresh : BOOLEAN]

Broken == {"faulted", "hops_changed", "path_lost"}

\* One assignment per circuit and path; "none" where there is no row.
Assignment == [active : BOOLEAN, hops : Hops, verdict : Broken \cup {"ok", "none"}]
NoRow == [active |-> FALSE, hops |-> Cut, verdict |-> "none"]

CircuitState == [status : {Live, Decommissioned}, broken : BOOLEAN,
                 rows : [Path -> Assignment], authorized : BOOLEAN]

NoRun == [phase |-> "idle"]
RunState == [phase : {"walked"}, region : SUBSET Path, walk : [Path -> Walked]]
            \cup
            [phase : {"evaluated"}, region : SUBSET Path, written : [Path -> StoredPath],
             scope : SUBSET Path, loaded : [Circuit -> CircuitState]]

Idle == [op |-> "idle"]
Busy == [op : {"edit"}, circuit : Circuit, status : {Live, Decommissioned}, loaded : CircuitState]
        \cup [op : {"acknowledge"}, circuit : Circuit, loaded : CircuitState,
              seen : [Path -> StoredPath]]
        \cup [op : {"assign"}, circuit : Circuit, path : Path, defective : BOOLEAN]

TypeOK ==
    /\ plant \in [Path -> Walked]
    /\ stored \in [Path -> StoredPath]
    /\ circuit \in [Circuit -> CircuitState]
    /\ run \in RunState \cup {NoRun}
    /\ req \in [Request -> Busy \cup {Idle}]
    /\ changes \in Nat

Unborn == [state |-> "unborn", hops |-> Cut, defective |-> FALSE, fresh |-> TRUE]
AsStored(walked) == [state |-> "stored", hops |-> walked.hops,
                     defective |-> walked.fault, fresh |-> TRUE]
NoFiber == [hops |-> Cut, fault |-> FALSE]

Init ==
    /\ plant \in [Path -> {w \in Walked : w.hops = Cut => ~w.fault}]
    /\ stored = [p \in Path |-> IF plant[p].hops = Cut THEN Unborn ELSE AsStored(plant[p])]
    /\ circuit = [c \in Circuit |-> [status |-> Live, broken |-> FALSE,
                                     rows |-> [p \in Path |-> NoRow], authorized |-> FALSE]]
    /\ run = NoRun
    /\ req = [r \in Request |-> Idle]
    /\ changes = 0

\* Serially, nothing starts while something runs.
MayStart == Serial => run = NoRun /\ \A r \in Request : req[r] = Idle

(***************************************************************************)
(* Verdicts.                                                               *)
(***************************************************************************)

Exists(row) == row.verdict # "none"
Referenced(p) == \E c \in Circuit : Exists(circuit[c].rows[p])
ActiveOn(p) == {c \in Circuit : circuit[c].rows[p].active}

HasBroken(rows) == \E p \in Path : rows[p].active /\ rows[p].verdict \in Broken

\* Mutant: the reason is cleared and the broken flag is not.
AcceptKeepsFlag(row, path) == [row EXCEPT !.hops = path.hops, !.verdict = "no_reason"]

\* accept_current_hops
Accept(row, path) == [row EXCEPT !.hops = path.hops, !.verdict = "ok"]

\* A healthy path whose hops changed between the same end strands.
Reroutable(row, path) ==
    /\ ~path.defective
    /\ path.hops \notin {row.hops, Cut}
    /\ EndStrands[path.hops] = EndStrands[row.hops]

\* evaluate_assignments for one active assignment.
Verdict(row, path, authorized) ==
    CASE path.defective -> [row EXCEPT !.verdict = "faulted"]
      [] ~path.defective /\ path.hops = row.hops -> Accept(row, path)
      [] authorized /\ Reroutable(row, path) -> Accept(row, path)
      [] OTHER -> [row EXCEPT !.verdict = IF path.hops = Cut THEN "path_lost" ELSE "hops_changed"]

\* The assignments of one circuit after its active rows on the paths of scope
\* were judged against paths.
Judged(rows, scope, paths, authorized) ==
    [p \in Path |-> IF p \in scope /\ rows[p].active
                    THEN Verdict(rows[p], paths[p], authorized) ELSE rows[p]]

\* Mutant: an authorization is never used up.
NeverConsumes(rows, scope, paths, authorized) == FALSE

Consumes(rows, scope, paths, authorized) ==
    authorized /\ \E p \in scope : rows[p].active /\ Reroutable(rows[p], paths[p])

(***************************************************************************)
(* FiberCircuit.save: status and flag written over what is stored as cs.   *)
(***************************************************************************)

Deactivated(rows) == [p \in Path |-> [rows[p] EXCEPT !.active = FALSE]]
Activated(rows) == [p \in Path |-> [rows[p] EXCEPT !.active = Exists(rows[p])]]

\* Mutant: reactivation trusts the verdicts of before.
ReactivateUnjudged(cs, broken, paths) ==
    [status |-> Live, broken |-> broken, rows |-> Activated(cs.rows), authorized |-> cs.authorized]

\* Every assignment comes back and is judged against the paths as they are; the
\* flag follows, unless there is nothing to judge.
Reactivate(cs, broken, paths) ==
    LET back == Activated(cs.rows)
        rows == Judged(back, Path, paths, cs.authorized) IN
    [status |-> Live,
     broken |-> IF \E p \in Path : Exists(back[p]) THEN HasBroken(rows) ELSE broken,
     rows |-> rows,
     authorized |-> cs.authorized /\ ~Consumes(back, Path, paths, cs.authorized)]

Save(cs, status, broken, paths) ==
    CASE status = cs.status -> [cs EXCEPT !.broken = broken]
      [] status # cs.status /\ status = Decommissioned ->
           [cs EXCEPT !.status = status, !.broken = broken, !.rows = Deactivated(@)]
      [] OTHER -> Reactivate(cs, broken, paths)

\* Mutant: the flag is derived from the assignments as they were loaded.
SyncBrokenStale(cs, loaded, paths) ==
    IF HasBroken(loaded.rows) = loaded.broken THEN cs
    ELSE Save(cs, loaded.status, HasBroken(loaded.rows), paths)

\* sync_circuit_broken on a circuit object loaded earlier: a full save of that
\* object when the flag flips.
SyncBroken(cs, loaded, paths) ==
    IF HasBroken(cs.rows) = loaded.broken THEN cs
    ELSE Save(cs, loaded.status, HasBroken(cs.rows), paths)

\* The partial unique index, and _check_reactivation before it.
OneActive(circuits) ==
    \A p \in Path, c, d \in Circuit :
        circuits[c].rows[p].active /\ circuits[d].rows[p].active => c = d

(***************************************************************************)
(* The plant changes.                                                      *)
(***************************************************************************)

\* A path row that lost its hops matches no chain any more.
Matchable(p) == stored[p].state = "unborn" \/ (stored[p].state = "stored" /\ stored[p].hops # Cut)

Change == changes < MaxChanges /\ changes' = changes + 1

\* Splices, faults and cables come and go; no hop row of p is deleted.
PlantChanges(p, walked) ==
    /\ Change
    /\ Matchable(p)
    /\ walked # plant[p]
    /\ plant' = [plant EXCEPT ![p] = walked]
    /\ UNCHANGED <<stored, circuit, run, req>>

\* A cable under p is deleted: its hop rows go at once, rest is what remains,
\* and the next walk yields walked.
LoseHops(p, rest, walked) ==
    /\ Change
    /\ MayStart
    /\ run = NoRun          \* a run that read the cable would be refused at commit
    /\ stored[p].state = "stored"
    /\ stored[p].hops \notin {Cut, rest}
    /\ rest = Cut => walked = NoFiber
    /\ stored' = [stored EXCEPT ![p].hops = rest, ![p].fresh = FALSE]
    /\ plant' = [plant EXCEPT ![p] = walked]

\* _protect_cable refuses while an active assignment runs over the cable.
CableDeleted(p, rest, walked) ==
    /\ ActiveOn(p) = {}
    /\ LoseHops(p, rest, walked)
    /\ UNCHANGED <<circuit, run, req>>

\* insert_slack_loop_into_closure bypasses the protection and authorizes the
\* circuits riding the cable.
SlackLoopInserted(p, rest, walked) ==
    /\ ActiveOn(p) # {}
    /\ LoseHops(p, rest, walked)
    /\ circuit' = [c \in Circuit |-> IF c \in ActiveOn(p)
                                     THEN [circuit[c] EXCEPT !.authorized = TRUE]
                                     ELSE circuit[c]]
    /\ UNCHANGED <<run, req>>

(***************************************************************************)
(* A run: walk, evaluate, commit.                                          *)
(***************************************************************************)

RunWalk(region) ==
    /\ run = NoRun
    /\ MayStart
    /\ region # {}
    /\ run' = [phase |-> "walked", region |-> region, walk |-> [p \in Path |-> IF p \in region THEN plant[p] ELSE NoFiber]]
    /\ UNCHANGED <<plant, stored, circuit, req, changes>>

\* A stored path no chain of the region continues.
LostPaths ==
    {p \in run.region : stored[p].state = "stored"
                        /\ (stored[p].hops = Cut \/ run.walk[p].hops = Cut)}

\* _drop_lost: an assigned path stays as a row without hops, another is deleted.
Dropped(p) == [state |-> IF Referenced(p) THEN "stored" ELSE "deleted",
               hops |-> Cut, defective |-> FALSE, fresh |-> TRUE]

\* write_results on the path rows.
Written ==
    [p \in Path |->
        IF p \notin run.region THEN stored[p]
        ELSE IF p \in LostPaths THEN Dropped(p)
        ELSE IF stored[p].state = "deleted" \/ run.walk[p].hops = Cut THEN stored[p]
        ELSE AsStored(run.walk[p])]

\* The paths evaluated: those rewritten, and the lost ones that are kept.
Evaluated == {p \in run.region : /\ stored[p].state = "stored"
                                 /\ p \in LostPaths \/ Written[p] # stored[p]}

\* evaluate_assignments loads the active assignments and their circuits.
RunEvaluate ==
    /\ run.phase = "walked"
    /\ run' = [phase |-> "evaluated", region |-> run.region, written |-> Written,
               scope |-> Evaluated, loaded |-> circuit]
    /\ UNCHANGED <<plant, stored, circuit, req, changes>>

\* Circuit c once the run has saved the assignments it changed, used up the
\* authorization and synced the flag.  An assignment is saved as it was loaded.
AfterRun(c) ==
    LET loaded == run.loaded[c]
        judged == Judged(loaded.rows, run.scope, run.written, loaded.authorized)
        rows == [p \in Path |-> IF judged[p] # loaded.rows[p] THEN judged[p]
                                ELSE circuit[c].rows[p]]
        used == Consumes(loaded.rows, run.scope, run.written, loaded.authorized)
        cs == [circuit[c] EXCEPT !.rows = rows, !.authorized = @ /\ ~used] IN
    IF \E p \in run.scope : loaded.rows[p].active THEN SyncBroken(cs, loaded, run.written)
    ELSE circuit[c]

\* The whole run becomes visible, or nothing of it when an assignment written
\* back collides with the unique index.  The reconcile also purges
\* authorizations that have waited a cycle.
RunCommit(expired) ==
    LET after == [c \in Circuit |-> IF c \in expired THEN [AfterRun(c) EXCEPT !.authorized = FALSE]
                                    ELSE AfterRun(c)] IN
    /\ run.phase = "evaluated"
    /\ expired # {} => run.region = Path
    /\ stored' = IF OneActive(after) THEN run.written ELSE stored
    /\ circuit' = IF OneActive(after) THEN after ELSE circuit
    /\ run' = NoRun
    /\ UNCHANGED <<plant, req, changes>>

(***************************************************************************)
(* Requests: load, then write.                                             *)
(***************************************************************************)

Load(r, q) ==
    /\ req[r] = Idle
    /\ MayStart
    /\ req' = [req EXCEPT ![r] = q]
    /\ UNCHANGED <<plant, stored, circuit, run, changes>>

\* A form or PATCH of the circuit, with or without a new status.
RequestEdit(r, c, status) ==
    Load(r, [op |-> "edit", circuit |-> c, status |-> status, loaded |-> circuit[c]])

\* acknowledge_route reads the assignments and the hops they would accept.
RequestAcknowledge(r, c) ==
    Load(r, [op |-> "acknowledge", circuit |-> c, loaded |-> circuit[c], seen |-> stored])

\* visible_paths loads the path before assign_paths locks it.
RequestAssign(r, c, p) ==
    /\ stored[p].state = "stored"
    /\ Load(r, [op |-> "assign", circuit |-> c, path |-> p, defective |-> stored[p].defective])

\* The write of handler r leaves circuit c as after, or is refused by the index
\* (for a reactivation, by _check_reactivation before it).
Write(r, c, after) ==
    LET circuits == [circuit EXCEPT ![c] = after] IN
    /\ circuit' = IF OneActive(circuits) THEN circuits ELSE circuit
    /\ req' = [req EXCEPT ![r] = Idle]
    /\ UNCHANGED <<plant, stored, run, changes>>

\* The whole loaded row is saved, is_broken included.
AfterEdit(q) == Save(circuit[q.circuit], q.status, q.loaded.broken, stored)

Edit(r) == req[r].op = "edit" /\ Write(r, req[r].circuit, AfterEdit(req[r]))

\* acknowledgeable_assignments, as request q loaded them.
Acknowledgeable(q) ==
    {p \in Path : /\ q.loaded.rows[p].active
                  /\ q.loaded.rows[p].verdict \in Broken
                  /\ ~q.seen[p].defective
                  /\ q.seen[p].hops # Cut}

\* The circuit once the acknowledged assignments are saved and the flag synced.
AfterAcknowledge(q) ==
    LET rows == [p \in Path |-> IF p \in Acknowledgeable(q)
                                THEN Accept(q.loaded.rows[p], q.seen[p])
                                ELSE circuit[q.circuit].rows[p]] IN
    SyncBroken([circuit[q.circuit] EXCEPT !.rows = rows], q.loaded, stored)

Acknowledge(r) ==
    req[r].op = "acknowledge" /\ Write(r, req[r].circuit, AfterAcknowledge(req[r]))

\* Mutant: the status of the circuit is not looked at.
MayAssignAnyStatus(q) ==
    /\ stored[q.path].state = "stored"
    /\ Cardinality({p \in Path : circuit[q.circuit].rows[p].active}) < StrandCount
    /\ ActiveOn(q.path) = {}
    /\ ~q.defective

\* _assignment_errors, under the locks of the circuit and the path; the defect
\* flag is the one loaded before.
MayAssign(q) ==
    /\ stored[q.path].state = "stored"
    /\ circuit[q.circuit].status # Decommissioned
    /\ Cardinality({p \in Path : circuit[q.circuit].rows[p].active}) < StrandCount
    /\ ActiveOn(q.path) = {}
    /\ ~q.defective

\* A run holds the rows of the paths it has written.
PathFree(p) == run.phase = "evaluated" => p \notin run.region

Assign(r) ==
    LET q == req[r]
        row == [active |-> TRUE, hops |-> stored[q.path].hops, verdict |-> "ok"] IN
    /\ q.op = "assign"
    /\ PathFree(q.path)
    /\ MayAssign(q)
    /\ Write(r, q.circuit, [circuit[q.circuit] EXCEPT !.rows[q.path] = row])

AssignRefused(r) ==
    /\ req[r].op = "assign"
    /\ PathFree(req[r].path)
    /\ ~MayAssign(req[r])
    /\ req' = [req EXCEPT ![r] = Idle]
    /\ UNCHANGED <<plant, stored, circuit, run, changes>>

\* An assignment is deleted; the flag of its circuit is not looked at.
Unassign(c, p) ==
    /\ MayStart
    /\ Exists(circuit[c].rows[p])
    /\ circuit' = [circuit EXCEPT ![c].rows[p] = NoRow]
    /\ UNCHANGED <<plant, stored, run, req, changes>>

(***************************************************************************)
(* The specification.                                                      *)
(***************************************************************************)

PlantStep(p) ==
    \E walked \in {w \in Walked : w.hops = Cut => ~w.fault} :
        \/ PlantChanges(p, walked)
        \/ \E rest \in Hops : CableDeleted(p, rest, walked) \/ SlackLoopInserted(p, rest, walked)

RunStep ==
    \/ \E region \in SUBSET Path : RunWalk(region)
    \/ RunEvaluate
    \/ \E expired \in SUBSET Circuit : RunCommit(expired)

Arrive(r, c) ==
    \/ \E status \in {Live, Decommissioned} : RequestEdit(r, c, status)
    \/ RequestAcknowledge(r, c)
    \/ \E p \in Path : RequestAssign(r, c, p)

Answer(r) ==
    \/ Edit(r)
    \/ Acknowledge(r)
    \/ Assign(r) \/ AssignRefused(r)

Next ==
    \/ \E p \in Path : PlantStep(p)
    \/ RunStep
    \/ \E r \in Request, c \in Circuit : Arrive(r, c)
    \/ \E r \in Request : Answer(r)
    \/ \E c \in Circuit, p \in Path : Unassign(c, p)

Spec == Init /\ [][Next]_vars

(***************************************************************************)
(* What must hold while the analysis and the requests are serial.          *)
(***************************************************************************)

\* A verdict stands for what is stored: unless a hop row of its path went away
\* and no run has been there yet, an active assignment is healthy exactly when
\* its path has the hops it was assigned with and no defect
\* (evaluate_assignments runs only over rewritten and lost paths, so every other
\* way a path, a snapshot or the active flag changes must keep this).
VerdictStands ==
    \A c \in Circuit, p \in Path :
        LET row == circuit[c].rows[p] IN
        row.active /\ stored[p].fresh =>
            (row.verdict = "ok" <=> row.hops = stored[p].hops /\ ~stored[p].defective)

\* A broken service is reported: is_broken is set while an active assignment of
\* the circuit is broken (sync_circuit_broken, called from run, acknowledgement
\* and reactivation).
BrokenReported == \A c \in Circuit : HasBroken(circuit[c].rows) => circuit[c].broken

\* Assignments are active exactly while their circuit is in service
\* (FiberCircuit.save, assign_paths).
ActiveWhileLive ==
    \A c \in Circuit, p \in Path :
        Exists(circuit[c].rows[p]) => (circuit[c].rows[p].active <=> circuit[c].status = Live)

\* A circuit is moved to other hops only with consent: an acknowledgement of that
\* circuit, or an authorization, which is used up and keeps the end strands
\* (evaluate_assignments, acknowledge_route).
ConsentedRoute ==
    [][\A c \in Circuit, p \in Path :
         LET before == circuit[c].rows[p]
             after == circuit'[c].rows[p] IN
         Exists(before) /\ Exists(after) /\ before.hops # after.hops =>
             \/ \E r \in Request : Acknowledge(r) /\ req[r].circuit = c
             \/ /\ circuit[c].authorized /\ ~circuit'[c].authorized
                /\ EndStrands[before.hops] = EndStrands[after.hops]]_vars

(***************************************************************************)
(* What the documentation says.                                            *)
(***************************************************************************)

\* docs/user-guide/fiber-circuits.md: an assignment whose path has no hops left
\* is broken.
HealthyHasFiber ==
    \A c \in Circuit, p \in Path :
        circuit[c].rows[p].active /\ stored[p].fresh /\ stored[p].hops = Cut
        => circuit[c].rows[p].verdict \in Broken

\* docs/user-guide/fiber-circuits.md: decommissioning deactivates the assignments
\* of a circuit.
DecommissionReleases ==
    \A c \in Circuit, p \in Path :
        circuit[c].status = Decommissioned => ~circuit[c].rows[p].active
=============================================================================
