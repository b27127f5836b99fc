------------------------------ MODULE SplicePlan ------------------------------
(***************************************************************************)
(* The splice plans of one closure: their lifecycle, the entries they      *)
(* claim fibers with, and how they are applied to the live splices         *)
(* (models.py SplicePlan and SplicePlanEntry, services.py diff / import /  *)
(* apply, api/views.py SplicePlanViewSet, views.py transition and Pending  *)
(* Work).  The diff stored with a plan is DiffCache's.                     *)
(*                                                                         *)
(* A request works on the plan row it loaded first: it loads, it checks    *)
(* against the database, it writes.  Serial says whether a request may     *)
(* arrive between the steps of another.                                    *)
(*                                                                         *)
(* Who may send a request (permissions) is left out: every request that    *)
(* some user may send can arrive.  Ports are those of one closure.         *)
(***************************************************************************)

CONSTANTS
    Port,         \* front ports of the closure
    TrayPort,     \* those whose tube is assigned to a tray; the others sit on the device
    Protected,    \* those an active circuit assignment runs over
    Pair,         \* bound: the <<fiber_a, fiber_b>> an entry or a cable may join
    Plan,         \* plan rows
    Request,      \* request handlers
    Serial        \* TRUE when requests do not overlap

Joints(pairs) == {{e[1], e[2]} : e \in pairs}
PortsOf(pairs) == {e[1] : e \in pairs} \cup {e[2] : e \in pairs}

ASSUME SplicePlanAssumption ==
    /\ TrayPort \subseteq Port /\ Protected \subseteq Port
    /\ Pair \subseteq Port \X Port
    /\ \A e \in Pair : /\ e[1] # e[2]
                       /\ e[2] \in TrayPort => e[1] \in TrayPort \/ <<e[2], e[1]>> \in Pair
    /\ Serial \in BOOLEAN

VARIABLES
    status,   \* status[p]: the plan's status; "none" before it exists, "deleted" after
    entries,  \* entries[p]: its SplicePlanEntry rows
    batch,    \* the transaction of Apply All, invisible to the others until it commits
    live,     \* the closure's front-port-to-front-port cables, as two-port sets
    req       \* req[r]: what handler r has loaded and found

vars == <<status, entries, live, req, batch>>

Draft == "draft"
Pending == "pending_approval"
Approved == "approved"
Archived == "archived"
Active == {Draft, Pending, Approved}
Status == Active \cup {Archived, "none", "deleted"}

\* _VALID_TRANSITIONS
ValidFrom(s) == CASE s = Draft    -> {Pending, Archived}
                  [] s = Pending  -> {Approved, Draft, Archived}
                  [] s = Approved -> {Archived, Draft}
                  [] OTHER        -> {}

Splice == Joints(Pair)
Diff == [add : SUBSET Splice, remove : SUBSET Splice]

Idle == [op |-> "idle"]
Busy == [op : {"transition", "bulk", "import", "create", "add", "apply"},
         plan : Plan, checked : BOOLEAN,
         seen : Status, to : Status, remove : SUBSET Pair, add : SUBSET Pair, diff : Diff]

\* Apply All: the plans it locked, those it has yet to apply, and the cables it
\* has deleted and added so far.
Batch == [open : BOOLEAN, locked : SUBSET Plan, todo : SUBSET Plan,
          removed : SUBSET Splice, added : SUBSET Splice]
NoBatch == [open |-> FALSE, locked |-> {}, todo |-> {}, removed |-> {}, added |-> {}]

TypeOK ==
    /\ status \in [Plan -> Status]
    /\ entries \in [Plan -> SUBSET Pair]
    /\ live \in SUBSET Splice
    /\ req \in [Request -> Busy \cup {Idle}]
    /\ batch \in Batch

Disjoint(splices) == \A s, t \in splices : s # t => s \cap t = {}

Init ==
    /\ status = [p \in Plan |-> "none"]
    /\ entries = [p \in Plan |-> {}]
    /\ live \in {splices \in SUBSET Splice : Disjoint(splices)}
    /\ req = [r \in Request |-> Idle]
    /\ batch = NoBatch

Exists(p) == status[p] \notin {"none", "deleted"}

\* Handlers between their load and their answer.
InFlight == {r \in Request : req[r] # Idle}

\* Serially, nothing starts while something runs.
MayArrive == Serial => InFlight = {} /\ ~batch.open

(***************************************************************************)
(* Reading the database: diff, claims, import.                             *)
(***************************************************************************)

\* compute_diff, its per-tray grouping flattened (apply_diff flattens it too).
DiffOf(plan_entries, splices) ==
    [add    |-> Joints(plan_entries) \ splices,
     remove |-> splices \ Joints(plan_entries)]

\* Mutant: only an approved plan claims its fibers.
ClaimedByApproved(p) ==
    UNION {PortsOf(entries[q]) : q \in {o \in Plan \ {p} : status[o] = Approved}}

\* Ports the entries of the other active plans of the closure reference.
ClaimedPorts(p) ==
    UNION {PortsOf(entries[q]) : q \in {o \in Plan \ {p} : status[o] \in Active}}

\* _get_protected_plan_ports
ProtectedPlanPorts(p) == PortsOf(entries[p]) \cap Protected

\* unique_together of SplicePlanEntry.
UniqueRows(pairs) == \A e, f \in pairs : e # f => e[1] # f[1] /\ e[2] # f[2]

\* Mutant: a pair with a port that is not on a tray is left out.
SeedableOnTrays(p) ==
    {s \in live : /\ s \subseteq TrayPort
                  /\ s \cap (ClaimedPorts(p) \cup PortsOf(entries[p])) = {}}

\* import_live_state: the live splices it turns into entries.  One with no port
\* on a tray, or with a fiber the plan or another active plan already
\* references, is skipped.
Seedable(p) ==
    {s \in live : /\ s \cap TrayPort # {}
                  /\ s \cap (ClaimedPorts(p) \cup PortsOf(entries[p])) = {}}

\* Mutant: the entry leads with the other port.
AnchorReversed(s) == CHOOSE e \in Port \X Port : {e[1], e[2]} = s /\ <<e[2], e[1]>> \in Pair /\ e[2] \in TrayPort

\* The entry for a live splice leads with a port on a tray.
Anchor(s) == CHOOSE e \in Pair : {e[1], e[2]} = s /\ e[1] \in TrayPort

ImportedEntries(p) == {Anchor(s) : s \in Seedable(p)}

(***************************************************************************)
(* apply_diff inside its transaction.                                      *)
(***************************************************************************)

\* Mutant: only what is in the way of a new splice is deleted.
DeletedConflicts(diff, splices) ==
    {s \in splices : \E t \in diff.add : s \cap t # {}}

\* The cables it deletes: the diff's removals, then whatever still sits on a
\* port it is about to splice.
Deleted(diff, splices) ==
    {s \in splices : s \in diff.remove \/ \E t \in diff.add : s \cap t # {}}

\* create_splices names no port twice in one batch. Nothing else stands in the
\* way: a splice cable is no hop of any path, so _protect_cable lets it go even
\* under an active circuit.
Applicable(diff) == Disjoint(diff.add)

AfterApply(diff, splices) == (splices \ Deleted(diff, splices)) \cup diff.add

(***************************************************************************)
(* A request arrives and loads its plan.                                   *)
(***************************************************************************)

Load(r, op, p, to, remove, add) ==
    /\ req[r] = Idle
    /\ MayArrive
    /\ req' = [req EXCEPT ![r] =
                 [op |-> op, plan |-> p, checked |-> FALSE,
                  seen |-> status[p], to |-> to, remove |-> remove, add |-> add,
                  diff |-> [add |-> {}, remove |-> {}]]]
    /\ UNCHANGED <<status, entries, live, batch>>

\* The web actions check the loaded status; a PATCH that names no status keeps
\* the loaded one.
RequestTransition(r, p, to) ==
    /\ Exists(p)
    /\ to \in ValidFrom(status[p]) \cup {status[p]}
    /\ Load(r, "transition", p, to, {}, {})

\* bulk_update_entries: only drafts, and no protected port on either side.
RequestBulk(r, p, remove, add) ==
    /\ status[p] = Draft
    /\ PortsOf(remove \cup add) \cap Protected = {}
    /\ Load(r, "bulk", p, Draft, remove, add)

\* import_from_device and the web import: whatever the status.
RequestImport(r, p) ==
    /\ Exists(p)
    /\ Load(r, "import", p, status[p], {}, {})

\* A new row has a primary key of its own.
Unborn(p) == status[p] = "none" /\ \A r \in InFlight : req[r].plan # p

\* A new plan is a draft seeded from the live state.
RequestCreate(r, p) ==
    /\ Unborn(p)
    /\ Load(r, "create", p, Draft, {}, {})

\* One entry through its own form or endpoint: whatever the plan's status.
RequestAddEntry(r, p, e) ==
    /\ Exists(p)
    /\ Load(r, "add", p, status[p], {}, {e})

\* The single-plan apply: protection of the plan's own ports, then the status.
RequestApply(r, p) ==
    /\ status[p] = Approved
    /\ ProtectedPlanPorts(p) = {}
    /\ Load(r, "apply", p, Archived, {}, {})

(***************************************************************************)
(* The request checks against the database, remembering what it found.     *)
(***************************************************************************)

\* Does the check let request q through?
Valid(q) ==
    CASE q.op = "transition" ->   \* full_clean re-reads the stored status
           \/ status[q.plan] \in {q.to, "deleted"}
           \/ q.to \in ValidFrom(status[q.plan])
      [] q.op = "bulk" ->
           PortsOf(q.add) \cap ClaimedPorts(q.plan) = {}
      [] q.op = "add" ->          \* SplicePlanEntry.clean and validate_unique
           /\ \A e \in q.add : e[1] \in TrayPort
           /\ PortsOf(q.add) \cap ClaimedPorts(q.plan) = {}
           /\ q.add \cap entries[q.plan] = {}
           /\ UniqueRows(entries[q.plan] \cup q.add)
      [] OTHER -> TRUE

\* What the check of request q leaves it with.
Found(q) ==
    CASE q.op \in {"import", "create"} ->
           [q EXCEPT !.checked = TRUE, !.add = ImportedEntries(q.plan)]
      [] q.op = "apply" ->
           [q EXCEPT !.checked = TRUE, !.diff = DiffOf(entries[q.plan], live)]
      [] OTHER -> [q EXCEPT !.checked = TRUE]

Check(r) ==
    /\ req[r] # Idle
    /\ ~req[r].checked
    /\ req' = [req EXCEPT ![r] = IF Valid(req[r]) THEN Found(req[r]) ELSE Idle]
    /\ UNCHANGED <<status, entries, live, batch>>

(***************************************************************************)
(* The request writes and answers.                                         *)
(***************************************************************************)

Writing(r, op) ==
    /\ req[r] # Idle
    /\ req[r].op = op
    /\ req[r].checked
    /\ req' = [req EXCEPT ![r] = Idle]

\* A plan row that Apply All has locked makes other writers of the row wait.
Unlocked(p) == p \notin batch.locked

\* plan.save() writes every column of the loaded row back.
SaveTransition(r) ==
    LET q == req[r] IN
    /\ Writing(r, "transition")
    /\ Unlocked(q.plan)
    /\ status' = [status EXCEPT ![q.plan] = q.to]
    /\ UNCHANGED <<entries, live, batch>>

\* The entries of p once the removals are done and the ports of the addition
\* are cleared.
Cleared(q) == {e \in entries[q.plan] :
                 /\ {e[1], e[2]} \notin Joints(q.remove)
                 /\ \A a \in q.add : {e[1], e[2]} \cap {a[1], a[2]} = {}}

\* No tray under fiber_a: the view returns a 400 from inside the transaction,
\* which commits what was done so far.
BulkWithoutTray(r) ==
    LET q == req[r] IN
    /\ Writing(r, "bulk")
    /\ \E e \in q.add : e[1] \notin TrayPort
    /\ entries' = [entries EXCEPT ![q.plan] = Cleared(q)]
    /\ UNCHANGED <<status, live, batch>>

\* The removals, the additions and a full save of the loaded plan.
BulkUpdate(r) ==
    LET q == req[r] IN
    /\ Writing(r, "bulk")
    /\ Unlocked(q.plan)
    /\ \A e \in q.add : e[1] \in TrayPort
    /\ entries' = [entries EXCEPT ![q.plan] = Cleared(q) \cup q.add]
    /\ status' = [status EXCEPT ![q.plan] = q.seen]
    /\ UNCHANGED <<live, batch>>

\* bulk_create, then the stale flag alone.
ImportLiveState(r) ==
    LET q == req[r] IN
    /\ Writing(r, "import")
    /\ Unlocked(q.plan)
    /\ Exists(q.plan)
    /\ UniqueRows(entries[q.plan] \cup q.add)
    /\ entries' = [entries EXCEPT ![q.plan] = @ \cup q.add]
    /\ UNCHANGED <<status, live, batch>>

CreatePlan(r) ==
    LET q == req[r] IN
    /\ Writing(r, "create")
    /\ status' = [status EXCEPT ![q.plan] = Draft]
    /\ entries' = [entries EXCEPT ![q.plan] = q.add]
    /\ UNCHANGED <<live, batch>>

\* The entry is inserted; the plan is not touched.
AddEntry(r) ==
    LET q == req[r] IN
    /\ Writing(r, "add")
    /\ Exists(q.plan)
    /\ UniqueRows(entries[q.plan] \cup q.add)
    /\ entries' = [entries EXCEPT ![q.plan] = @ \cup q.add]
    /\ UNCHANGED <<status, live, batch>>

\* apply_diff: cables, then the plan is archived with update_fields.
ApplyPlan(r) ==
    LET q == req[r] IN
    /\ Writing(r, "apply")
    /\ Unlocked(q.plan)
    /\ Exists(q.plan)
    /\ Applicable(q.diff)
    /\ live' = AfterApply(q.diff, live)
    /\ status' = [status EXCEPT ![q.plan] = Archived]
    /\ UNCHANGED <<entries, batch>>

\* A constraint, a port named twice or a missing plan makes the write fail; its
\* transaction is rolled back.
WriteFails(r) ==
    LET q == req[r] IN
    /\ \/ /\ Writing(r, "import") \/ Writing(r, "add")
          /\ Exists(q.plan) => ~UniqueRows(entries[q.plan] \cup q.add)
       \/ /\ Writing(r, "apply")
          /\ Exists(q.plan) => ~Applicable(q.diff)
    /\ UNCHANGED <<status, entries, live, batch>>

(***************************************************************************)
(* Requests of one transaction and no earlier load.                        *)
(***************************************************************************)

\* An entry is deleted through its own view or endpoint.
DeleteEntry(p, e) ==
    /\ MayArrive
    /\ e \in entries[p]
    /\ entries' = [entries EXCEPT ![p] = @ \ {e}]
    /\ UNCHANGED <<status, live, req, batch>>

DeletePlan(p) ==
    /\ MayArrive
    /\ Exists(p)
    /\ Unlocked(p)
    /\ status' = [status EXCEPT ![p] = "deleted"]
    /\ entries' = [entries EXCEPT ![p] = {}]
    /\ UNCHANGED <<live, req, batch>>

(***************************************************************************)
(* DevicePendingWorkView.post: every approved plan of the closure, one     *)
(* after the other, in one transaction that holds their rows locked.       *)
(***************************************************************************)

\* The cables as the transaction of Apply All sees them.
BatchLive == (live \ batch.removed) \cup batch.added

\* The plans are locked; none of their ports may be protected.
OpenBatch ==
    LET approved == {p \in Plan : status[p] = Approved} IN
    /\ MayArrive
    /\ ~batch.open
    /\ approved # {}
    /\ \A p \in approved : ProtectedPlanPorts(p) = {}
    /\ batch' = [NoBatch EXCEPT !.open = TRUE, !.locked = approved, !.todo = approved]
    /\ UNCHANGED <<status, entries, live, req>>

\* apply_diff of the next plan, against what its predecessors left.
BatchRound(p) ==
    LET diff == DiffOf(entries[p], BatchLive)
        gone == Deleted(diff, BatchLive) IN
    /\ batch.open
    /\ p \in batch.todo
    /\ Applicable(diff)
    /\ batch' = [batch EXCEPT !.todo = @ \ {p}, !.removed = @ \cup gone,
                              !.added = (@ \ gone) \cup diff.add]
    /\ UNCHANGED <<status, entries, live, req>>

\* The locked plans are archived and the cables change, all at once.
CommitBatch ==
    /\ batch.open
    /\ batch.todo = {}
    /\ Disjoint(BatchLive)
    /\ live' = BatchLive
    /\ status' = [p \in Plan |-> IF p \in batch.locked THEN Archived ELSE status[p]]
    /\ batch' = NoBatch
    /\ UNCHANGED <<entries, req>>

\* One plan cannot be applied, or a port was cabled meanwhile: nothing changes.
RollBackBatch ==
    /\ batch.open
    /\ \/ \E p \in batch.todo : ~Applicable(DiffOf(entries[p], BatchLive))
       \/ batch.todo = {} /\ ~Disjoint(BatchLive)
    /\ batch' = NoBatch
    /\ UNCHANGED <<status, entries, live, req>>

(***************************************************************************)
(* Slack loops and cables.                                                 *)
(***************************************************************************)

\* insert_slack_loop_into_closure: the closure's only plan, or a new unseeded
\* draft, receives the entries that join the two halves; more than one plan is
\* an error.
InsertSlackLoop(p, pairs) ==
    /\ MayArrive
    /\ pairs # {}
    /\ \/ {q \in Plan : Exists(q)} = {p}
       \/ {q \in Plan : Exists(q)} = {} /\ Unborn(p)
    /\ \E e \in pairs : e[1] \in TrayPort
    /\ pairs \cap entries[p] = {}
    /\ UniqueRows(entries[p] \cup pairs)
    /\ status' = [status EXCEPT ![p] = IF @ = "none" THEN Draft ELSE @]
    /\ entries' = [entries EXCEPT ![p] = @ \cup pairs]
    /\ UNCHANGED <<live, req, batch>>

\* A splice cable is added or deleted in NetBox itself.
Connect(s) ==
    /\ MayArrive
    /\ \A t \in live : s \cap t = {}
    /\ live' = live \cup {s}
    /\ UNCHANGED <<status, entries, req, batch>>

Disconnect(s) ==
    /\ MayArrive
    /\ s \in live
    /\ live' = live \ {s}
    /\ UNCHANGED <<status, entries, req, batch>>

(***************************************************************************)
(* The specification.                                                      *)
(***************************************************************************)

AtMostOne(S) == {{}} \cup {{e} : e \in S}

Arrive(r, p) ==
    \/ \E to \in Status : RequestTransition(r, p, to)
    \/ \E remove, add \in AtMostOne(Pair) : remove \cup add # {} /\ RequestBulk(r, p, remove, add)
    \/ RequestImport(r, p)
    \/ RequestCreate(r, p)
    \/ \E e \in Pair : RequestAddEntry(r, p, e)
    \/ RequestApply(r, p)

Write(r) ==
    \/ SaveTransition(r)
    \/ BulkWithoutTray(r)
    \/ BulkUpdate(r)
    \/ ImportLiveState(r)
    \/ CreatePlan(r)
    \/ AddEntry(r)
    \/ ApplyPlan(r)
    \/ WriteFails(r)

Next ==
    \/ \E r \in Request, p \in Plan : Arrive(r, p)
    \/ \E r \in Request : Check(r)
    \/ \E r \in Request : Write(r)
    \/ \E p \in Plan, e \in Pair : DeleteEntry(p, e)
    \/ \E p \in Plan : DeletePlan(p)
    \/ OpenBatch
    \/ \E p \in Plan : BatchRound(p)
    \/ CommitBatch
    \/ RollBackBatch
    \/ \E p \in Plan, e \in Pair : InsertSlackLoop(p, {e})
    \/ \E s \in Splice : Connect(s) \/ Disconnect(s)

Spec == Init /\ [][Next]_vars

(***************************************************************************)
(* What must hold while requests are serial.                               *)
(***************************************************************************)

\* Fiber exclusivity: no port is referenced by the entries of two active plans
\* (SplicePlanEntry.clean, bulk_update_entries, import_live_state; the checks
\* are spread over every way an entry can come to be, and over the lifecycle
\* that makes a plan active again).
Exclusive ==
    \A p, q \in Plan :
        p # q /\ {status[p], status[q]} \subseteq Active
        => PortsOf(entries[p]) \cap PortsOf(entries[q]) = {}

\* Applying a plan makes the closure exactly what its entries say, provided they
\* name no port twice (apply_diff deletes, clears and splices from a diff).
ApplyRealizesPlan ==
    [][\A r \in Request :
         ApplyPlan(r) /\ Disjoint(Joints(entries[req[r].plan]))
         => live' = Joints(entries[req[r].plan])]_vars

\* A plan created on a live closure means "keep everything": of the live splices
\* it omits only those no entry can hold, or whose fibers another active plan
\* holds (SplicePlanSerializer.create, import_live_state).
SeedKeepsLive ==
    [][\A r \in Request : CreatePlan(r) =>
         \A s \in live : \/ s \in Joints(entries'[req[r].plan])
                         \/ s \cap TrayPort = {}
                         \/ s \cap ClaimedPorts(req[r].plan) # {}]_vars

(***************************************************************************)
(* What the documentation says of the plans.                               *)
(***************************************************************************)

\* docs/user-guide/splice-planning.md: no transitions out of archived.
ArchivedIsFinal ==
    [][\A p \in Plan : status[p] = Archived => status'[p] \in {Archived, "deleted"}]_vars

\* docs/user-guide/splice-planning.md: Apply All creates the splices every
\* approved plan adds.
ApplyAllCreatesAll ==
    [][CommitBatch => \A p \in batch.locked : Joints(entries[p]) \subseteq live']_vars

\* docs/user-guide/fiber-circuits.md: protection stops a live service from being
\* broken, and a plan touching protected fibers cannot be applied. So a splice
\* between fibers of an active circuit survives the apply of any plan.
ProtectedSurvive ==
    [][\A r \in Request : ApplyPlan(r) =>
         \A s \in live : s \subseteq Protected => s \in live']_vars
=============================================================================
