-------------------------- MODULE DiffCache_proofs --------------------------
(***************************************************************************)
(* Proofs about the splice plans and their stored diffs, for any closure,  *)
(* any number of plans and any sequence of requests, as long as requests   *)
(* do not overlap: fiber exclusivity, what an apply and an import do, and  *)
(* that a stored diff not marked stale is what an apply would compute,     *)
(* unless a write that marks nothing, or a client, made it another.        *)
(*                                                                         *)
(* Exclusive alone is not inductive: a request writes what it found when   *)
(* it checked.  ReqFresh says that what a request in flight has loaded and *)
(* found still holds of the database; it holds because no other request    *)
(* runs in between (Alone).                                                *)
(*                                                                         *)
(* What makes FreshIsCurrent inductive: a handler that will save a whole   *)
(* plan row still holds the stored one (KeptCurrent), and the diff a page  *)
(* is about to save is still the current one (PageCurrent).  Both fail as  *)
(* soon as one request may run between the steps of another.               *)
(***************************************************************************)
EXTENDS DiffCache, TLAPS

(***************************************************************************)
(* The plans.                                                              *)
(***************************************************************************)

Alone == /\ \A r, s \in InFlight : r = s
         /\ batch.open => InFlight = {}

\* What request q has seen is still so.
Fresh(q) ==
    /\ q.seen = status[q.plan]
    /\ q.op = "create" => q.seen = "none"
    /\ q.op # "create" => Exists(q.plan)
    /\ q.op = "transition" => q.to \in ValidFrom(q.seen) \cup {q.seen}
    /\ q.op = "bulk" => q.seen = Draft
    /\ q.checked /\ q.op \in {"bulk", "import", "create", "add"} =>
         PortsOf(q.add) \cap ClaimedPorts(q.plan) = {}

ReqFresh == \A r \in InFlight : Fresh(req[r])

\* What an apply, an import or a creation found is what is there.
FoundFresh ==
    \A r \in InFlight :
        LET q == req[r] IN
        q.checked =>
            /\ q.op = "apply" => q.diff = DiffOf(entries[q.plan], live)
            /\ q.op \in {"import", "create"} => q.add = ImportedEntries(q.plan)

\* Only plans that exist have entries.
NoStrayEntries == \A p \in Plan : Exists(p) \/ entries[p] = {}

IInv == TypeOK /\ Alone /\ ReqFresh /\ Exclusive

(***************************************************************************)
(* Types.                                                                  *)
(***************************************************************************)

\* An import only names pairs of the closure, on ports nobody else claims.
LEMMA ImportFacts ==
    ASSUME TypeOK, NEW p \in Plan
    PROVE  /\ ImportedEntries(p) \subseteq Pair
           /\ PortsOf(ImportedEntries(p)) \cap ClaimedPorts(p) = {}
           /\ \A s \in Seedable(p) : {Anchor(s)[1], Anchor(s)[2]} = s
<1>1. ASSUME NEW s \in Seedable(p)
      PROVE  /\ Anchor(s) \in Pair
             /\ {Anchor(s)[1], Anchor(s)[2]} = s
             /\ s \cap ClaimedPorts(p) = {}
  <2>1. s \in Splice /\ s \cap TrayPort # {} /\ s \cap ClaimedPorts(p) = {}
    BY DEF Seedable, TypeOK
  <2>2. PICK e \in Pair : s = {e[1], e[2]}
    BY <2>1 DEF Splice, Joints
  <2>3. \E f \in Pair : {f[1], f[2]} = s /\ f[1] \in TrayPort
    <3>1. CASE e[1] \in TrayPort
      BY <2>2, <3>1
    <3>2. CASE e[1] \notin TrayPort
      <4>1. e[2] \in TrayPort /\ <<e[2], e[1]>> \in Pair
        BY <2>1, <2>2, <3>2, SplicePlanAssumption
      <4> QED BY <2>2, <4>1
    <3> QED BY <3>1, <3>2
  <2> QED BY <2>1, <2>3 DEF Anchor
<1> QED BY <1>1 DEF ImportedEntries, PortsOf

\* The splices a diff names are splices of the closure.
LEMMA DiffTyped ==
    ASSUME TypeOK, NEW p \in Plan
    PROVE  DiffOf(entries[p], live) \in Diff
<1>1. entries[p] \in SUBSET Pair
  BY DEF TypeOK
<1>2. Joints(entries[p]) \subseteq Splice
  BY <1>1 DEF Splice, Joints
<1> QED BY <1>2 DEF DiffOf, Diff, TypeOK

\* A request in flight has the fields of one.
LEMMA BusyFields ==
    ASSUME TypeOK, NEW r \in InFlight
    PROVE  req[r] \in Busy
BY DEF TypeOK, InFlight

\* What a check finds is well typed.
LEMMA FoundTyped ==
    ASSUME TypeOK, NEW q \in Busy
    PROVE  /\ Found(q) \in Busy
           /\ Found(q).op = q.op /\ Found(q).plan = q.plan
           /\ Found(q).seen = q.seen /\ Found(q).to = q.to
           /\ Found(q).add = IF q.op \in {"import", "create"}
                             THEN ImportedEntries(q.plan) ELSE q.add
<1>1. q.plan \in Plan /\ q.op # "idle"
  BY DEF Busy
<1>2. ImportedEntries(q.plan) \in SUBSET Pair
  BY <1>1, ImportFacts
<1>3. DiffOf(entries[q.plan], live) \in Diff
  BY <1>1, DiffTyped
<1>4. CASE q.op \in {"import", "create"}
  BY <1>2, <1>4 DEF Found, Busy
<1>5. CASE q.op = "apply"
  BY <1>3, <1>5 DEF Found, Busy
<1>6. CASE q.op \notin {"import", "create", "apply"}
  BY <1>6 DEF Found, Busy
<1> QED BY <1>4, <1>5, <1>6

\* Every step keeps the variables in their types.
LEMMA TypeStep == TypeOK /\ [Next]_vars => TypeOK'
<1> SUFFICES ASSUME TypeOK, [Next]_vars PROVE TypeOK'
  OBVIOUS
<1> USE DEF TypeOK
<1>1. ASSUME NEW r \in Request, NEW p \in Plan, Arrive(r, p) PROVE TypeOK'
  <2>1. PICK op \in {"transition", "bulk", "import", "create", "add", "apply"},
             to \in Status, remove \in SUBSET Pair, add \in SUBSET Pair :
             Load(r, op, p, to, remove, add)
    <3>1. \A S \in SUBSET Pair : \A T \in AtMostOne(Pair) : T \in SUBSET Pair
      BY DEF AtMostOne
    <3>2. status[p] \in Status /\ Draft \in Status /\ Archived \in Status
      BY DEF Status, Active, Draft, Pending, Approved, Archived
    <3> QED BY <1>1, <3>1, <3>2 DEF Arrive, RequestTransition, RequestBulk, RequestImport,
                 RequestCreate, RequestAddEntry, RequestApply, AtMostOne
  <2>2. req'[r] \in Busy
    BY <2>1 DEF Load, Busy, Diff
  <2> QED BY <2>1, <2>2 DEF Load
<1>2. ASSUME NEW r \in Request, Check(r) PROVE TypeOK'
  <2>1. req[r] \in Busy
    BY <1>2 DEF Check
  <2>2. Found(req[r]) \in Busy
    BY <2>1, FoundTyped
  <2> QED BY <1>2, <2>2 DEF Check
<1>3. ASSUME NEW r \in Request, Write(r) PROVE TypeOK'
  <2>1. /\ req[r].plan \in Plan /\ req[r].seen \in Status /\ req[r].to \in Status
        /\ req[r].add \in SUBSET Pair /\ req[r].diff \in Diff
    BY <1>3 DEF Write, SaveTransition, BulkWithoutTray, BulkUpdate, ImportLiveState, CreatePlan,
                AddEntry, ApplyPlan, WriteFails, Writing, Busy, Idle
  <2>2. req' \in [Request -> Busy \cup {Idle}] /\ batch' = batch
    BY <1>3 DEF Write, SaveTransition, BulkWithoutTray, BulkUpdate, ImportLiveState, CreatePlan,
                AddEntry, ApplyPlan, WriteFails, Writing
  <2>3. status' \in [Plan -> Status]
    BY <1>3, <2>1 DEF Write, SaveTransition, BulkWithoutTray, BulkUpdate, ImportLiveState, CreatePlan,
                AddEntry, ApplyPlan, WriteFails, Status, Active, Draft, Archived
  <2>4. entries' \in [Plan -> SUBSET Pair]
    BY <1>3, <2>1 DEF Write, SaveTransition, BulkWithoutTray, BulkUpdate, ImportLiveState, CreatePlan,
                AddEntry, ApplyPlan, WriteFails, Cleared
  <2>5. live' \in SUBSET Splice
    BY <1>3, <2>1 DEF Write, SaveTransition, BulkWithoutTray, BulkUpdate, ImportLiveState, CreatePlan,
                AddEntry, ApplyPlan, WriteFails, AfterApply, Deleted, Diff
  <2> QED BY <2>2, <2>3, <2>4, <2>5
<1>4. ASSUME NEW p \in Plan, NEW e \in Pair, DeleteEntry(p, e) PROVE TypeOK'
  BY <1>4 DEF DeleteEntry
<1>5. ASSUME NEW p \in Plan, DeletePlan(p) PROVE TypeOK'
  BY <1>5 DEF DeletePlan, Status
<1>6. CASE OpenBatch
  BY <1>6 DEF OpenBatch, NoBatch, Batch
<1>7. ASSUME NEW p \in Plan, BatchRound(p) PROVE TypeOK'
  <2>1. BatchLive \in SUBSET Splice
    BY DEF BatchLive, Batch
  <2>2. DiffOf(entries[p], BatchLive).add \in SUBSET Splice
    BY DEF DiffOf, Joints, Splice
  <2>3. Deleted(DiffOf(entries[p], BatchLive), BatchLive) \in SUBSET Splice
    BY <2>1 DEF Deleted
  <2> QED BY <1>7, <2>2, <2>3 DEF BatchRound, Batch
<1>8. CASE CommitBatch
  BY <1>8 DEF CommitBatch, BatchLive, Batch, NoBatch, Status, Archived
<1>9. CASE RollBackBatch
  BY <1>9 DEF RollBackBatch, Batch, NoBatch
<1>10. ASSUME NEW p \in Plan, NEW e \in Pair, InsertSlackLoop(p, {e}) PROVE TypeOK'
  BY <1>10 DEF InsertSlackLoop, Status, Active, Draft
<1>11. ASSUME NEW s \in Splice, Connect(s) \/ Disconnect(s) PROVE TypeOK'
  BY <1>11 DEF Connect, Disconnect
<1>12. CASE UNCHANGED vars
  BY <1>12 DEF vars
<1> QED BY <1>1, <1>2, <1>3, <1>4, <1>5, <1>6, <1>7, <1>8, <1>9, <1>10, <1>11, <1>12 DEF Next

(***************************************************************************)
(* Serial requests.                                                        *)
(***************************************************************************)

\* Serially, at most one request is in flight and none beside an Apply All.
LEMMA AloneStep ==
    ASSUME Serial, TypeOK, Alone, [Next]_vars
    PROVE  Alone'
<1> USE DEF TypeOK, Alone, InFlight, MayArrive
<1>1. ASSUME NEW r \in Request, NEW p \in Plan, Arrive(r, p) PROVE Alone'
  <2>1. PICK op, to, remove, add : Load(r, op, p, to, remove, add)
    BY <1>1 DEF Arrive, RequestTransition, RequestBulk, RequestImport,
                RequestCreate, RequestAddEntry, RequestApply
  <2>2. InFlight = {} /\ ~batch.open /\ batch' = batch /\ InFlight' \subseteq {r}
    BY <2>1 DEF Load
  <2> QED BY <2>2
<1>2. ASSUME NEW r \in Request, Check(r) PROVE Alone'
  <2>1. InFlight' \subseteq InFlight /\ batch' = batch
    BY <1>2 DEF Check
  <2> QED BY <2>1
<1>3. ASSUME NEW r \in Request, Write(r) PROVE Alone'
  <2>1. InFlight' = {}
    BY <1>3 DEF Write, SaveTransition, BulkWithoutTray, BulkUpdate, ImportLiveState, CreatePlan,
                AddEntry, ApplyPlan, WriteFails, Writing
  <2> QED BY <2>1
<1>4. ASSUME \/ \E p \in Plan, e \in Pair : DeleteEntry(p, e) \/ InsertSlackLoop(p, {e})
             \/ \E p \in Plan : DeletePlan(p)
             \/ \E s \in Splice : Connect(s) \/ Disconnect(s)
             \/ UNCHANGED vars
      PROVE  Alone'
  BY <1>4 DEF DeleteEntry, InsertSlackLoop, DeletePlan, Connect, Disconnect, vars
<1>5. CASE OpenBatch
  BY <1>5 DEF OpenBatch
<1>6. ASSUME NEW p \in Plan, BatchRound(p) PROVE Alone'
  <2>1. batch'.open = batch.open
    BY <1>6 DEF BatchRound, Batch
  <2> QED BY <1>6, <2>1 DEF BatchRound
<1>7. CASE CommitBatch \/ RollBackBatch
  BY <1>7 DEF CommitBatch, RollBackBatch, NoBatch
<1> QED BY <1>1, <1>2, <1>3, <1>4, <1>5, <1>6, <1>7 DEF Next

\* What a request has loaded and found stays true until it writes.
LEMMA FreshStep ==
    ASSUME Serial, TypeOK, Alone, ReqFresh, [Next]_vars
    PROVE  ReqFresh'
<1> USE DEF ReqFresh
<1>1. ASSUME NEW r \in Request, NEW p \in Plan, Arrive(r, p) PROVE ReqFresh'
  <2>1. PICK op \in {"transition", "bulk", "import", "create", "add", "apply"},
             to \in Status, remove \in SUBSET Pair, add \in SUBSET Pair :
             /\ Load(r, op, p, to, remove, add)
             /\ op = "create" => status[p] = "none"
             /\ op # "create" => Exists(p)
             /\ op = "transition" => to \in ValidFrom(status[p]) \cup {status[p]}
             /\ op = "bulk" => status[p] = Draft
    <3>1. \A S \in SUBSET Pair : \A T \in AtMostOne(Pair) : T \in SUBSET Pair
      BY DEF AtMostOne
    <3>2. status[p] \in Status /\ Draft \in Status /\ Archived \in Status
      BY DEF TypeOK, Status, Active, Draft, Pending, Approved, Archived
    <3> QED BY <1>1, <3>1, <3>2 DEF Arrive, RequestTransition, RequestBulk, RequestImport, Unborn,
                RequestCreate, RequestAddEntry, RequestApply, Exists, Draft, Approved, AtMostOne
  <2>2. InFlight' \subseteq {r} /\ status' = status
    BY <2>1 DEF Load, MayArrive, InFlight, TypeOK
  <2>3. /\ req'[r].op = op /\ req'[r].plan = p /\ req'[r].checked = FALSE
        /\ req'[r].seen = status[p] /\ req'[r].to = to
    BY <2>1 DEF Load, TypeOK
  <2>4. Fresh(req[r])'
    BY <2>1, <2>2, <2>3 DEF Fresh, Exists
  <2> QED BY <2>2, <2>4
<1>2. ASSUME NEW r \in Request, Check(r) PROVE ReqFresh'
  <2> DEFINE q == req[r]
  <2>1. q \in Busy /\ q.plan \in Plan /\ r \in InFlight
    BY <1>2 DEF Check, TypeOK, InFlight, Busy
  <2>2. InFlight' \subseteq {r} /\ status' = status /\ entries' = entries
    BY <1>2, <2>1 DEF Check, Alone, InFlight, TypeOK
  <2>3. CASE Valid(q)
    <3>1. req'[r] = Found(q)
      BY <1>2, <2>3 DEF Check, TypeOK
    <3>2. PortsOf(Found(q).add) \cap ClaimedPorts(q.plan) = {}
          \/ q.op \notin {"bulk", "import", "create", "add"}
      BY <2>1, <2>3, FoundTyped, ImportFacts DEF Valid
    <3>3. Fresh(q)
      BY <2>1
    <3> HIDE DEF q
    <3>4. Fresh(Found(q))
      BY <2>1, <3>2, <3>3, FoundTyped DEF Fresh
    <3>5. Fresh(req[r])'
      BY <2>2, <3>1, <3>4 DEF Fresh, Exists, ClaimedPorts
    <3> QED BY <2>2, <3>5
  <2>4. CASE ~Valid(q)
    BY <1>2, <2>2, <2>4 DEF Check, InFlight, TypeOK
  <2> QED BY <2>3, <2>4
<1>3. ASSUME NEW r \in Request, Write(r) PROVE ReqFresh'
  <2>1. InFlight' = {}
    BY <1>3 DEF Write, SaveTransition, BulkWithoutTray, BulkUpdate, ImportLiveState, CreatePlan,
                AddEntry, ApplyPlan, WriteFails, Writing, Alone, InFlight, TypeOK
  <2> QED BY <2>1
<1>4. ASSUME \/ \E p \in Plan, e \in Pair : DeleteEntry(p, e) \/ InsertSlackLoop(p, {e})
             \/ \E p \in Plan : DeletePlan(p) \/ BatchRound(p)
             \/ \E s \in Splice : Connect(s) \/ Disconnect(s)
             \/ OpenBatch \/ CommitBatch \/ RollBackBatch
      PROVE  ReqFresh'
  <2>1. MayArrive \/ batch.open
    BY <1>4 DEF DeleteEntry, InsertSlackLoop, DeletePlan, Connect, Disconnect, OpenBatch,
                BatchRound, CommitBatch, RollBackBatch
  <2>2. req' = req
    BY <1>4 DEF DeleteEntry, InsertSlackLoop, DeletePlan, Connect, Disconnect, OpenBatch,
                BatchRound, CommitBatch, RollBackBatch
  <2>3. InFlight = {}
    BY <2>1 DEF MayArrive, Alone
  <2> QED BY <2>2, <2>3 DEF InFlight
<1>5. CASE UNCHANGED vars
  BY <1>5 DEF vars, InFlight, Fresh, Exists, ClaimedPorts
<1> QED BY <1>1, <1>2, <1>3, <1>4, <1>5 DEF Next

(***************************************************************************)
(* Exclusivity.                                                            *)
(***************************************************************************)

\* Only plan p changes, and if it is active afterwards its entries keep off the
\* ports the others claim: exclusivity is kept.
LEMMA OnePlanChanges ==
    ASSUME TypeOK, Exclusive, NEW p \in Plan,
           \A o \in Plan \ {p} : entries'[o] = entries[o] /\ status'[o] = status[o],
           status'[p] \in Active => PortsOf(entries'[p]) \cap ClaimedPorts(p) = {}
    PROVE  Exclusive'
<1> SUFFICES ASSUME NEW x \in Plan, NEW y \in Plan, x # y,
                    status'[x] \in Active, status'[y] \in Active
             PROVE  PortsOf(entries'[x]) \cap PortsOf(entries'[y]) = {}
  BY DEF Exclusive
<1>1. ASSUME NEW o \in Plan \ {p}, status'[o] \in Active
      PROVE  PortsOf(entries'[o]) \subseteq ClaimedPorts(p)
  BY <1>1 DEF ClaimedPorts
<1>2. CASE x = p
  BY <1>1, <1>2
<1>3. CASE y = p
  BY <1>1, <1>3
<1>4. CASE x # p /\ y # p
  BY <1>4 DEF Exclusive
<1> QED BY <1>2, <1>3, <1>4

\* An active plan's own entries keep off the ports the others claim.
LEMMA OwnPorts ==
    ASSUME TypeOK, Exclusive, NEW p \in Plan, status[p] \in Active
    PROVE  PortsOf(entries[p]) \cap ClaimedPorts(p) = {}
BY DEF Exclusive, ClaimedPorts

\* The ports of a set of pairs grow with the set.
LEMMA PortsFacts ==
    ASSUME NEW A, NEW B
    PROVE  /\ PortsOf(A \cup B) = PortsOf(A) \cup PortsOf(B)
           /\ A \subseteq B => PortsOf(A) \subseteq PortsOf(B)
BY DEF PortsOf

\* Serially, no step makes two active plans share a port.
LEMMA ExclusiveStep ==
    ASSUME Serial, TypeOK, Alone, ReqFresh, Exclusive, [Next]_vars
    PROVE  Exclusive'
<1>1. ASSUME NEW r \in Request, Write(r) PROVE Exclusive'
  <2> DEFINE q == req[r]
             p == q.plan
  <2>1. q \in Busy /\ r \in InFlight /\ q.checked
    BY <1>1 DEF Write, SaveTransition, BulkWithoutTray, BulkUpdate, ImportLiveState, CreatePlan,
                AddEntry, ApplyPlan, WriteFails, Writing, TypeOK, InFlight
  <2>2. Fresh(q) /\ p \in Plan
    BY <2>1 DEF ReqFresh, Busy
  <2>3. CASE SaveTransition(r)
    <3>1. status'[p] \in Active => status[p] \in Active
      BY <2>2, <2>3 DEF SaveTransition, Writing, Fresh, ValidFrom, Exists, Active, TypeOK, Status,
                        Draft, Pending, Approved, Archived
    <3>2. \A o \in Plan \ {p} : entries'[o] = entries[o] /\ status'[o] = status[o]
      BY <2>2, <2>3 DEF SaveTransition, TypeOK
    <3>3. entries'[p] = entries[p]
      BY <2>3 DEF SaveTransition
    <3> QED BY <2>2, <3>1, <3>2, <3>3, OwnPorts, OnePlanChanges
  <2>4. CASE BulkWithoutTray(r) \/ BulkUpdate(r)
    <3>1. q.op = "bulk" /\ status[p] = Draft /\ PortsOf(q.add) \cap ClaimedPorts(p) = {}
      BY <2>1, <2>2, <2>4 DEF BulkWithoutTray, BulkUpdate, Writing, Fresh
    <3>2. entries'[p] \subseteq entries[p] \cup q.add
      BY <2>2, <2>4 DEF BulkWithoutTray, BulkUpdate, Cleared, TypeOK
    <3>3. \A o \in Plan \ {p} : entries'[o] = entries[o] /\ status'[o] = status[o]
      BY <2>2, <2>4 DEF BulkWithoutTray, BulkUpdate, TypeOK
    <3>4. PortsOf(entries[p]) \cap ClaimedPorts(p) = {}
      BY <2>2, <3>1, OwnPorts DEF Active
    <3>5. PortsOf(entries'[p]) \subseteq PortsOf(entries[p]) \cup PortsOf(q.add)
      <4>1. PortsOf(entries'[p]) \subseteq PortsOf(entries[p] \cup q.add)
        BY <3>2, PortsFacts
      <4>2. PortsOf(entries[p] \cup q.add) = PortsOf(entries[p]) \cup PortsOf(q.add)
        BY PortsFacts
      <4> QED BY <4>1, <4>2
    <3>6. PortsOf(entries'[p]) \cap ClaimedPorts(p) = {}
      BY <3>1, <3>4, <3>5
    <3> QED BY <2>2, <3>3, <3>6, OnePlanChanges
  <2>5. CASE ImportLiveState(r) \/ AddEntry(r)
    <3>1. PortsOf(q.add) \cap ClaimedPorts(p) = {}
      BY <2>1, <2>2, <2>5 DEF ImportLiveState, AddEntry, Writing, Fresh
    <3>2. entries'[p] = entries[p] \cup q.add /\ status' = status
      BY <2>2, <2>5 DEF ImportLiveState, AddEntry, TypeOK
    <3>3. \A o \in Plan \ {p} : entries'[o] = entries[o]
      BY <2>2, <2>5 DEF ImportLiveState, AddEntry, TypeOK
    <3>4. status[p] \in Active => PortsOf(entries'[p]) \cap ClaimedPorts(p) = {}
      BY <2>2, <3>1, <3>2, OwnPorts, PortsFacts
    <3> QED BY <2>2, <3>2, <3>3, <3>4, OnePlanChanges
  <2>6. CASE CreatePlan(r)
    <3>1. PortsOf(q.add) \cap ClaimedPorts(p) = {}
      BY <2>1, <2>2, <2>6 DEF CreatePlan, Writing, Fresh
    <3>2. entries'[p] = q.add
      BY <2>2, <2>6 DEF CreatePlan, TypeOK
    <3>3. \A o \in Plan \ {p} : entries'[o] = entries[o] /\ status'[o] = status[o]
      BY <2>2, <2>6 DEF CreatePlan, TypeOK
    <3> QED BY <2>2, <3>1, <3>2, <3>3, OnePlanChanges
  <2>7. CASE ApplyPlan(r)
    <3>1. status'[p] \notin Active
      BY <2>2, <2>7 DEF ApplyPlan, TypeOK, Active, Draft, Pending, Approved, Archived
    <3>2. \A o \in Plan \ {p} : entries'[o] = entries[o] /\ status'[o] = status[o]
      BY <2>2, <2>7 DEF ApplyPlan, TypeOK
    <3> QED BY <2>2, <3>1, <3>2, OnePlanChanges
  <2>8. CASE WriteFails(r)
    BY <2>8 DEF WriteFails, Exclusive
  <2> QED BY <1>1, <2>3, <2>4, <2>5, <2>6, <2>7, <2>8 DEF Write
<1>2. ASSUME NEW p \in Plan, NEW e \in Pair, DeleteEntry(p, e) PROVE Exclusive'
  <2>1. entries'[p] \subseteq entries[p] /\ status' = status
    BY <1>2 DEF DeleteEntry, TypeOK
  <2>2. \A o \in Plan \ {p} : entries'[o] = entries[o]
    BY <1>2 DEF DeleteEntry, TypeOK
  <2>3. status[p] \in Active => PortsOf(entries'[p]) \cap ClaimedPorts(p) = {}
    BY <2>1, OwnPorts, PortsFacts
  <2> QED BY <2>1, <2>2, <2>3, OnePlanChanges
<1>3. ASSUME NEW p \in Plan, DeletePlan(p) PROVE Exclusive'
  <2>1. status'[p] \notin Active
    BY <1>3 DEF DeletePlan, TypeOK, Active, Draft, Pending, Approved
  <2>2. \A o \in Plan \ {p} : entries'[o] = entries[o] /\ status'[o] = status[o]
    BY <1>3 DEF DeletePlan, TypeOK
  <2> QED BY <2>1, <2>2, OnePlanChanges
<1>4. ASSUME NEW p \in Plan, NEW e \in Pair, InsertSlackLoop(p, {e}) PROVE Exclusive'
  <2>1. \A o \in Plan \ {p} : ~Exists(o)
    BY <1>4 DEF InsertSlackLoop
  <2>2. ClaimedPorts(p) = {}
    BY <2>1 DEF ClaimedPorts, Exists, Active, Draft, Pending, Approved
  <2>3. \A o \in Plan \ {p} : entries'[o] = entries[o] /\ status'[o] = status[o]
    BY <1>4 DEF InsertSlackLoop, TypeOK
  <2> QED BY <2>2, <2>3, OnePlanChanges
<1>5. CASE CommitBatch
  <2>1. entries' = entries /\ \A p \in Plan : status'[p] \in Active => status[p] \in Active
    BY <1>5 DEF CommitBatch, TypeOK, Active, Draft, Pending, Approved, Archived
  <2> QED BY <2>1 DEF Exclusive
<1>6. ASSUME \/ \E r \in Request, p \in Plan : Arrive(r, p)
             \/ \E r \in Request : Check(r)
             \/ \E p \in Plan : BatchRound(p)
             \/ \E s \in Splice : Connect(s) \/ Disconnect(s)
             \/ OpenBatch \/ RollBackBatch \/ UNCHANGED vars
      PROVE  Exclusive'
  <2>1. entries' = entries /\ status' = status
    BY <1>6 DEF Arrive, RequestTransition, RequestBulk, RequestImport, RequestCreate,
                RequestAddEntry, RequestApply, Load, Check, BatchRound, Connect, Disconnect,
                OpenBatch, RollBackBatch, vars
  <2> QED BY <2>1 DEF Exclusive
<1> QED BY <1>1, <1>2, <1>3, <1>4, <1>5, <1>6 DEF Next

(***************************************************************************)
(* The theorems.                                                           *)
(***************************************************************************)

\* Before the first request there is no plan.
LEMMA InitIInv == Init => IInv
<1> SUFFICES ASSUME Init PROVE IInv
  OBVIOUS
<1>1. TypeOK
  BY DEF Init, TypeOK, Status, Batch, NoBatch
<1>2. Alone /\ ReqFresh
  BY DEF Init, Alone, ReqFresh, InFlight, NoBatch
<1>3. Exclusive
  BY DEF Init, Exclusive, Active, Draft, Pending, Approved
<1> QED BY <1>1, <1>2, <1>3 DEF IInv

\* The variables keep their types, whether or not requests overlap.
THEOREM TypeCorrect == Spec => []TypeOK
<1>1. Init => TypeOK
  BY InitIInv DEF IInv
<1>2. TypeOK /\ [Next]_vars => TypeOK'
  BY TypeStep
<1> QED BY <1>1, <1>2, PTL DEF Spec

\* Fiber exclusivity holds as long as requests do not overlap: every way an
\* entry comes to be, and every way a plan becomes active, keeps it
\* (SplicePlanEntry.clean, bulk_update_entries, import_live_state,
\* _VALID_TRANSITIONS).
THEOREM SerialExclusive ==
    ASSUME Serial
    PROVE  Spec => []Exclusive
<1>1. Init => IInv
  BY InitIInv
<1>2. IInv /\ [Next]_vars => IInv'
  BY TypeStep, AloneStep, FreshStep, ExclusiveStep DEF IInv
<1>3. IInv => Exclusive
  BY DEF IInv
<1> QED BY <1>1, <1>2, <1>3, PTL DEF Spec

(***************************************************************************)
(* What an apply and a creation write.                                     *)
(***************************************************************************)

\* Serially, nothing writes between a request's check and its write.
LEMMA FoundStep ==
    ASSUME Serial, TypeOK, Alone, FoundFresh, [Next]_vars
    PROVE  FoundFresh'
<1>1. ASSUME NEW r \in Request, NEW p \in Plan, Arrive(r, p) PROVE FoundFresh'
  <2>1. PICK op, to, remove, add : Load(r, op, p, to, remove, add)
    BY <1>1 DEF Arrive, RequestTransition, RequestBulk, RequestImport,
                RequestCreate, RequestAddEntry, RequestApply
  <2>2. InFlight' \subseteq {r} /\ req'[r].checked = FALSE
    BY <2>1 DEF Load, MayArrive, InFlight, TypeOK
  <2> QED BY <2>2 DEF FoundFresh
<1>2. ASSUME NEW r \in Request, Check(r) PROVE FoundFresh'
  <2> DEFINE q == req[r]
  <2>1. q \in Busy /\ r \in InFlight
    BY <1>2 DEF Check, TypeOK, InFlight
  <2>2. InFlight' \subseteq {r} /\ UNCHANGED <<status, entries, live>>
    BY <1>2, <2>1 DEF Check, Alone, InFlight, TypeOK
  <2>3. req'[r] = IF Valid(q) THEN Found(q) ELSE Idle
    BY <1>2 DEF Check, TypeOK
  <2>4. /\ q.op = "apply" => Found(q).diff = DiffOf(entries[q.plan], live)
        /\ q.op \in {"import", "create"} => Found(q).add = ImportedEntries(q.plan)
    BY <2>1 DEF Found, Busy
  <2>5. Found(q).op = q.op /\ Found(q).plan = q.plan
    BY <2>1, FoundTyped
  <2>6. \A p \in Plan : ImportedEntries(p)' = ImportedEntries(p)
    BY <2>2 DEF ImportedEntries, Seedable, ClaimedPorts
  <2>7. CASE r \in InFlight'
    <3>1. req'[r] = Found(q)
      BY <2>3, <2>7 DEF InFlight
    <3>2. PICK p \in Plan : p = q.plan
      BY <2>1 DEF Busy
    <3>3. req'[r].plan = p /\ req'[r].op = q.op
      BY <3>1, <3>2, <2>5
    <3>4. req'[r].op = "apply" => req'[r].diff = DiffOf(entries'[p], live')
      BY <3>1, <3>2, <3>3, <2>2, <2>4
    <3>5. req'[r].op \in {"import", "create"} => req'[r].add = ImportedEntries(p)'
      BY <3>1, <3>2, <3>3, <2>4, <2>6
    <3> QED BY <3>3, <3>4, <3>5, <2>2 DEF FoundFresh
  <2> QED BY <2>2, <2>7 DEF FoundFresh
<1>3. ASSUME NEW r \in Request, Write(r) PROVE FoundFresh'
  <2>1. InFlight' = {}
    BY <1>3 DEF Write, SaveTransition, BulkWithoutTray, BulkUpdate, ImportLiveState, CreatePlan,
                AddEntry, ApplyPlan, WriteFails, Writing, Alone, InFlight, TypeOK
  <2> QED BY <2>1 DEF FoundFresh
<1>4. ASSUME \/ \E p \in Plan, e \in Pair : DeleteEntry(p, e) \/ InsertSlackLoop(p, {e})
             \/ \E p \in Plan : DeletePlan(p) \/ BatchRound(p)
             \/ \E s \in Splice : Connect(s) \/ Disconnect(s)
             \/ OpenBatch \/ CommitBatch \/ RollBackBatch
      PROVE  FoundFresh'
  <2>1. MayArrive \/ batch.open
    BY <1>4 DEF DeleteEntry, InsertSlackLoop, DeletePlan, Connect, Disconnect, OpenBatch,
                BatchRound, CommitBatch, RollBackBatch
  <2>2. req' = req
    BY <1>4 DEF DeleteEntry, InsertSlackLoop, DeletePlan, Connect, Disconnect, OpenBatch,
                BatchRound, CommitBatch, RollBackBatch
  <2>3. InFlight = {}
    BY <2>1 DEF MayArrive, Alone
  <2> QED BY <2>2, <2>3 DEF InFlight, FoundFresh
<1>5. CASE UNCHANGED vars
  BY <1>5 DEF vars, InFlight, FoundFresh, ImportedEntries, Seedable, ClaimedPorts
<1> QED BY <1>1, <1>2, <1>3, <1>4, <1>5 DEF Next

\* A write that gives a plan entries is that of an existing plan, or makes it one.
LEMMA StrayStep ==
    ASSUME Serial, TypeOK, ReqFresh, NoStrayEntries, [Next]_vars
    PROVE  NoStrayEntries'
<1> USE DEF TypeOK, NoStrayEntries, Exists
<1>1. ASSUME NEW r \in Request, Write(r) PROVE NoStrayEntries'
  <2> DEFINE q == req[r]
             p == q.plan
  <2>1. q \in Busy /\ r \in InFlight
    BY <1>1 DEF Write, SaveTransition, BulkWithoutTray, BulkUpdate, ImportLiveState, CreatePlan,
                AddEntry, ApplyPlan, WriteFails, Writing, InFlight
  <2>2. Fresh(q) /\ p \in Plan
    BY <2>1 DEF ReqFresh, Busy
  <2>3. \A o \in Plan \ {p} : entries'[o] = entries[o] /\ status'[o] = status[o]
    BY <1>1, <2>2 DEF Write, SaveTransition, BulkWithoutTray, BulkUpdate, ImportLiveState,
                CreatePlan, AddEntry, ApplyPlan, WriteFails
  <2>4. CASE WriteFails(r)
    BY <2>4 DEF WriteFails
  <2>5. CASE CreatePlan(r) \/ ApplyPlan(r)
    <3>1. status'[p] \in {Draft, Archived}
      BY <2>2, <2>5 DEF CreatePlan, ApplyPlan
    <3> QED BY <2>3, <3>1 DEF Draft, Archived
  <2>6. CASE ~WriteFails(r) /\ ~CreatePlan(r) /\ ~ApplyPlan(r)
    <3>1. q.op # "create" /\ Exists(p)
      BY <1>1, <2>2, <2>6 DEF Write, SaveTransition, BulkWithoutTray, BulkUpdate, ImportLiveState,
                  AddEntry, Writing, Fresh
    <3>2. SaveTransition(r) => status'[p] \notin {"none", "deleted"}
      BY <2>2, <3>1 DEF SaveTransition, Writing, Fresh, ValidFrom, Draft, Pending, Approved, Archived
    <3>3. ~SaveTransition(r) => status'[p] = status[p]
      BY <1>1, <2>2, <2>6 DEF Write, BulkWithoutTray, BulkUpdate, ImportLiveState, AddEntry, Fresh
    <3> QED BY <2>3, <3>1, <3>2, <3>3
  <2> QED BY <2>4, <2>5, <2>6
<1>2. ASSUME NEW p \in Plan, NEW e \in Pair, DeleteEntry(p, e) PROVE NoStrayEntries'
  BY <1>2 DEF DeleteEntry
<1>3. ASSUME NEW p \in Plan, DeletePlan(p) PROVE NoStrayEntries'
  BY <1>3 DEF DeletePlan
<1>4. ASSUME NEW p \in Plan, NEW e \in Pair, InsertSlackLoop(p, {e}) PROVE NoStrayEntries'
  <2>1. status'[p] \notin {"none", "deleted"}
    BY <1>4 DEF InsertSlackLoop, Draft, Unborn
  <2>2. \A o \in Plan \ {p} : entries'[o] = entries[o] /\ status'[o] = status[o]
    BY <1>4 DEF InsertSlackLoop
  <2> QED BY <2>1, <2>2
<1>5. CASE CommitBatch
  BY <1>5 DEF CommitBatch, Archived
<1>6. ASSUME \/ \E r \in Request, p \in Plan : Arrive(r, p)
             \/ \E r \in Request : Check(r)
             \/ \E p \in Plan : BatchRound(p)
             \/ \E s \in Splice : Connect(s) \/ Disconnect(s)
             \/ OpenBatch \/ RollBackBatch \/ UNCHANGED vars
      PROVE  NoStrayEntries'
  <2>1. entries' = entries /\ status' = status
    BY <1>6 DEF Arrive, RequestTransition, RequestBulk, RequestImport, RequestCreate,
                RequestAddEntry, RequestApply, Load, Check, BatchRound, Connect, Disconnect,
                OpenBatch, RollBackBatch, vars
  <2> QED BY <2>1
<1> QED BY <1>1, <1>2, <1>3, <1>4, <1>5, <1>6 DEF Next

\* Deleting what a diff removes and what is in the way of what it adds, and then
\* adding that, makes the cables those of the plan.
LEMMA AfterApplyIsPlan ==
    ASSUME NEW pairs, NEW splices, Disjoint(Joints(pairs))
    PROVE  AfterApply(DiffOf(pairs, splices), splices) = Joints(pairs)
<1> DEFINE J == Joints(pairs)
           diff == DiffOf(pairs, splices)
<1>1. diff.add = J \ splices /\ diff.remove = splices \ J
  BY DEF DiffOf
<1>2. \A s \in J \cap splices : s \notin Deleted(diff, splices)
  BY <1>1 DEF Deleted, Disjoint
<1>3. \A s \in splices \ J : s \in Deleted(diff, splices)
  BY <1>1 DEF Deleted
<1> QED BY <1>1, <1>2, <1>3 DEF AfterApply

SerialInv == IInv /\ FoundFresh /\ NoStrayEntries

\* What a request holds is still true of the database when it writes, for
\* requests that run one at a time.
THEOREM SerialInductive ==
    ASSUME Serial
    PROVE  Spec => []SerialInv
<1>1. Init => SerialInv
  <2> SUFFICES ASSUME Init PROVE FoundFresh /\ NoStrayEntries
    BY InitIInv DEF SerialInv
  <2> QED BY DEF Init, FoundFresh, NoStrayEntries, InFlight
<1>2. SerialInv /\ [Next]_vars => SerialInv'
  BY TypeStep, AloneStep, FreshStep, ExclusiveStep, FoundStep, StrayStep DEF SerialInv, IInv
<1> QED BY <1>1, <1>2, PTL DEF Spec

\* Applying a plan makes the closure exactly what its entries say, whatever is
\* spliced there before (compute_diff, apply_diff).
THEOREM SerialApply ==
    ASSUME Serial
    PROVE  Spec => ApplyRealizesPlan
<1> DEFINE Realized == \A r \in Request :
               ApplyPlan(r) /\ Disjoint(Joints(entries[req[r].plan]))
               => live' = Joints(entries[req[r].plan])
<1>1. SerialInv /\ [Next]_vars => [Realized]_vars
  <2> SUFFICES ASSUME SerialInv, NEW r \in Request, ApplyPlan(r),
                      Disjoint(Joints(entries[req[r].plan]))
               PROVE  live' = Joints(entries[req[r].plan])
    OBVIOUS
  <2>1. r \in InFlight /\ req[r].op = "apply" /\ req[r].checked
    BY DEF ApplyPlan, Writing, InFlight
  <2>2. req[r].diff = DiffOf(entries[req[r].plan], live)
    BY <2>1 DEF SerialInv, FoundFresh
  <2>3. live' = AfterApply(DiffOf(entries[req[r].plan], live), live)
    BY <2>2 DEF ApplyPlan
  <2> QED BY <2>3, AfterApplyIsPlan
<1> QED BY <1>1, SerialInductive, PTL DEF Spec, ApplyRealizesPlan

\* A new plan omits only the live splices that no entry can hold or whose fibers
\* another active plan holds (import_live_state, SplicePlanSerializer.create).
THEOREM SerialSeed ==
    ASSUME Serial
    PROVE  Spec => SeedKeepsLive
<1> DEFINE Kept == \A r \in Request : CreatePlan(r) =>
               \A s \in live : \/ s \in Joints(entries'[req[r].plan])
                               \/ s \cap TrayPort = {}
                               \/ s \cap ClaimedPorts(req[r].plan) # {}
<1>1. SerialInv /\ [Next]_vars => [Kept]_vars
  <2> SUFFICES ASSUME SerialInv, NEW r \in Request, CreatePlan(r), NEW s \in live,
                      s \cap TrayPort # {}, s \cap ClaimedPorts(req[r].plan) = {}
               PROVE  s \in Joints(entries'[req[r].plan])
    OBVIOUS
  <2> DEFINE p == req[r].plan
  <2>1. r \in InFlight /\ req[r].op = "create" /\ req[r].checked
    BY DEF CreatePlan, Writing, InFlight
  <2>2. req[r] \in Busy /\ TypeOK
    BY <2>1, BusyFields DEF SerialInv, IInv
  <2>3. p \in Plan /\ Fresh(req[r])
    BY <2>1, <2>2 DEF SerialInv, IInv, ReqFresh, Busy
  <2>4. entries[p] = {}
    BY <2>1, <2>3 DEF Fresh, SerialInv, NoStrayEntries, Exists
  <2>5. s \in Seedable(p)
    BY <2>4 DEF Seedable, PortsOf
  <2>6. entries'[p] = ImportedEntries(p)
    BY <2>1, <2>2, <2>3 DEF CreatePlan, SerialInv, FoundFresh, TypeOK
  <2>7. {Anchor(s)[1], Anchor(s)[2]} = s
    BY <2>2, <2>3, <2>5, ImportFacts
  <2> QED BY <2>5, <2>6, <2>7 DEF ImportedEntries, Joints
<1> QED BY <1>1, SerialInductive, PTL DEF Spec, SeedKeepsLive

(***************************************************************************)
(* The stored diffs.                                                       *)
(***************************************************************************)

KeptCurrent == \A r \in InFlight : kept[r] = cache[req[r].plan]

PageCurrent ==
    /\ page # NoPage => InFlight = {} /\ ~batch.open
    /\ \A p \in page.at : page.diff = DiffOf(entries[p], live)

CacheInv == CachedTypeOK /\ Alone /\ FreshIsCurrent /\ KeptCurrent /\ PageCurrent

(***************************************************************************)
(* The steps of the plans are those of SplicePlan.                         *)
(***************************************************************************)

LEMMA StepIsStep == [CachedNext]_cachedVars => [Next]_vars
<1> SUFFICES ASSUME [CachedNext]_cachedVars PROVE [Next]_vars
  OBVIOUS
<1>1. ASSUME NEW r \in Request, NEW p \in Plan, CachedArrive(r, p) PROVE Next
  BY <1>1 DEF CachedArrive, Next
<1>2. ASSUME NEW r \in Request, CachedCheck(r) PROVE Next
  BY <1>2 DEF CachedCheck, Next
<1>3. ASSUME NEW r \in Request, CachedWrite(r) PROVE Next
  BY <1>3 DEF CachedWrite, CachedTransition, Write, Next
<1>4. CASE CachedOther
  BY <1>4 DEF CachedOther, CachedCommit, Next
<1>5. CASE PageStep
  BY <1>5 DEF PageStep, ShowPlan, ShowPendingWork, OpenPage, ShowCached, Recompute, SaveDiff
<1>6. CASE UNCHANGED cachedVars
  BY <1>6 DEF cachedVars
<1> QED BY <1>1, <1>2, <1>3, <1>4, <1>5, <1>6 DEF CachedNext, PlanStep

\* Keeping diffs changes nothing about the plans: whatever holds of the plans and
\* splices of SplicePlan holds with their stored diffs.
THEOREM CacheOnlyFollows == CachedSpec => Spec
<1>1. CachedInit => Init
  BY DEF CachedInit
<1> QED BY <1>1, StepIsStep, PTL DEF CachedSpec, Spec

(***************************************************************************)
(* Types.                                                                  *)
(***************************************************************************)

LEMMA RowsTyped ==
    /\ NewRow \in Cached
    /\ NoPage \in Page
    /\ \A row \in Cached : [row EXCEPT !.stale = TRUE] \in Cached
    /\ \A all \in [Plan -> Cached] : Stale(all) \in [Plan -> Cached]
BY DEF NewRow, Cached, NoPage, Page, Stale

\* What a client sends and what was loaded make rows.
LEMMA SentTyped ==
    /\ CreatedRows \subseteq Cached
    /\ \A r \in Request : kept[r] \in Cached => SentRows(r) \subseteq Cached
BY SentAssumption DEF CreatedRows, SentRows, Cached

LEMMA PlanOfRequest ==
    ASSUME TypeOK, NEW r \in Request, Write(r)
    PROVE  r \in InFlight /\ req[r].plan \in Plan
BY DEF Write, SaveTransition, BulkWithoutTray, BulkUpdate, ImportLiveState, CreatePlan, AddEntry,
       ApplyPlan, WriteFails, Writing, InFlight, TypeOK, Busy, Idle

LEMMA CachedTypeStep == CachedTypeOK /\ [CachedNext]_cachedVars => CachedTypeOK'
<1> SUFFICES ASSUME CachedTypeOK, [CachedNext]_cachedVars PROVE CachedTypeOK'
  OBVIOUS
<1>0. TypeOK'
  BY StepIsStep, TypeStep DEF CachedTypeOK
<1> DEFINE Rest == /\ cache' \in [Plan -> Cached] /\ kept' \in [Request -> Cached]
                   /\ page' \in Page /\ drifted' \subseteq Plan
<1> SUFFICES Rest
  BY <1>0 DEF CachedTypeOK
<1> USE RowsTyped DEF CachedTypeOK
<1>t. \A touched : /\ AfterCables(touched) \in [Plan -> Cached]
                   /\ Unannounced(touched) \subseteq Plan
  BY DEF AfterCables, Unannounced, Unmarked
<1>1. ASSUME NEW r \in Request, NEW p \in Plan, CachedArrive(r, p) PROVE Rest
  BY <1>1 DEF CachedArrive
<1>2. ASSUME NEW r \in Request, CachedCheck(r) PROVE Rest
  BY <1>2 DEF CachedCheck
<1>3. ASSUME NEW r \in Request, CachedWrite(r) PROVE Rest
  <2>1. Write(r)
    BY <1>3 DEF CachedWrite, CachedTransition, Write
  <2>2. req[r].plan \in Plan
    BY <2>1, PlanOfRequest
  <2>3. kept' \in [Request -> Cached] /\ page' = page
    BY <1>3 DEF CachedWrite
  <2>4. cache' \in [Plan -> Cached] /\ drifted' \subseteq Plan
    <3>1. CASE CachedTransition(r)
      BY <3>1, <2>2, SentTyped DEF CachedTransition
    <3>2. CASE CreatePlan(r) /\ \E row \in CreatedRows : Row(req[r].plan, row)
      BY <3>2, <2>2, SentTyped DEF Row
    <3>3. CASE ~CachedTransition(r) /\ ~(CreatePlan(r) /\ \E row \in CreatedRows : Row(req[r].plan, row))
      BY <1>3, <1>t, <2>2, <3>3 DEF CachedWrite, Silently, Row, SavedByBulk, Unmarked
    <3> QED BY <3>1, <3>2, <3>3
  <2> QED BY <2>3, <2>4
<1>4. CASE CachedOther
  BY <1>4, <1>t DEF CachedOther, CachedCommit, Silently, Row, Unmarked
<1>5. ASSUME NEW plans \in SUBSET Plan, OpenPage(plans) PROVE Rest
  BY <1>5 DEF OpenPage, NoPage, Page
<1>6. ASSUME NEW p \in Plan, ShowCached(p) \/ Recompute(p) \/ SaveDiff(p) PROVE Rest
  <2>1. Shown(p) => page' \in Page
    <3>1. [page EXCEPT !.todo = @ \ {p}, !.at = {}, !.diff = NoDiff] \in Page
      BY DEF Page
    <3> QED BY <3>1 DEF Shown
  <2>2. TypeOK /\ DiffOf(entries[p], live) \in Diff
    BY DiffTyped
  <2>3. CASE ShowCached(p)
    BY <2>1, <2>3 DEF ShowCached
  <2>4. CASE Recompute(p)
    BY <2>2, <2>4 DEF Recompute, Page
  <2>5. CASE SaveDiff(p)
    <3>1. Exists(p) => [diff |-> page.diff, stale |-> FALSE] \in Cached
      BY DEF Page, Cached
    <3> QED BY <2>1, <2>5, <3>1 DEF SaveDiff, Row
  <2> QED BY <1>6, <2>3, <2>4, <2>5
<1>7. CASE UNCHANGED cachedVars
  BY <1>7 DEF cachedVars, cacheVars
<1>8. CASE PageStep
  <2>1. CASE ShowPendingWork
    BY <1>5, <2>1 DEF ShowPendingWork
  <2>2. ASSUME NEW p \in Plan, ShowPlan(p) PROVE Rest
    BY <1>5, <2>2 DEF ShowPlan
  <2> QED BY <1>6, <1>8, <2>1, <2>2 DEF PageStep
<1> QED BY <1>1, <1>2, <1>3, <1>4, <1>7, <1>8 DEF CachedNext, PlanStep

\* The stored diffs, what handlers loaded of them and the pages keep their types.
THEOREM CachedTypeCorrect == CachedSpec => []CachedTypeOK
<1>1. CachedInit => CachedTypeOK
  <2> SUFFICES ASSUME CachedInit PROVE CachedTypeOK
    OBVIOUS
  <2>1. TypeOK
    BY InitIInv DEF CachedInit, IInv
  <2> QED BY <2>1, RowsTyped DEF CachedInit, CachedTypeOK
<1> QED BY <1>1, CachedTypeStep, PTL DEF CachedSpec

(***************************************************************************)
(* Serial requests.                                                        *)
(***************************************************************************)

\* Plan q keeps its entries, and cables `touched` were saved or deleted: a diff
\* of q that is usable afterwards and has not drifted was so before, and no
\* cable was touched.
LEMMA CablesMark ==
    ASSUME CachedTypeOK, NEW q \in Plan, NEW touched,
           Usable(AfterCables(touched)[q]), q \notin Unannounced(touched)
    PROVE  touched = {} /\ AfterCables(touched)[q] = cache[q] /\ q \notin drifted
<1>1. ~Announced(touched)
  <2> SUFFICES ASSUME Announced(touched) PROVE FALSE
    OBVIOUS
  <2>1. AfterCables(touched)[q] = [cache[q] EXCEPT !.stale = TRUE]
    BY DEF AfterCables, Stale
  <2>2. AfterCables(touched)[q].stale = TRUE
    BY <2>1 DEF CachedTypeOK, Cached
  <2> QED BY <2>2 DEF Usable
<1>2. (UNION touched) \cap TrayPort = {}
  <2> SUFFICES ASSUME NEW x \in UNION touched, x \in TrayPort PROVE FALSE
    OBVIOUS
  <2>1. PICK s \in touched : x \in s
    OBVIOUS
  <2> QED BY <1>1, <2>1 DEF Announced
<1>3. AfterCables(touched)[q] = cache[q] /\ ~cache[q].stale
  BY <1>1 DEF AfterCables, Usable
<1>4. touched = {}
  BY <1>2, <1>3 DEF Unannounced, Unmarked
<1> QED BY <1>3, <1>4 DEF Unannounced

\* The row of p is written, or the diff of p is left as it was stored: the other
\* plans keep their entries and the splices stay.
LEMMA OneRow ==
    ASSUME CachedTypeOK, FreshIsCurrent, NEW p \in Plan,
           \/ /\ \E row : Row(p, row) /\ row \in Cached /\ ~Usable(row)
           \/ Silently(p),
           \A q \in Plan \ {p} : entries'[q] = entries[q], live' = live
    PROVE  FreshIsCurrent'
<1> SUFFICES ASSUME NEW q \in Plan, q \notin drifted', Usable(cache[q])'
             PROVE  cache'[q].diff = DiffOf(entries'[q], live')
  BY DEF FreshIsCurrent, DiffOf
<1>1. q # p
  BY DEF Row, Silently, Unmarked, CachedTypeOK, Usable
<1>2. cache'[q] = cache[q] /\ q \notin drifted
  BY <1>1 DEF Row, Silently, CachedTypeOK
<1> QED BY <1>1, <1>2 DEF FreshIsCurrent, Usable

LEMMA WriteStep ==
    ASSUME CacheInv, NEW r \in Request, CachedWrite(r)
    PROVE  FreshIsCurrent'
<1> DEFINE p == req[r].plan
           touched == Deleted(req[r].diff, live) \cup req[r].diff.add
<1>0. CachedTypeOK /\ FreshIsCurrent
  BY DEF CacheInv
<1>1. p \in Plan /\ r \in InFlight
  BY PlanOfRequest DEF CacheInv, CachedTypeOK, CachedWrite, CachedTransition, Write
<1>2. kept[r] = cache[p] /\ kept[r] \in Cached /\ cache[p] \in Cached
  BY <1>1 DEF CacheInv, KeptCurrent, CachedTypeOK
<1>3. CASE CachedTransition(r)
  <2>1. PICK row \in SentRows(r) :
           /\ cache' = [cache EXCEPT ![p] = row]
           /\ drifted' = IF row = kept[r] THEN drifted
                         ELSE (drifted \ {p}) \cup {o \in {p} : Usable(row)}
    BY <1>3 DEF CachedTransition
  <2>2. entries' = entries /\ live' = live
    BY <1>3 DEF CachedTransition, SaveTransition
  <2> SUFFICES ASSUME NEW q \in Plan, q \notin drifted', Usable(cache[q])'
               PROVE  cache'[q].diff = DiffOf(entries[q], live)
    BY <2>2 DEF FreshIsCurrent, DiffOf
  <2>3. CASE q = p
    <3>1. cache'[q] = row
      BY <1>0, <1>1, <2>1, <2>3 DEF CachedTypeOK
    <3>2. Usable(row)
      BY <3>1 DEF Usable
    <3>3. row = cache[q] /\ q \notin drifted
      BY <1>2, <2>1, <2>3, <3>2
    <3> QED BY <1>0, <3>1, <3>2, <3>3 DEF FreshIsCurrent
  <2>4. CASE q # p
    <3>1. cache'[q] = cache[q] /\ q \notin drifted
      BY <1>0, <1>1, <2>1, <2>4 DEF CachedTypeOK
    <3> QED BY <1>0, <3>1 DEF FreshIsCurrent, Usable
  <2> QED BY <2>3, <2>4
<1>4. CASE (BulkWithoutTray(r) \/ AddEntry(r)) /\ Silently(p)
  <2>1. (\A q \in Plan \ {p} : entries'[q] = entries[q]) /\ live' = live
    BY <1>4 DEF BulkWithoutTray, AddEntry, CacheInv, CachedTypeOK, TypeOK
  <2> QED BY <1>0, <1>1, <1>4, <2>1, OneRow
<1>5. CASE BulkUpdate(r) /\ Row(p, SavedByBulk(r))
  <2>1. (\A q \in Plan \ {p} : entries'[q] = entries[q]) /\ live' = live
    BY <1>5 DEF BulkUpdate, CacheInv, CachedTypeOK, TypeOK
  <2>2. SavedByBulk(r) \in Cached /\ ~Usable(SavedByBulk(r))
    BY <1>2 DEF SavedByBulk, Cached, Usable
  <2> QED BY <1>0, <1>1, <1>5, <2>1, <2>2, OneRow
<1>6. CASE ImportLiveState(r) /\ Row(p, [cache[p] EXCEPT !.stale = TRUE])
  <2>1. (\A q \in Plan \ {p} : entries'[q] = entries[q]) /\ live' = live
    BY <1>6 DEF ImportLiveState, CacheInv, CachedTypeOK, TypeOK
  <2>2. [cache[p] EXCEPT !.stale = TRUE] \in Cached /\ ~Usable([cache[p] EXCEPT !.stale = TRUE])
    BY <1>2 DEF Cached, Usable
  <2> QED BY <1>0, <1>1, <1>6, <2>1, <2>2, OneRow
<1>7. CASE CreatePlan(r) /\ \E row \in CreatedRows : Row(p, row)
  <2>1. (\A q \in Plan \ {p} : entries'[q] = entries[q]) /\ live' = live
    BY <1>7 DEF CreatePlan, CacheInv, CachedTypeOK, TypeOK
  <2>2. \A row \in CreatedRows : row \in Cached /\ ~Usable(row)
    BY SentTyped DEF CreatedRows, Usable
  <2> QED BY <1>0, <1>1, <1>7, <2>1, <2>2, OneRow
<1>8. CASE /\ ApplyPlan(r)
           /\ cache' = [AfterCables(touched) EXCEPT ![p] = NewRow]
           /\ drifted' = Unannounced(touched) \ {p}
  <2> SUFFICES ASSUME NEW q \in Plan, q \notin drifted', Usable(cache[q])'
               PROVE  cache'[q].diff = DiffOf(entries'[q], live')
    BY DEF FreshIsCurrent, DiffOf
  <2>0. AfterCables(touched) \in [Plan -> Cached]
    BY <1>0, RowsTyped DEF AfterCables, CachedTypeOK
  <2>1. q # p
    <3>1. q = p => cache'[q] = NewRow
      BY <1>8, <2>0
    <3> QED BY <3>1 DEF Usable, NewRow
  <2>2. cache'[q] = AfterCables(touched)[q] /\ q \notin Unannounced(touched)
    BY <1>8, <2>0, <2>1
  <2>3. Usable(AfterCables(touched)[q])
    BY <2>2 DEF Usable
  <2> HIDE DEF touched
  <2>4. touched = {} /\ cache'[q] = cache[q] /\ q \notin drifted
    BY <1>0, <2>2, <2>3, CablesMark
  <2> USE DEF touched
  <2>5. live' = live /\ entries' = entries
    BY <1>8, <2>4 DEF ApplyPlan, AfterApply
  <2> QED BY <1>0, <2>4, <2>5 DEF FreshIsCurrent, Usable
<1>9. CASE WriteFails(r) /\ UNCHANGED <<cache, drifted>>
  BY <1>0, <1>9 DEF WriteFails, FreshIsCurrent, DiffOf, Usable
<1> QED BY <1>3, <1>4, <1>5, <1>6, <1>7, <1>8, <1>9 DEF CachedWrite

LEMMA OtherStep ==
    ASSUME CacheInv, CachedOther
    PROVE  FreshIsCurrent'
<1>0. CachedTypeOK /\ FreshIsCurrent
  BY DEF CacheInv
<1>a. ASSUME UNCHANGED <<entries, live, cache, drifted>> PROVE FreshIsCurrent'
  BY <1>0, <1>a DEF FreshIsCurrent, DiffOf, Usable
<1>1. ASSUME NEW p \in Plan, NEW e \in Pair, DeleteEntry(p, e), Silently(p) PROVE FreshIsCurrent'
  <2>1. (\A q \in Plan \ {p} : entries'[q] = entries[q]) /\ live' = live
    BY <1>0, <1>1 DEF DeleteEntry, CachedTypeOK, TypeOK
  <2> QED BY <1>0, <1>1, <2>1, OneRow
<1>2. ASSUME NEW p \in Plan, DeletePlan(p), Row(p, NewRow) PROVE FreshIsCurrent'
  <2>1. (\A q \in Plan \ {p} : entries'[q] = entries[q]) /\ live' = live
    BY <1>0, <1>2 DEF DeletePlan, CachedTypeOK, TypeOK
  <2>2. NewRow \in Cached /\ ~Usable(NewRow)
    BY RowsTyped DEF NewRow, Usable
  <2> QED BY <1>0, <1>2, <2>1, <2>2, OneRow
<1>3. ASSUME NEW p \in Plan, NEW e \in Pair, InsertSlackLoop(p, {e}), Silently(p)
      PROVE  FreshIsCurrent'
  <2>1. (\A q \in Plan \ {p} : entries'[q] = entries[q]) /\ live' = live
    BY <1>0, <1>3 DEF InsertSlackLoop, CachedTypeOK, TypeOK
  <2> QED BY <1>0, <1>3, <2>1, OneRow
<1>4. ASSUME NEW s \in Splice, Connect(s) \/ Disconnect(s),
             cache' = AfterCables({s}), drifted' = Unannounced({s})
      PROVE  FreshIsCurrent'
  <2> SUFFICES ASSUME NEW q \in Plan, q \notin drifted', Usable(cache[q])' PROVE FALSE
    BY DEF FreshIsCurrent
  <2>1. Usable(AfterCables({s})[q])
    BY <1>4 DEF Usable
  <2> QED BY <1>0, <1>4, <2>1, CablesMark
<1>5. CASE CachedCommit
  <2> DEFINE touched == batch.removed \cup batch.added
  <2> SUFFICES ASSUME NEW q \in Plan, q \notin drifted', Usable(cache[q])'
               PROVE  cache'[q].diff = DiffOf(entries'[q], live')
    BY DEF FreshIsCurrent, DiffOf
  <2>1. q \notin batch.locked
    BY <1>5 DEF CachedCommit, Usable, NewRow
  <2>2. cache'[q] = AfterCables(touched)[q] /\ q \notin Unannounced(touched)
    BY <1>5, <2>1 DEF CachedCommit
  <2>3. Usable(AfterCables(touched)[q])
    BY <2>2 DEF Usable
  <2> HIDE DEF touched
  <2>4. touched = {} /\ cache'[q] = cache[q] /\ q \notin drifted
    BY <1>0, <2>2, <2>3, CablesMark
  <2> USE DEF touched
  <2>5. live' = live /\ entries' = entries
    BY <1>5, <2>4 DEF CachedCommit, CommitBatch, BatchLive
  <2> QED BY <1>0, <2>4, <2>5 DEF FreshIsCurrent, Usable
<1>6. CASE OpenBatch /\ UNCHANGED <<cache, drifted>>
  BY <1>6, <1>a DEF OpenBatch
<1>7. ASSUME NEW p \in Plan, BatchRound(p), UNCHANGED <<cache, drifted>> PROVE FreshIsCurrent'
  BY <1>7, <1>a DEF BatchRound
<1>8. CASE RollBackBatch /\ UNCHANGED <<cache, drifted>>
  BY <1>8, <1>a DEF RollBackBatch
<1> QED BY <1>1, <1>2, <1>3, <1>4, <1>5, <1>6, <1>7, <1>8 DEF CachedOther

\* A page that is showing diffs is not NoPage.
LEMMA PageBusy ==
    ASSUME NEW p, p \in page.todo \/ page.at = {p}
    PROVE  page # NoPage
BY DEF NoPage

\* The handlers that hold a plan row, and the page, hold what is stored.
LEMMA HeldStep ==
    ASSUME Serial, CacheInv, [CachedNext]_cachedVars
    PROVE  KeptCurrent' /\ PageCurrent'
<1>0. /\ CachedTypeOK /\ TypeOK /\ KeptCurrent /\ PageCurrent /\ Alone
  BY DEF CacheInv, CachedTypeOK
<1>a. NoPage.at = {}
  BY DEF NoPage
<1>1. CASE PlanStep
  <2>1. page = NoPage /\ page' = page
    BY <1>1 DEF PlanStep, CachedArrive, CachedCheck, CachedWrite, CachedOther
  <2>2. PageCurrent'
    BY <2>1, <1>a DEF PageCurrent
  <2>3. ASSUME NEW r \in Request, NEW p \in Plan, CachedArrive(r, p) PROVE KeptCurrent'
    <3>1. MayArrive /\ r \notin InFlight
      BY <2>3 DEF CachedArrive, Arrive, RequestTransition, RequestBulk, RequestImport,
                  RequestCreate, RequestAddEntry, RequestApply, Load, InFlight
    <3>2. req'[r].plan = p /\ \A s \in Request \ {r} : req'[s] = req[s]
      <4>1. PICK q : q.plan = p /\ req' = [req EXCEPT ![r] = q]
        BY <2>3 DEF CachedArrive, Arrive, RequestTransition, RequestBulk, RequestImport,
                    RequestCreate, RequestAddEntry, RequestApply, Load
      <4> QED BY <4>1, <1>0 DEF TypeOK
    <3>3. \A s \in InFlight' : s = r
      BY <3>1, <3>2 DEF MayArrive, InFlight
    <3>4. kept'[r] = cache'[p]
      BY <2>3, <1>0 DEF CachedArrive, CachedTypeOK
    <3> QED BY <3>2, <3>3, <3>4 DEF KeptCurrent
  <2>4. ASSUME NEW r \in Request, CachedCheck(r) PROVE KeptCurrent'
    <3> SUFFICES ASSUME NEW s \in InFlight' PROVE kept'[s] = cache'[req'[s].plan]
      BY DEF KeptCurrent
    <3>1. s \in Request /\ s \in InFlight
      BY <2>4, <1>0 DEF CachedCheck, Check, InFlight, TypeOK
    <3>2. req'[s].plan = req[s].plan
      <4>1. CASE s # r
        BY <2>4, <1>0, <3>1, <4>1 DEF CachedCheck, Check, TypeOK
      <4>2. CASE s = r
        <5>1. req'[s] = Found(req[s])
          BY <2>4, <1>0, <3>1, <4>2 DEF CachedCheck, Check, InFlight, TypeOK
        <5>2. req[s] \in Busy
          BY <1>0, <3>1, BusyFields
        <5> QED BY <5>1, <5>2, <1>0, FoundTyped
      <4> QED BY <4>1, <4>2
    <3>3. kept'[s] = kept[s] /\ cache' = cache
      BY <2>4, <1>0, <3>1 DEF CachedCheck, CachedTypeOK, InFlight
    <3> QED BY <3>1, <3>2, <3>3, <1>0 DEF KeptCurrent
  <2>5. ASSUME NEW r \in Request, CachedWrite(r) PROVE KeptCurrent'
    <3>1. Write(r)
      BY <2>5 DEF CachedWrite, CachedTransition, Write
    <3>2. r \in InFlight
      BY <1>0, <3>1, PlanOfRequest
    <3>3. req' = [req EXCEPT ![r] = Idle]
      BY <3>1 DEF Write, SaveTransition, BulkWithoutTray, BulkUpdate, ImportLiveState, CreatePlan,
                  AddEntry, ApplyPlan, WriteFails, Writing
    <3>4. InFlight' = {}
      BY <1>0, <3>2, <3>3 DEF Alone, InFlight, TypeOK
    <3> QED BY <3>4 DEF KeptCurrent
  <2>6. CASE CachedOther
    <3>1. InFlight = {}
      BY <2>6, <1>0 DEF CachedOther, CachedCommit, DeleteEntry, DeletePlan, OpenBatch, BatchRound,
                  CommitBatch, RollBackBatch, InsertSlackLoop, Connect, Disconnect, MayArrive, Alone
    <3>2. req' = req
      BY <2>6 DEF CachedOther, CachedCommit, DeleteEntry, DeletePlan, OpenBatch, BatchRound,
                  CommitBatch, RollBackBatch, InsertSlackLoop, Connect, Disconnect
    <3>3. InFlight' = {}
      BY <3>1, <3>2 DEF InFlight
    <3> QED BY <2>2, <3>3 DEF KeptCurrent
  <2> QED BY <1>1, <2>2, <2>3, <2>4, <2>5, <2>6 DEF PlanStep
<1>2. ASSUME NEW plans \in SUBSET Plan, OpenPage(plans) PROVE KeptCurrent' /\ PageCurrent'
  <2>1. page'.at = {} /\ InFlight' = {} /\ ~batch'.open
    BY <1>2 DEF OpenPage, NoPage, MayArrive, InFlight, vars
  <2> QED BY <2>1 DEF KeptCurrent, PageCurrent
<1>3. ASSUME NEW p \in Plan, ShowCached(p) \/ Recompute(p) \/ SaveDiff(p)
      PROVE  KeptCurrent' /\ PageCurrent'
  <2>1. page # NoPage
    BY <1>3, PageBusy DEF ShowCached, Recompute, SaveDiff
  <2>2. InFlight' = {} /\ ~batch'.open /\ entries' = entries /\ live' = live
    BY <1>0, <1>3, <2>1 DEF PageCurrent, ShowCached, Recompute, SaveDiff, InFlight, vars
  <2>3. \A q \in page'.at : page'.diff = DiffOf(entries[q], live)
    <3>1. Shown(p) => page'.at = {}
      BY <1>0, <1>a DEF Shown, CachedTypeOK, Page
    <3>2. Recompute(p) => page'.at = {p} /\ page'.diff = DiffOf(entries[p], live)
      BY <1>0 DEF Recompute, CachedTypeOK, Page
    <3> QED BY <1>3, <3>1, <3>2, <1>a DEF ShowCached, SaveDiff
  <2> QED BY <2>2, <2>3 DEF KeptCurrent, PageCurrent, DiffOf
<1>4. CASE UNCHANGED cachedVars
  BY <1>0, <1>4 DEF cachedVars, cacheVars, vars, KeptCurrent, PageCurrent, InFlight, DiffOf
<1>5. CASE PageStep
  <2>1. CASE ShowPendingWork
    BY <1>2, <2>1 DEF ShowPendingWork
  <2>2. ASSUME NEW p \in Plan, ShowPlan(p) PROVE KeptCurrent' /\ PageCurrent'
    BY <1>2, <2>2 DEF ShowPlan
  <2> QED BY <1>3, <1>5, <2>1, <2>2 DEF PageStep
<1> QED BY <1>1, <1>4, <1>5 DEF CachedNext

LEMMA CurrentStep == CacheInv /\ [CachedNext]_cachedVars => FreshIsCurrent'
<1> SUFFICES ASSUME CacheInv, [CachedNext]_cachedVars PROVE FreshIsCurrent'
  OBVIOUS
<1>0. CachedTypeOK /\ FreshIsCurrent /\ PageCurrent
  BY DEF CacheInv
<1>a. ASSUME UNCHANGED <<entries, live, cache, drifted>> PROVE FreshIsCurrent'
  BY <1>0, <1>a DEF FreshIsCurrent, DiffOf, Usable
<1>1. ASSUME NEW r \in Request, NEW p \in Plan, CachedArrive(r, p) PROVE FreshIsCurrent'
  BY <1>1, <1>a DEF CachedArrive, Arrive, RequestTransition, RequestBulk, RequestImport,
                    RequestCreate, RequestAddEntry, RequestApply, Load
<1>2. ASSUME NEW r \in Request, CachedCheck(r) PROVE FreshIsCurrent'
  BY <1>2, <1>a DEF CachedCheck, Check
<1>3. ASSUME NEW r \in Request, CachedWrite(r) PROVE FreshIsCurrent'
  BY <1>3, WriteStep
<1>4. CASE CachedOther
  BY <1>4, OtherStep
<1>5. ASSUME NEW p \in Plan, SaveDiff(p) PROVE FreshIsCurrent'
  <2>1. entries' = entries /\ live' = live
    BY <1>5 DEF SaveDiff, vars
  <2>2. CASE ~Exists(p)
    BY <1>5, <1>a, <2>1, <2>2 DEF SaveDiff
  <2>3. CASE Exists(p)
    <3> SUFFICES ASSUME NEW q \in Plan, q \notin drifted', Usable(cache[q])'
                 PROVE  cache'[q].diff = DiffOf(entries[q], live)
      BY <2>1 DEF FreshIsCurrent, DiffOf
    <3>1. CASE q = p
      <4>1. cache'[p].diff = page.diff /\ p \in page.at
        BY <1>0, <1>5, <2>3 DEF SaveDiff, Row, CachedTypeOK
      <4> QED BY <1>0, <3>1, <4>1 DEF PageCurrent
    <3>2. CASE q # p
      <4>1. cache'[q] = cache[q] /\ q \notin drifted
        BY <1>0, <1>5, <2>3, <3>2 DEF SaveDiff, Row, CachedTypeOK
      <4> QED BY <1>0, <4>1 DEF FreshIsCurrent, Usable
    <3> QED BY <3>1, <3>2
  <2> QED BY <2>2, <2>3
<1>6. CASE PageStep
  BY <1>5, <1>6, <1>a DEF PageStep, ShowPlan, ShowPendingWork, OpenPage, ShowCached, Recompute, vars
<1>7. CASE UNCHANGED cachedVars
  BY <1>7, <1>a DEF cachedVars, cacheVars, vars
<1> QED BY <1>1, <1>2, <1>3, <1>4, <1>6, <1>7 DEF CachedNext, PlanStep

\* While requests are serial, a diff that a page shows without a look at the
\* database, because it is not marked stale, is the diff an apply would compute:
\* for any closure and any number of plans, with the drift of FreshIsCurrent.
THEOREM SerialFresh ==
    ASSUME Serial
    PROVE  CachedSpec => []FreshIsCurrent
<1>1. CachedInit => CacheInv
  <2> SUFFICES ASSUME CachedInit PROVE CacheInv
    OBVIOUS
  <2>1. TypeOK /\ Alone
    BY InitIInv DEF CachedInit, IInv
  <2>2. CachedTypeOK
    BY <2>1, RowsTyped DEF CachedInit, CachedTypeOK
  <2>3. FreshIsCurrent
    BY DEF CachedInit, FreshIsCurrent, Usable, NewRow
  <2>4. KeptCurrent
    BY DEF CachedInit, KeptCurrent, Init, InFlight
  <2>5. PageCurrent
    BY DEF CachedInit, PageCurrent, NoPage
  <2> QED BY <2>1, <2>2, <2>3, <2>4, <2>5 DEF CacheInv
<1>2. CacheInv /\ [CachedNext]_cachedVars => CacheInv'
  <2> SUFFICES ASSUME CacheInv, [CachedNext]_cachedVars PROVE CacheInv'
    OBVIOUS
  <2>1. Alone'
    BY StepIsStep, AloneStep DEF CacheInv, CachedTypeOK
  <2> QED BY <2>1, CachedTypeStep, HeldStep, CurrentStep DEF CacheInv
<1>3. CacheInv => FreshIsCurrent
  BY DEF CacheInv
<1> QED BY <1>1, <1>2, <1>3, PTL DEF CachedSpec
=============================================================================
