-------------------------- MODULE AnalysisPipeline --------------------------
(***************************************************************************)
(* How the stored fiber paths are kept in step with the plant:             *)
(* path_queue.py (a committed change leaves a row per relevant device and  *)
(* a scheduled job), jobs.py (the analysis job and the reconcile, each one *)
(* transaction under an advisory lock) and the bookkeeping half of         *)
(* path_analysis.py (which rows a run deletes, what it writes).            *)
(*                                                                         *)
(* The plant is abstracted to one configuration per device.  A stored path *)
(* is represented by the configuration of the devices it was walked from:  *)
(* the results of a device are current when stored[d] = plant[d].          *)
(*                                                                         *)
(* Transactions run at READ COMMITTED, so a run reads the queue and then   *)
(* each device at separate instants while other transactions commit.  A     *)
(* configuration is taken whole: what a deletion takes from the stored     *)
(* rows of a device that keeps some fiber is PathStore's.                  *)
(***************************************************************************)
EXTENDS Naturals

CONSTANTS
    Device,      \* devices of the plant
    Config,      \* what can be connected to a device
    NoFiber,     \* the configuration of a device no fiber cable terminates on
    Txn,         \* database connections whose transactions change the plant
    Job,         \* rows of NetBox's job table the analysis job may occupy
    Reconciler,  \* the periodic reconcile job
    MaxChanges,  \* bound: committed plant changes
    MaxFailures  \* bound: injected failures (lost flush, lost schedule, dead run)

ASSUME PipelineAssumption ==
    /\ NoFiber \in Config
    /\ Reconciler \notin Job
    /\ MaxChanges \in Nat
    /\ MaxFailures \in Nat

VARIABLES
    plant,     \* plant[d]: committed configuration of device d
    stored,    \* stored[d]: configuration the stored paths through d were walked from
    queue,     \* rows of PathAnalysisQueue
    now,       \* timezone.now(), ticking once per batch of rows
    txn,       \* txn[t]: where connection t stands between its commit and the end of its hooks
    pc,        \* pc[p]: where job row p stands
    lock,      \* holders of the advisory lock (a set, to state exclusion rather than assume it)
    run,       \* run[p]: what the transaction of run p has read
    missed,    \* history: devices left stale with no queue row: a lost flush, or a change
               \* the relevance filter dropped before a run wrote what it had read earlier
    stranded,  \* history: rows may be queued although no job was scheduled for them
    changes,   \* plant changes so far
    failures   \* injected failures so far

vars == <<plant, stored, queue, now, txn, pc, lock, run, missed, stranded,
          changes, failures>>

Proc == Job \cup {Reconciler}

\* A queue row; the clock ticks per batch, so [dev, created] identifies it.
Row == [dev : Device, created : Nat]
RowsOf(devs, created) == {[dev |-> d, created |-> created] : d \in devs}

TxnState == [at : {"idle", "committed", "stamped", "inserted", "enqueue"},
             devs : SUBSET Device, created : Nat]
IdleTxn == [at |-> "idle", devs |-> {}, created |-> 0]

\* gone: devices whose plant rows were deleted after the run read them.
\* dropped: history, devices the relevance filter dropped after the run read them.
RunState == [rows : SUBSET Row, started : Nat, region : SUBSET Device,
             read : SUBSET Device, loaded : [Device -> Config],
             gone : SUBSET Device, dropped : SUBSET Device]

TypeOK ==
    /\ plant \in [Device -> Config]
    /\ stored \in [Device -> Config]
    /\ queue \in SUBSET Row
    /\ now \in Nat
    /\ txn \in [Txn -> TxnState]
    /\ pc \in [Proc -> {"free", "waiting", "started", "locked", "loading"}]
    /\ lock \in SUBSET Proc
    /\ run \in [Proc -> RunState]
    /\ missed \in SUBSET Device
    /\ stranded \in BOOLEAN
    /\ changes \in Nat
    /\ failures \in Nat

NoRun == [rows |-> {}, started |-> 0, region |-> {}, read |-> {},
          loaded |-> [d \in Device |-> NoFiber], gone |-> {}, dropped |-> {}]

Init ==
    /\ plant \in [Device -> Config]
    /\ stored = plant
    /\ queue = {}
    /\ now = 0
    /\ txn = [t \in Txn |-> IdleTxn]
    /\ pc = [p \in Proc |-> "free"]
    /\ lock = {}
    /\ run = [p \in Proc |-> NoRun]
    /\ missed = {}
    /\ stranded = FALSE
    /\ changes = 0
    /\ failures = 0

(***************************************************************************)
(* path_queue.py: what a transaction that changed the plant does.          *)
(***************************************************************************)

\* Mutant: a running job counts as one that will still read the queue.
WaitingOrRunning(p) == p \in Job /\ pc[p] # "free"

\* A job a new row may ride along with: pending or scheduled, not running.
Waiting(p) == p \in Job /\ pc[p] = "waiting"

\* relevant_device_ids: a fiber cable terminates on the device, or it lies on
\* a stored path.
Relevant(d) == plant[d] # NoFiber \/ stored[d] # NoFiber

\* Fiber of device d that run p has read, and may still write paths over.
Held(p, d) == d \in run[p].read /\ run[p].loaded[d] # NoFiber

\* A transaction commits new configurations for a set of devices; its on_commit
\* hooks have not run yet.  A side is detached, moved or connected, or plant rows
\* are deleted: strands, cables or ports.
Commit(t, devs, cfg, deleted) ==
    /\ txn[t].at = "idle"
    /\ changes < MaxChanges
    /\ \A d \in devs : cfg[d] # plant[d]
    /\ \A d \in deleted : plant[d] # NoFiber
    /\ plant' = [d \in Device |-> IF d \in devs THEN cfg[d] ELSE plant[d]]
    /\ txn' = [txn EXCEPT ![t] = [at |-> "committed", devs |-> devs, created |-> 0]]
    /\ run' = [p \in Proc |-> [run[p] EXCEPT !.gone = @ \cup {d \in deleted : Held(p, d)}]]
    /\ changes' = changes + 1
    /\ UNCHANGED <<queue, now, pc, lock, missed, stranded, failures>>

\* Deleted rows take the stored hops over them with them.  A device that has lost
\* all its fiber is then on no stored path, if only hops led to it and no end.
Cascade(lost) == stored' = [d \in Device |-> IF d \in lost THEN NoFiber ELSE stored[d]]

\* _Batch.flush up to the insert: keep the relevant devices, stamp their rows.
\* The filter looks at what is committed, not at what a run is about to write.
Stamp(t) ==
    LET relevant == {d \in txn[t].devs : Relevant(d)} IN
    /\ txn[t].at = "committed"
    /\ txn' = [txn EXCEPT ![t] =
                 IF relevant = {} THEN IdleTxn
                 ELSE [at |-> "stamped", devs |-> relevant, created |-> now]]
    /\ now' = IF relevant = {} THEN now ELSE now + 1
    /\ run' = [p \in Proc |-> [run[p] EXCEPT
                 !.dropped = @ \cup {d \in txn[t].devs \ relevant : Held(p, d)}]]
    /\ UNCHANGED <<plant, stored, queue, pc, lock, missed, stranded, changes, failures>>

\* The bulk insert commits on its own: hooks run outside the transaction.
Insert(t) ==
    /\ txn[t].at = "stamped"
    /\ queue' = queue \cup RowsOf(txn[t].devs, txn[t].created)
    /\ txn' = [txn EXCEPT ![t].at = "inserted"]
    /\ UNCHANGED <<plant, stored, now, pc, lock, run, missed, stranded,
                   changes, failures>>

\* schedule_analysis, the existence query: nothing to do behind a waiting job.
CheckWaiting(t) ==
    /\ txn[t].at = "inserted"
    /\ txn' = [txn EXCEPT ![t] = IF \E p \in Job : Waiting(p) THEN IdleTxn
                                 ELSE [@ EXCEPT !.at = "enqueue"]]
    /\ UNCHANGED <<plant, stored, queue, now, pc, lock, run, missed, stranded,
                   changes, failures>>

\* schedule_analysis, the enqueue: no lock ties it to the query before it.
Enqueue(t, j) ==
    /\ txn[t].at = "enqueue"
    /\ pc[j] = "free"
    /\ pc' = [pc EXCEPT ![j] = "waiting"]
    /\ txn' = [txn EXCEPT ![t] = IdleTxn]
    /\ stranded' = FALSE
    /\ UNCHANGED <<plant, stored, queue, now, lock, run, missed, changes, failures>>

\* Another on_commit callback raises first, or the process dies: the flush is
\* skipped and no row is ever written for this change.
LoseFlush(t) ==
    /\ txn[t].at \in {"committed", "stamped"}
    /\ failures < MaxFailures
    /\ failures' = failures + 1
    /\ missed' = missed \cup txn[t].devs
    /\ txn' = [txn EXCEPT ![t] = IdleTxn]
    /\ UNCHANGED <<plant, stored, queue, now, pc, lock, run, stranded, changes>>

\* schedule_analysis raises after the insert: logged, the rows stay.
ScheduleFails(t) ==
    /\ txn[t].at \in {"inserted", "enqueue"}
    /\ failures < MaxFailures
    /\ failures' = failures + 1
    /\ stranded' = TRUE
    /\ txn' = [txn EXCEPT ![t] = IdleTxn]
    /\ UNCHANGED <<plant, stored, queue, now, pc, lock, run, missed, changes>>

(***************************************************************************)
(* jobs.py: PathAnalysisJob.run.                                           *)
(***************************************************************************)

\* A worker picks the job up: its row leaves the waiting statuses.
Start(j) ==
    /\ pc[j] = "waiting"
    /\ pc' = [pc EXCEPT ![j] = "started"]
    /\ UNCHANGED <<plant, stored, queue, now, txn, lock, run, missed, stranded,
                   changes, failures>>

\* try_analysis_lock fails: reschedule behind the holder unless a job waits.
LockBusy(j) ==
    /\ pc[j] = "started"
    /\ lock # {}
    /\ pc' = [pc EXCEPT ![j] = IF \E p \in Job : Waiting(p) THEN "free" ELSE "waiting"]
    /\ UNCHANGED <<plant, stored, queue, now, txn, lock, run, missed, stranded,
                   changes, failures>>

\* try_analysis_lock succeeds; the transaction has read nothing yet.
LockTaken(j) ==
    /\ pc[j] = "started"
    /\ lock = {}
    /\ lock' = {j}
    /\ pc' = [pc EXCEPT ![j] = "locked"]
    /\ UNCHANGED <<plant, stored, queue, now, txn, run, missed, stranded,
                   changes, failures>>

\* Mutant: the snapshot keeps device ids where row keys are deleted later.
SnapshotDevices(j, region) ==
    /\ pc[j] = "locked"
    /\ queue # {}
    /\ {r.dev : r \in queue} \subseteq region
    /\ run' = [run EXCEPT ![j] = [NoRun EXCEPT !.rows = {r.dev : r \in queue}, !.region = region]]
    /\ pc' = [pc EXCEPT ![j] = "loading"]
    /\ UNCHANGED <<plant, stored, queue, now, txn, lock, missed, stranded,
                   changes, failures>>

\* The queue snapshot.  The run rewrites the paths through a region that holds
\* at least the snapshot's devices.
Snapshot(j, region) ==
    /\ pc[j] = "locked"
    /\ queue # {}
    /\ {r.dev : r \in queue} \subseteq region
    /\ run' = [run EXCEPT ![j] = [NoRun EXCEPT !.rows = queue, !.region = region]]
    /\ pc' = [pc EXCEPT ![j] = "loading"]
    /\ UNCHANGED <<plant, stored, queue, now, txn, lock, missed, stranded,
                   changes, failures>>

\* An empty queue ends the job.
NothingQueued(j) ==
    /\ pc[j] = "locked"
    /\ queue = {}
    /\ pc' = [pc EXCEPT ![j] = "free"]
    /\ lock' = lock \ {j}
    /\ UNCHANGED <<plant, stored, queue, now, txn, run, missed, stranded,
                   changes, failures>>

(***************************************************************************)
(* path_analysis.py: loading, writing, and the reconcile.                  *)
(***************************************************************************)

\* Mutant: the reconcile looks only where a row is queued, and leaves the rows to the jobs.
ReconcileQueued ==
    /\ pc[Reconciler] = "free"
    /\ lock = {}
    /\ lock' = {Reconciler}
    /\ run' = [run EXCEPT ![Reconciler] =
                 [NoRun EXCEPT !.region = {r.dev : r \in queue}]]
    /\ pc' = [pc EXCEPT ![Reconciler] = "loading"]
    /\ UNCHANGED <<plant, stored, queue, now, txn, missed, stranded, changes, failures>>

\* PathReconcileJob.run under the lock; a busy lock skips the run altogether.
ReconcileStart ==
    /\ pc[Reconciler] = "free"
    /\ lock = {}
    /\ lock' = {Reconciler}
    /\ run' = [run EXCEPT ![Reconciler] =
                 [NoRun EXCEPT !.started = now, !.region = Device]]
    /\ pc' = [pc EXCEPT ![Reconciler] = "loading"]
    /\ UNCHANGED <<plant, stored, queue, now, txn, missed, stranded, changes, failures>>

\* What run p knows once it has read device d.
AfterRead(p, d) == [run[p] EXCEPT !.read = @ \cup {d},
                                  !.loaded = [@ EXCEPT ![d] = plant[d]]]

\* load_plant reads one device of the region.
Load(p, d) ==
    /\ pc[p] = "loading"
    /\ d \in run[p].region \ run[p].read
    /\ run' = [run EXCEPT ![p] = AfterRead(p, d)]
    /\ UNCHANGED <<plant, stored, queue, now, txn, pc, lock, missed, stranded,
                   changes, failures>>

\* What the stored paths through device d are walked from once run p commits.  If
\* rows it read were deleted, a commit that succeeds wrote no hop over them.
Outcome(p, d) ==
    IF d \in run[p].region \ run[p].gone THEN run[p].loaded[d] ELSE stored[d]

\* Mutant: every row of an analyzed device goes, queued before the read or after.
ConsumedByDevice(p) == {r \in queue : r.dev \in run[p].region}

\* The rows a run deletes: exactly its snapshot, or every row older than the
\* reconcile's start.
Consumed(p) ==
    IF p = Reconciler THEN {r \in queue : r.created < run[p].started}
    ELSE queue \cap run[p].rows

\* write_results and the queue delete become visible together.  Paths that did not
\* change are not written again, so a run may pass over deleted rows.
WriteResults(p) ==
    /\ pc[p] = "loading"
    /\ run[p].read = run[p].region
    /\ stored' = [d \in Device |-> Outcome(p, d)]
    /\ queue' = queue \ Consumed(p)
    /\ missed' = {d \in missed \cup run[p].dropped : Outcome(p, d) # plant[d]}
    /\ pc' = [pc EXCEPT ![p] = "free"]
    /\ lock' = lock \ {p}
    /\ run' = [run EXCEPT ![p] = NoRun]
    /\ UNCHANGED <<plant, now, txn, stranded, changes, failures>>

\* The transaction of a run rolls back: nothing is written, no row deleted, the
\* lock is released, and no job is scheduled for the rows that stay.
Abort(p) ==
    /\ pc' = [pc EXCEPT ![p] = "free"]
    /\ lock' = lock \ {p}
    /\ run' = [run EXCEPT ![p] = NoRun]
    /\ stranded' = (stranded \/ p \in Job)
    /\ UNCHANGED <<plant, stored, queue, now, txn, missed, changes>>

\* IntegrityError at commit: a hop or an end refers to a row that was deleted.
CommitRefused(p) ==
    /\ pc[p] = "loading"
    /\ run[p].read = run[p].region
    /\ run[p].gone # {}
    /\ Abort(p)
    /\ UNCHANGED failures

\* Any other exception, or the worker process dies.
RunFails(p) ==
    /\ pc[p] \in {"started", "locked", "loading"}
    /\ failures < MaxFailures
    /\ failures' = failures + 1
    /\ Abort(p)

(***************************************************************************)
(* The specification.                                                      *)
(***************************************************************************)

Change(t) ==
    \E devs \in SUBSET Device \ {{}} :
      \E cfg \in [devs -> Config], deleted \in SUBSET devs :
        \E lost \in SUBSET {d \in deleted : cfg[d] = NoFiber} :
          Commit(t, devs, cfg, deleted) /\ Cascade(lost)

TxnStep(t) ==
    \/ Change(t)
    \/ Stamp(t)
    \/ Insert(t)
    \/ CheckWaiting(t)
    \/ \E j \in Job : Enqueue(t, j)
    \/ LoseFlush(t)
    \/ ScheduleFails(t)

JobStep(j) ==
    \/ Start(j)
    \/ LockBusy(j)
    \/ LockTaken(j)
    \/ \E region \in SUBSET Device : Snapshot(j, region)
    \/ NothingQueued(j)

RunStep(p) ==
    \/ \E d \in Device : Load(p, d)
    \/ WriteResults(p)
    \/ CommitRefused(p)
    \/ RunFails(p)

Next ==
    \/ \E t \in Txn : TxnStep(t)
    \/ \E j \in Job : JobStep(j)
    \/ ReconcileStart
    \/ \E p \in Proc : RunStep(p)

Spec == Init /\ [][Next]_vars

\* Hooks, workers and queries make progress; new changes and failures are never
\* owed.  The reconcile is periodic and finds the lock free again and again, so
\* it is owed a turn even though other runs keep taking the lock.
Fairness ==
    /\ \A t \in Txn : WF_vars(Stamp(t) \/ Insert(t) \/ CheckWaiting(t)
                              \/ \E j \in Job : Enqueue(t, j))
    /\ \A j \in Job : WF_vars(JobStep(j))
    /\ \A p \in Proc : WF_vars(\/ \E d \in Device : Load(p, d)
                               \/ WriteResults(p) \/ CommitRefused(p))
    /\ SF_vars(ReconcileStart)

FairSpec == Spec /\ Fairness

(***************************************************************************)
(* What must hold.                                                         *)
(***************************************************************************)

\* Connection t still has to write a row for device d.
Pending(t, d) == txn[t].at \in {"committed", "stamped"} /\ d \in txn[t].devs

\* No plant change is forgotten: while the stored paths of a device differ from
\* the plant, a hook is still to queue it or a row for it is queued, unless its
\* flush was lost outright, or the device lost its last fiber between the read
\* of a run and its commit and was on no committed path then (missed).  Fails if
\* a run deletes a row newer than its reads, if the relevance filter forgets a
\* device for any other reason, or if two runs overlap (PathAnalysisJob.run,
\* run_reconcile, relevant_device_ids).
ChangeTracked ==
    \A d \in Device :
        stored[d] # plant[d] =>
            \/ d \in missed
            \/ \E t \in Txn : Pending(t, d)
            \/ \E r \in queue : r.dev = d

\* No queued row waits for nobody: unless a schedule or a run failed since the
\* last job was scheduled, every row is covered by a waiting job, a hook about
\* to schedule one, a job that has yet to read the queue, or the run that read
\* it (schedule_analysis ignores running jobs; a run that finds the lock held
\* reschedules).
QueueServed ==
    \A r \in queue :
        \/ stranded
        \/ \E j \in Job : pc[j] \in {"waiting", "started", "locked"}
        \/ \E t \in Txn : txn[t].at \in {"inserted", "enqueue"}
        \/ \E j \in Job : pc[j] = "loading" /\ r \in run[j].rows

\* Once changes stop, the stored paths become and stay those of the plant,
\* whatever flush, schedule or run was lost on the way: the reconcile repairs it.
EventuallyCurrent == <>[](stored = plant)

(***************************************************************************)
(* What the documentation says of the queue.                               *)
(***************************************************************************)

\* docs/user-guide/path-analysis.md: plant changes queue the devices they touch,
\* and the removal of a device's last cable still queues it.  So with no flush
\* lost, a device whose stored paths are out of date is queued or about to be.
ChangeQueued ==
    \A d \in Device :
        stored[d] # plant[d] =>
            \/ \E t \in Txn : Pending(t, d)
            \/ \E r \in queue : r.dev = d
=============================================================================
