---------------------- MODULE PipelineAndFault_proofs ----------------------
(***************************************************************************)
(* Proofs about AnalysisPipeline, for any set of devices, connections and  *)
(* job rows and any number of changes and failures.                        *)
(*                                                                         *)
(* The two safety properties are not inductive as they stand.  A run that  *)
(* is about to write must know that whatever it read too early is tracked  *)
(* by something it will not delete (LoadedTracked); that rests on the lock *)
(* (LockHeld), on the clock that orders rows and runs (ClockOrder), on a   *)
(* stamped row being new to everyone (StampedFresh) and on a run rewriting *)
(* every device it deletes rows of (RunCovers).  GoneWasRead says of which *)
(* devices a deletion can take a read away.                                *)
(***************************************************************************)
EXTENDS AnalysisPipeline, FaultRecord, TLAPS

LockHeld ==
    /\ \A p \in Proc : p \in lock <=> pc[p] \in {"locked", "loading"}
    /\ \A p, q \in lock : p = q
    /\ pc[Reconciler] \in {"free", "loading"}

ClockOrder ==
    /\ \A r \in queue : r.created < now
    /\ \A t \in Txn : txn[t].at = "stamped" => txn[t].created < now
    /\ \A p \in Proc : run[p].started <= now
    /\ \A p \in Proc : \A r \in run[p].rows : r.created < now

StampedFresh ==
    \A t \in Txn : txn[t].at = "stamped" =>
        /\ \A r \in queue : r.created # txn[t].created
        /\ \A p \in Proc : \A r \in run[p].rows : r.created # txn[t].created
        /\ \A u \in Txn : txn[u].at = "stamped" /\ txn[u].created = txn[t].created => u = t

RunCovers ==
    \A p \in Proc : pc[p] = "loading" =>
        /\ \A r \in run[p].rows : r.dev \in run[p].region
        /\ p = Reconciler => run[p].region = Device

\* Only rows that were read are deleted behind the back of a run.
GoneWasRead == \A p \in Proc : run[p].gone \subseteq run[p].read /\ run[p].read \subseteq run[p].region

\* Device d is tracked by something run p will not delete.
TrackedPast(p, d) ==
    \/ d \in missed \cup run[p].dropped
    \/ \E t \in Txn : txn[t].at = "committed" /\ d \in txn[t].devs
    \/ \E t \in Txn : /\ txn[t].at = "stamped" /\ d \in txn[t].devs
                      /\ p = Reconciler => run[p].started <= txn[t].created
    \/ \E r \in queue : r.dev = d /\ r \notin Consumed(p)

LoadedTracked ==
    \A p \in Proc, d \in Device :
        /\ pc[p] = "loading"
        /\ d \in run[p].read
        /\ Outcome(p, d) # plant[d]
        => TrackedPast(p, d)

IInv ==
    /\ TypeOK
    /\ LockHeld
    /\ ClockOrder
    /\ StampedFresh
    /\ RunCovers
    /\ GoneWasRead
    /\ LoadedTracked
    /\ ChangeTracked
    /\ QueueServed

(***************************************************************************)
(* Type correctness.                                                       *)
(***************************************************************************)

\* The values a connection and a run are reset to are well typed.
LEMMA ResetTyped == IdleTxn \in TxnState /\ NoRun \in RunState
BY PipelineAssumption DEF IdleTxn, TxnState, NoRun, RunState, Row

\* Reading a device adds it to what the run knows and leaves its rows alone.
LEMMA AfterReadIs ==
    ASSUME NEW p \in Proc, run[p] \in RunState, NEW d \in Device
    PROVE  /\ AfterRead(p, d).read = run[p].read \cup {d}
           /\ AfterRead(p, d).loaded = [run[p].loaded EXCEPT ![d] = plant[d]]
           /\ AfterRead(p, d).rows = run[p].rows
           /\ AfterRead(p, d).started = run[p].started
           /\ AfterRead(p, d).region = run[p].region
           /\ AfterRead(p, d).gone = run[p].gone
           /\ AfterRead(p, d).dropped = run[p].dropped
BY DEF AfterRead, RunState

\* A load leaves the rows, the start and the region of every run alone.
LEMMA LoadFrame ==
    ASSUME TypeOK, NEW p \in Proc, NEW d \in Device, Load(p, d)
    PROVE  \A q \in Proc : /\ run'[q].rows = run[q].rows
                           /\ run'[q].started = run[q].started
                           /\ run'[q].region = run[q].region
<1>1. run[p] \in RunState
  BY DEF TypeOK
<1>2. run'[p] = AfterRead(p, d) /\ \A q \in Proc : q # p => run'[q] = run[q]
  BY DEF Load, TypeOK
<1>3. /\ AfterRead(p, d).rows = run[p].rows
      /\ AfterRead(p, d).started = run[p].started
      /\ AfterRead(p, d).region = run[p].region
  BY <1>1, AfterReadIs
<1> QED BY <1>2, <1>3

\* A change and a stamp only note what happened to devices a run has read.
LEMMA NoteFrame ==
    ASSUME TypeOK, NEW t \in Txn,
           (\E devs, cfg, unplugged : Commit(t, devs, cfg, unplugged)) \/ Stamp(t)
    PROVE  \A q \in Proc : /\ run'[q].rows = run[q].rows
                           /\ run'[q].started = run[q].started
                           /\ run'[q].region = run[q].region
                           /\ run'[q].read = run[q].read
                           /\ run'[q].loaded = run[q].loaded
BY DEF Commit, Stamp, TypeOK, RunState

\* Queue rows are well typed.
LEMMA RowsTyped ==
    ASSUME NEW devs \in SUBSET Device, NEW created \in Nat
    PROVE  RowsOf(devs, created) \subseteq Row
BY DEF RowsOf, Row

\* Every step keeps the variables in their types.
LEMMA TypeStep == TypeOK /\ [Next]_vars => TypeOK'
<1> SUFFICES ASSUME TypeOK, [Next]_vars PROVE TypeOK'
  OBVIOUS
<1> USE ResetTyped DEF TypeOK
<1>1. ASSUME NEW t \in Txn, NEW devs \in SUBSET Device, NEW cfg \in [devs -> Config],
             NEW unplugged \in SUBSET devs, NEW lost \in SUBSET unplugged,
             Commit(t, devs, cfg, unplugged), Cascade(lost)
      PROVE  TypeOK'
  <2>1. run' \in [Proc -> RunState]
    BY <1>1 DEF Commit, RunState
  <2>2. plant' \in [Device -> Config] /\ stored' \in [Device -> Config]
    BY <1>1, PipelineAssumption DEF Commit, Cascade
  <2>3. txn' \in [Txn -> TxnState]
    BY <1>1 DEF Commit, TxnState
  <2> QED BY <1>1, <2>1, <2>2, <2>3 DEF Commit
<1>2. ASSUME NEW t \in Txn, Stamp(t) PROVE TypeOK'
  <2>0. txn[t].devs \in SUBSET Device
    BY DEF TxnState
  <2>1. run' \in [Proc -> RunState]
    BY <1>2, <2>0 DEF Stamp, RunState
  <2>2. txn' \in [Txn -> TxnState] /\ now' \in Nat
    BY <1>2 DEF Stamp, TxnState
  <2> QED BY <1>2, <2>1, <2>2 DEF Stamp
<1>3. ASSUME NEW t \in Txn, Insert(t) PROVE TypeOK'
  <2>1. txn[t].devs \in SUBSET Device /\ txn[t].created \in Nat
    BY DEF TxnState
  <2>2. queue' \subseteq Row
    BY <1>3, <2>1, RowsTyped DEF Insert
  <2>3. txn' \in [Txn -> TxnState]
    BY <1>3 DEF Insert, TxnState
  <2> QED BY <1>3, <2>2, <2>3 DEF Insert
<1>4. ASSUME NEW t \in Txn, CheckWaiting(t) PROVE TypeOK'
  BY <1>4 DEF CheckWaiting, TxnState
<1>5. ASSUME NEW t \in Txn, NEW j \in Job, Enqueue(t, j) PROVE TypeOK'
  BY <1>5 DEF Enqueue
<1>6. ASSUME NEW t \in Txn, LoseFlush(t) PROVE TypeOK'
  BY <1>6 DEF LoseFlush, TxnState
<1>7. ASSUME NEW t \in Txn, ScheduleFails(t) PROVE TypeOK'
  BY <1>7 DEF ScheduleFails
<1>8. ASSUME NEW j \in Job, Start(j) \/ LockBusy(j) \/ LockTaken(j) \/ NothingQueued(j)
      PROVE  TypeOK'
  BY <1>8 DEF Start, LockBusy, LockTaken, NothingQueued, Proc
<1>9. ASSUME NEW j \in Job, NEW region \in SUBSET Device, Snapshot(j, region)
      PROVE  TypeOK'
  BY <1>9 DEF Snapshot, RunState
<1>10. CASE ReconcileStart
  BY <1>10 DEF ReconcileStart, RunState, Proc
<1>11. ASSUME NEW p \in Proc, NEW d \in Device, Load(p, d) PROVE TypeOK'
  <2>1. run[p] \in RunState
    OBVIOUS
  <2>2. [run[p].loaded EXCEPT ![d] = plant[d]] \in [Device -> Config]
    BY <2>1 DEF RunState
  <2>3. AfterRead(p, d) \in RunState
    BY <2>1, <2>2 DEF RunState, AfterRead
  <2>4. run' \in [Proc -> RunState]
    BY <1>11, <2>3 DEF Load
  <2> QED BY <1>11, <2>4 DEF Load
<1>12. ASSUME NEW p \in Proc, WriteResults(p) PROVE TypeOK'
  <2>1. \A d \in Device : Outcome(p, d) \in Config
    BY DEF Outcome, RunState
  <2>2. run[p].dropped \in SUBSET Device
    BY DEF RunState
  <2> QED BY <1>12, <2>1, <2>2 DEF WriteResults
<1>13. ASSUME NEW p \in Proc, CommitRefused(p) PROVE TypeOK'
  BY <1>13 DEF CommitRefused, Abort
<1>14. ASSUME NEW p \in Proc, RunFails(p) PROVE TypeOK'
  BY <1>14 DEF RunFails, Abort
<1>15. CASE UNCHANGED vars
  BY <1>15 DEF vars
<1> QED
  BY <1>1, <1>2, <1>3, <1>4, <1>5, <1>6, <1>7, <1>8, <1>9, <1>10, <1>11, <1>12,
     <1>13, <1>14, <1>15 DEF Next, TxnStep, Change, JobStep, RunStep

(***************************************************************************)
(* The inductive invariant, conjunct by conjunct.                          *)
(***************************************************************************)

\* The advisory lock excludes: taken, kept and released with the job's state.
LEMMA LockStep == TypeOK /\ LockHeld /\ [Next]_vars => LockHeld'
<1> SUFFICES ASSUME TypeOK, LockHeld, [Next]_vars PROVE LockHeld'
  OBVIOUS
<1> USE PipelineAssumption DEF TypeOK, LockHeld, Proc
<1>1. ASSUME NEW t \in Txn, NEW devs, NEW cfg, NEW unplugged, Commit(t, devs, cfg, unplugged) PROVE LockHeld'
  BY <1>1 DEF Commit
<1>2. ASSUME NEW t \in Txn, Stamp(t) \/ Insert(t) \/ CheckWaiting(t)
             \/ LoseFlush(t) \/ ScheduleFails(t)
      PROVE  LockHeld'
  BY <1>2 DEF Stamp, Insert, CheckWaiting, LoseFlush, ScheduleFails
<1>3. ASSUME NEW t \in Txn, NEW j \in Job, Enqueue(t, j) PROVE LockHeld'
  BY <1>3 DEF Enqueue
<1>4. ASSUME NEW j \in Job, Start(j) PROVE LockHeld'
  BY <1>4 DEF Start
<1>5. ASSUME NEW j \in Job, LockBusy(j) PROVE LockHeld'
  BY <1>5 DEF LockBusy
<1>6. ASSUME NEW j \in Job, LockTaken(j) PROVE LockHeld'
  BY <1>6 DEF LockTaken
<1>7. ASSUME NEW j \in Job, NothingQueued(j) PROVE LockHeld'
  BY <1>7 DEF NothingQueued
<1>8. ASSUME NEW j \in Job, NEW region, Snapshot(j, region) PROVE LockHeld'
  BY <1>8 DEF Snapshot
<1>9. CASE ReconcileStart
  BY <1>9 DEF ReconcileStart
<1>10. ASSUME NEW p \in Proc, NEW d \in Device, Load(p, d) PROVE LockHeld'
  BY <1>10 DEF Load
<1>11. ASSUME NEW p \in Proc, WriteResults(p) PROVE LockHeld'
  BY <1>11 DEF WriteResults
<1>12. ASSUME NEW p \in Proc, CommitRefused(p) \/ RunFails(p) PROVE LockHeld'
  BY <1>12 DEF CommitRefused, RunFails, Abort
<1>13. CASE UNCHANGED vars
  BY <1>13 DEF vars
<1> QED
  BY <1>1, <1>2, <1>3, <1>4, <1>5, <1>6, <1>7, <1>8, <1>9, <1>10, <1>11, <1>12,
     <1>13 DEF Next, TxnStep, Change, JobStep, RunStep

\* Rows and snapshots carry times before now; a run starts no later than now.
LEMMA ClockStep == TypeOK /\ ClockOrder /\ [Next]_vars => ClockOrder'
<1> SUFFICES ASSUME TypeOK, ClockOrder, [Next]_vars PROVE ClockOrder'
  OBVIOUS
<1> USE DEF TypeOK, ClockOrder
<1>1. ASSUME NEW t \in Txn, NEW devs, NEW cfg, NEW unplugged, Commit(t, devs, cfg, unplugged) PROVE ClockOrder'
  <2>1. \A q \in Proc : /\ run'[q].rows = run[q].rows
                       /\ run'[q].started = run[q].started
                       /\ run'[q].region = run[q].region
    BY <1>1, NoteFrame
  <2> QED BY <1>1, <2>1 DEF Commit
<1>2. ASSUME NEW t \in Txn, Stamp(t) PROVE ClockOrder'
  <2>1. \A q \in Proc : run'[q].rows = run[q].rows /\ run'[q].started = run[q].started
    BY <1>2, NoteFrame
  <2>2. now' \in Nat /\ now <= now' /\ queue' = queue
    BY <1>2 DEF Stamp
  <2>3. \A r \in queue' : r.created < now'
    BY <2>2 DEF Row
  <2>4. \A u \in Txn : txn'[u].at = "stamped" => txn'[u].created < now'
    BY <1>2 DEF Stamp, IdleTxn, TxnState
  <2>5. \A q \in Proc : run'[q].started <= now'
    BY <2>1, <2>2 DEF RunState
  <2>6. \A q \in Proc : \A r \in run'[q].rows : r.created < now'
    BY <2>1, <2>2 DEF RunState, Row
  <2> QED BY <2>3, <2>4, <2>5, <2>6
<1>3. ASSUME NEW t \in Txn, Insert(t) PROVE ClockOrder'
  BY <1>3 DEF Insert, RowsOf, Row
<1>4. ASSUME NEW t \in Txn, CheckWaiting(t) \/ LoseFlush(t) \/ ScheduleFails(t)
      PROVE  ClockOrder'
  <2>1. txn'[t].at # "stamped"
    BY <1>4 DEF CheckWaiting, LoseFlush, ScheduleFails, IdleTxn, TxnState
  <2>2. \A u \in Txn : u # t => txn'[u] = txn[u]
    BY <1>4 DEF CheckWaiting, LoseFlush, ScheduleFails
  <2> QED BY <1>4, <2>1, <2>2 DEF CheckWaiting, LoseFlush, ScheduleFails
<1>5. ASSUME NEW t \in Txn, NEW j \in Job, Enqueue(t, j) PROVE ClockOrder'
  BY <1>5 DEF Enqueue, IdleTxn
<1>6. ASSUME NEW j \in Job, Start(j) \/ LockBusy(j) \/ LockTaken(j) \/ NothingQueued(j)
      PROVE  ClockOrder'
  BY <1>6 DEF Start, LockBusy, LockTaken, NothingQueued
<1>7. ASSUME NEW j \in Job, NEW region, Snapshot(j, region) PROVE ClockOrder'
  BY <1>7 DEF Snapshot, NoRun
<1>8. CASE ReconcileStart
  BY <1>8 DEF ReconcileStart, NoRun
<1>9. ASSUME NEW p \in Proc, NEW d \in Device, Load(p, d) PROVE ClockOrder'
  <2>1. \A q \in Proc : /\ run'[q].rows = run[q].rows
                       /\ run'[q].started = run[q].started
                       /\ run'[q].region = run[q].region
    BY <1>9, LoadFrame
  <2> QED BY <1>9, <2>1 DEF Load
<1>10. ASSUME NEW p \in Proc, WriteResults(p) PROVE ClockOrder'
  BY <1>10 DEF WriteResults, NoRun
<1>11. ASSUME NEW p \in Proc, CommitRefused(p) \/ RunFails(p) PROVE ClockOrder'
  BY <1>11 DEF CommitRefused, RunFails, Abort, NoRun
<1>12. CASE UNCHANGED vars
  BY <1>12 DEF vars
<1> QED
  BY <1>1, <1>2, <1>3, <1>4, <1>5, <1>6, <1>7, <1>8, <1>9, <1>10, <1>11, <1>12
     DEF Next, TxnStep, Change, JobStep, RunStep

\* A stamp no queued row, snapshot or other connection carries yet.
LEMMA StampStep == TypeOK /\ ClockOrder /\ StampedFresh /\ [Next]_vars => StampedFresh'
<1> SUFFICES ASSUME TypeOK, ClockOrder, StampedFresh, [Next]_vars PROVE StampedFresh'
  OBVIOUS
<1> USE DEF TypeOK, StampedFresh
<1>1. ASSUME NEW t \in Txn, NEW devs, NEW cfg, NEW unplugged, Commit(t, devs, cfg, unplugged) PROVE StampedFresh'
  <2>1. \A q \in Proc : /\ run'[q].rows = run[q].rows
                       /\ run'[q].started = run[q].started
                       /\ run'[q].region = run[q].region
    BY <1>1, NoteFrame
  <2> QED BY <1>1, <2>1 DEF Commit
<1>2. ASSUME NEW t \in Txn, Stamp(t) PROVE StampedFresh'
  <2>1. \A q \in Proc : run'[q].rows = run[q].rows
    BY <1>2, NoteFrame
  <2>2. \A q \in Proc : \A r \in run'[q].rows : r.created # now
    BY <2>1 DEF ClockOrder, Row, RunState
  <2>3. \A r \in queue : r.created # now
    BY DEF ClockOrder, Row
  <2>4. \A u \in Txn : txn[u].at = "stamped" => txn[u].created # now
    BY DEF ClockOrder, TxnState
  <2>5. queue' = queue /\ \A u \in Txn : u # t => txn'[u] = txn[u]
    BY <1>2 DEF Stamp
  <2>6. txn'[t].at = "stamped" => txn'[t].created = now
    BY <1>2 DEF Stamp, IdleTxn
  <2> QED BY <2>1, <2>2, <2>3, <2>4, <2>5, <2>6
<1>3. ASSUME NEW t \in Txn, Insert(t) PROVE StampedFresh'
  BY <1>3 DEF Insert, RowsOf, Row
<1>4. ASSUME NEW t \in Txn, CheckWaiting(t) \/ LoseFlush(t) \/ ScheduleFails(t)
      PROVE  StampedFresh'
  <2>1. txn'[t].at # "stamped"
    BY <1>4 DEF CheckWaiting, LoseFlush, ScheduleFails, IdleTxn, TxnState
  <2>2. \A u \in Txn : u # t => txn'[u] = txn[u]
    BY <1>4 DEF CheckWaiting, LoseFlush, ScheduleFails
  <2> QED BY <1>4, <2>1, <2>2 DEF CheckWaiting, LoseFlush, ScheduleFails
<1>5. ASSUME NEW t \in Txn, NEW j \in Job, Enqueue(t, j) PROVE StampedFresh'
  BY <1>5 DEF Enqueue, IdleTxn
<1>6. ASSUME NEW j \in Job, Start(j) \/ LockBusy(j) \/ LockTaken(j) \/ NothingQueued(j)
      PROVE  StampedFresh'
  BY <1>6 DEF Start, LockBusy, LockTaken, NothingQueued
<1>7. ASSUME NEW j \in Job, NEW region, Snapshot(j, region) PROVE StampedFresh'
  BY <1>7 DEF Snapshot, NoRun
<1>8. CASE ReconcileStart
  BY <1>8 DEF ReconcileStart, NoRun
<1>9. ASSUME NEW p \in Proc, NEW d \in Device, Load(p, d) PROVE StampedFresh'
  <2>1. \A q \in Proc : /\ run'[q].rows = run[q].rows
                       /\ run'[q].started = run[q].started
                       /\ run'[q].region = run[q].region
    BY <1>9, LoadFrame
  <2> QED BY <1>9, <2>1 DEF Load
<1>10. ASSUME NEW p \in Proc, WriteResults(p) PROVE StampedFresh'
  BY <1>10 DEF WriteResults, NoRun
<1>11. ASSUME NEW p \in Proc, CommitRefused(p) \/ RunFails(p) PROVE StampedFresh'
  BY <1>11 DEF CommitRefused, RunFails, Abort, NoRun
<1>12. CASE UNCHANGED vars
  BY <1>12 DEF vars
<1> QED
  BY <1>1, <1>2, <1>3, <1>4, <1>5, <1>6, <1>7, <1>8, <1>9, <1>10, <1>11, <1>12
     DEF Next, TxnStep, Change, JobStep, RunStep

\* A run rewrites every device it deletes rows of.
LEMMA CoverStep == TypeOK /\ LockHeld /\ RunCovers /\ [Next]_vars => RunCovers'
<1> SUFFICES ASSUME TypeOK, LockHeld, RunCovers, [Next]_vars PROVE RunCovers'
  OBVIOUS
<1> USE PipelineAssumption DEF TypeOK, RunCovers, Proc
<1>1. ASSUME NEW t \in Txn, NEW devs, NEW cfg, NEW unplugged, Commit(t, devs, cfg, unplugged) PROVE RunCovers'
  <2>1. \A q \in Proc : /\ run'[q].rows = run[q].rows
                       /\ run'[q].started = run[q].started
                       /\ run'[q].region = run[q].region
    BY <1>1, NoteFrame
  <2> QED BY <1>1, <2>1 DEF Commit
<1>2. ASSUME NEW t \in Txn, Stamp(t) \/ Insert(t) \/ CheckWaiting(t)
             \/ LoseFlush(t) \/ ScheduleFails(t)
      PROVE  RunCovers'
  <2>1. CASE Stamp(t)
    <3>1. \A q \in Proc : run'[q].rows = run[q].rows /\ run'[q].region = run[q].region
      BY <2>1, NoteFrame
    <3> QED BY <2>1, <3>1 DEF Stamp
  <2>2. CASE Insert(t) \/ CheckWaiting(t) \/ LoseFlush(t) \/ ScheduleFails(t)
    BY <2>2 DEF Insert, CheckWaiting, LoseFlush, ScheduleFails
  <2> QED BY <1>2, <2>1, <2>2
<1>3. ASSUME NEW t \in Txn, NEW j \in Job, Enqueue(t, j) PROVE RunCovers'
  BY <1>3 DEF Enqueue
<1>4. ASSUME NEW j \in Job, Start(j) \/ LockBusy(j) \/ LockTaken(j) \/ NothingQueued(j)
      PROVE  RunCovers'
  BY <1>4 DEF Start, LockBusy, LockTaken, NothingQueued
<1>5. ASSUME NEW j \in Job, NEW region, Snapshot(j, region) PROVE RunCovers'
  BY <1>5 DEF Snapshot, NoRun
<1>6. CASE ReconcileStart
  BY <1>6 DEF ReconcileStart, NoRun
<1>7. ASSUME NEW p \in Proc, NEW d \in Device, Load(p, d) PROVE RunCovers'
  <2>1. \A q \in Proc : /\ run'[q].rows = run[q].rows
                       /\ run'[q].started = run[q].started
                       /\ run'[q].region = run[q].region
    BY <1>7, LoadFrame
  <2> QED BY <1>7, <2>1 DEF Load
<1>8. ASSUME NEW p \in Proc, WriteResults(p) PROVE RunCovers'
  BY <1>8 DEF WriteResults
<1>9. ASSUME NEW p \in Proc, CommitRefused(p) \/ RunFails(p) PROVE RunCovers'
  BY <1>9 DEF CommitRefused, RunFails, Abort
<1>10. CASE UNCHANGED vars
  BY <1>10 DEF vars
<1> QED
  BY <1>1, <1>2, <1>3, <1>4, <1>5, <1>6, <1>7, <1>8, <1>9, <1>10
     DEF Next, TxnStep, Change, JobStep, RunStep

\* A deletion is noted only for what a run has read, and a new run has read nothing.
LEMMA GoneStep == TypeOK /\ GoneWasRead /\ [Next]_vars => GoneWasRead'
<1> SUFFICES ASSUME TypeOK, GoneWasRead, [Next]_vars PROVE GoneWasRead'
  OBVIOUS
<1> USE PipelineAssumption DEF TypeOK, GoneWasRead, Proc
<1>1. ASSUME NEW t \in Txn, NEW devs, NEW cfg, NEW unplugged, Commit(t, devs, cfg, unplugged)
      PROVE  GoneWasRead'
  BY <1>1 DEF Commit, Held, RunState
<1>2. ASSUME NEW t \in Txn, Stamp(t) PROVE GoneWasRead'
  BY <1>2 DEF Stamp, RunState
<1>3. ASSUME NEW t \in Txn,
             Insert(t) \/ CheckWaiting(t) \/ LoseFlush(t) \/ ScheduleFails(t)
      PROVE  GoneWasRead'
  BY <1>3 DEF Insert, CheckWaiting, LoseFlush, ScheduleFails
<1>4. ASSUME NEW t \in Txn, NEW j \in Job, Enqueue(t, j) PROVE GoneWasRead'
  BY <1>4 DEF Enqueue
<1>5. ASSUME NEW j \in Job, Start(j) \/ LockBusy(j) \/ LockTaken(j) \/ NothingQueued(j)
      PROVE  GoneWasRead'
  BY <1>5 DEF Start, LockBusy, LockTaken, NothingQueued
<1>6. ASSUME NEW j \in Job, NEW region, Snapshot(j, region) PROVE GoneWasRead'
  BY <1>6 DEF Snapshot, NoRun
<1>7. CASE ReconcileStart
  BY <1>7 DEF ReconcileStart, NoRun
<1>8. ASSUME NEW p \in Proc, NEW d \in Device, Load(p, d) PROVE GoneWasRead'
  <2>1. run[p] \in RunState
    OBVIOUS
  <2>2. /\ run'[p].read = run[p].read \cup {d}
        /\ run'[p].gone = run[p].gone
        /\ run'[p].region = run[p].region
        /\ \A q \in Proc : q # p => run'[q] = run[q]
    BY <1>8, <2>1, AfterReadIs DEF Load
  <2> QED BY <1>8, <2>2 DEF Load
<1>9. ASSUME NEW p \in Proc, WriteResults(p) PROVE GoneWasRead'
  BY <1>9 DEF WriteResults, NoRun
<1>10. ASSUME NEW p \in Proc, CommitRefused(p) \/ RunFails(p) PROVE GoneWasRead'
  BY <1>10 DEF CommitRefused, RunFails, Abort, NoRun
<1>11. CASE UNCHANGED vars
  BY <1>11 DEF vars
<1> QED
  BY <1>1, <1>2, <1>3, <1>4, <1>5, <1>6, <1>7, <1>8, <1>9, <1>10, <1>11
     DEF Next, TxnStep, Change, JobStep, RunStep

\* What a run read too early stays tracked by something it will not delete.
LEMMA LoadedStep ==
    /\ TypeOK /\ LockHeld /\ ClockOrder /\ StampedFresh /\ GoneWasRead /\ LoadedTracked
    /\ [Next]_vars
    => LoadedTracked'
<1> SUFFICES ASSUME TypeOK, LockHeld, ClockOrder, StampedFresh, GoneWasRead, LoadedTracked,
                    [Next]_vars,
                    NEW p \in Proc, NEW d \in Device,
                    pc'[p] = "loading", d \in run'[p].read, Outcome(p, d)' # plant'[d]
             PROVE  TrackedPast(p, d)'
  BY DEF LoadedTracked
<1>0. ASSUME pc[p] = "loading", d \in run[p].read, Outcome(p, d) # plant[d]
      PROVE  TrackedPast(p, d)
  BY <1>0 DEF LoadedTracked
<1> USE PipelineAssumption DEF TypeOK, TrackedPast, Consumed, Proc
<1>1. ASSUME NEW t \in Txn, NEW devs \in SUBSET Device, NEW cfg \in [devs -> Config],
             NEW unplugged \in SUBSET devs, NEW lost \in SUBSET unplugged,
             Commit(t, devs, cfg, unplugged), Cascade(lost)
      PROVE  TrackedPast(p, d)'
  <2>1. CASE d \in devs
    BY <1>1, <2>1 DEF Commit
  <2>2. CASE d \notin devs
    <3>1. /\ run'[p].rows = run[p].rows /\ run'[p].started = run[p].started
          /\ run'[p].region = run[p].region /\ run'[p].read = run[p].read
          /\ run'[p].loaded = run[p].loaded
      BY <1>1, NoteFrame
    <3>2. d \in run'[p].gone <=> d \in run[p].gone
      BY <1>1, <2>2 DEF Commit, RunState
    <3>3. run'[p].dropped = run[p].dropped
      BY <1>1 DEF Commit, RunState
    <3>4. plant'[d] = plant[d] /\ stored'[d] = stored[d]
      BY <1>1, <2>2 DEF Commit, Cascade
    <3>5. Outcome(p, d)' = Outcome(p, d)
      BY <3>1, <3>2, <3>4 DEF Outcome
    <3>6. TrackedPast(p, d)
      BY <1>0, <1>1, <3>1, <3>4, <3>5 DEF Commit
    <3> QED BY <1>1, <3>1, <3>3, <3>6 DEF Commit
  <2> QED BY <2>1, <2>2
<1>2. ASSUME NEW t \in Txn, Stamp(t) PROVE TrackedPast(p, d)'
  <2>0. /\ run'[p].rows = run[p].rows /\ run'[p].started = run[p].started
        /\ run'[p].region = run[p].region /\ run'[p].read = run[p].read
        /\ run'[p].loaded = run[p].loaded
    BY <1>2, NoteFrame
  <2>1. /\ run'[p].gone = run[p].gone
        /\ run'[p].dropped = run[p].dropped \cup
                             {e \in txn[t].devs \ {i \in txn[t].devs : Relevant(i)} : Held(p, e)}
    BY <1>2 DEF Stamp, RunState
  <2>2. Outcome(p, d) # plant[d] /\ d \in run[p].read /\ pc[p] = "loading"
    BY <1>2, <2>0, <2>1 DEF Stamp, Outcome
  <2>3. TrackedPast(p, d)
    BY <1>0, <2>2
  <2>4. CASE d \in txn[t].devs /\ Relevant(d)
    <3>1. run[p].started <= now
      BY DEF ClockOrder
    <3>2. txn'[t] = [at |-> "stamped", devs |-> {i \in txn[t].devs : Relevant(i)}, created |-> now]
      BY <1>2, <2>4 DEF Stamp
    <3> QED BY <2>0, <2>4, <3>1, <3>2
  <2>5. CASE d \in txn[t].devs /\ ~Relevant(d)
    <3>1. d \in run[p].region \ run[p].gone /\ run[p].loaded[d] # NoFiber
      BY <2>2, <2>5 DEF Outcome, Relevant, GoneWasRead
    <3>2. d \in run'[p].dropped
      BY <2>1, <2>2, <2>5, <3>1 DEF Held
    <3> QED BY <3>2
  <2>6. CASE d \notin txn[t].devs
    BY <1>2, <2>0, <2>1, <2>3, <2>6 DEF Stamp
  <2> QED BY <2>4, <2>5, <2>6
<1>3. ASSUME NEW t \in Txn, Insert(t) PROVE TrackedPast(p, d)'
  <2>1. TrackedPast(p, d)
    BY <1>0, <1>3 DEF Insert, Outcome
  <2>2. CASE /\ d \in txn[t].devs
             /\ p = Reconciler => run[p].started <= txn[t].created
    <3> DEFINE queued == [dev |-> d, created |-> txn[t].created]
    <3>1. queued \in queue'
      BY <1>3, <2>2 DEF Insert, RowsOf
    <3>2. queued \notin run[p].rows
      BY <1>3 DEF Insert, StampedFresh
    <3>3. txn[t].created \in Nat /\ run[p].started \in Nat
      BY DEF TxnState, RunState
    <3>4. queued \notin Consumed(p)'
      BY <1>3, <2>2, <3>2, <3>3 DEF Insert
    <3> QED BY <3>1, <3>4
  <2>3. CASE ~(d \in txn[t].devs /\ (p = Reconciler => run[p].started <= txn[t].created))
    BY <1>3, <2>1, <2>3 DEF Insert
  <2> QED BY <2>2, <2>3
<1>4. ASSUME NEW t \in Txn, CheckWaiting(t) \/ ScheduleFails(t) PROVE TrackedPast(p, d)'
  <2>1. TrackedPast(p, d)
    BY <1>0, <1>4 DEF CheckWaiting, ScheduleFails, Outcome
  <2> QED BY <1>4, <2>1 DEF CheckWaiting, ScheduleFails
<1>5. ASSUME NEW t \in Txn, LoseFlush(t) PROVE TrackedPast(p, d)'
  <2>1. TrackedPast(p, d)
    BY <1>0, <1>5 DEF LoseFlush, Outcome
  <2> QED BY <1>5, <2>1 DEF LoseFlush
<1>6. ASSUME NEW t \in Txn, NEW j \in Job, Enqueue(t, j) PROVE TrackedPast(p, d)'
  <2>1. TrackedPast(p, d)
    BY <1>0, <1>6 DEF Enqueue, Outcome
  <2> QED BY <1>6, <2>1 DEF Enqueue
<1>7. ASSUME NEW j \in Job, Start(j) \/ LockBusy(j) \/ LockTaken(j) \/ NothingQueued(j)
      PROVE  TrackedPast(p, d)'
  <2>1. TrackedPast(p, d)
    BY <1>0, <1>7 DEF Start, LockBusy, LockTaken, NothingQueued, Outcome
  <2> QED BY <1>7, <2>1 DEF Start, LockBusy, LockTaken, NothingQueued
<1>8. ASSUME NEW j \in Job, NEW region, Snapshot(j, region) PROVE TrackedPast(p, d)'
  <2>1. p # j
    BY <1>8 DEF Snapshot, NoRun
  <2>2. TrackedPast(p, d)
    BY <1>0, <1>8, <2>1 DEF Snapshot, Outcome
  <2> QED BY <1>8, <2>1, <2>2 DEF Snapshot
<1>9. CASE ReconcileStart
  <2>1. p # Reconciler
    BY <1>9 DEF ReconcileStart, NoRun
  <2>2. TrackedPast(p, d)
    BY <1>0, <1>9, <2>1 DEF ReconcileStart, Outcome
  <2> QED BY <1>9, <2>1, <2>2 DEF ReconcileStart
<1>10. ASSUME NEW q \in Proc, NEW e \in Device, Load(q, e) PROVE TrackedPast(p, d)'
  <2>1. run[q] \in RunState
    OBVIOUS
  <2>2. /\ run'[q].read = run[q].read \cup {e}
        /\ run'[q].loaded = [run[q].loaded EXCEPT ![e] = plant[e]]
        /\ run'[q].rows = run[q].rows
        /\ run'[q].started = run[q].started
        /\ run'[q].region = run[q].region
        /\ run'[q].gone = run[q].gone
        /\ run'[q].dropped = run[q].dropped
        /\ \A o \in Proc : o # q => run'[o] = run[o]
    BY <1>10, <2>1, AfterReadIs DEF Load
  <2>3. TrackedPast(p, d)
    <3>1. CASE p # q
      BY <1>0, <1>10, <2>2, <3>1 DEF Load, Outcome
    <3>2. CASE p = q /\ d # e
      <4>1. Outcome(p, d)' = Outcome(p, d)
        BY <1>10, <2>1, <2>2, <3>2 DEF Load, Outcome, RunState
      <4> QED BY <1>0, <1>10, <2>2, <3>2, <4>1 DEF Load
    <3>3. CASE p = q /\ d = e
      <4>1. d \in run[p].region \ run[p].gone
        BY <1>10, <3>3 DEF Load, GoneWasRead
      <4>2. Outcome(p, d)' = plant[d]
        BY <1>10, <2>1, <2>2, <3>3, <4>1 DEF Outcome, RunState
      <4> QED BY <1>10, <4>2 DEF Load
    <3> QED BY <3>1, <3>2, <3>3
  <2> QED BY <1>10, <2>2, <2>3 DEF Load
<1>11. ASSUME NEW q \in Proc, WriteResults(q) PROVE TrackedPast(p, d)'
  <2>1. pc[q] = "loading" /\ pc'[q] = "free" /\ \A o \in Proc : o # q => pc'[o] = pc[o]
    BY <1>11 DEF WriteResults
  <2> QED BY <2>1 DEF LockHeld
<1>12. ASSUME NEW q \in Proc, CommitRefused(q) \/ RunFails(q) PROVE TrackedPast(p, d)'
  <2>1. p # q
    BY <1>12 DEF CommitRefused, RunFails, Abort
  <2>2. run'[p] = run[p] /\ pc'[p] = pc[p]
    BY <1>12, <2>1 DEF CommitRefused, RunFails, Abort
  <2>3. TrackedPast(p, d)
    BY <1>0, <1>12, <2>2 DEF CommitRefused, RunFails, Abort, Outcome
  <2> QED BY <1>12, <2>2, <2>3 DEF CommitRefused, RunFails, Abort
<1>13. CASE UNCHANGED vars
  BY <1>0, <1>13 DEF vars, Outcome
<1> QED
  BY <1>1, <1>2, <1>3, <1>4, <1>5, <1>6, <1>7, <1>8, <1>9, <1>10, <1>11, <1>12,
     <1>13 DEF Next, TxnStep, Change, JobStep, RunStep

\* No plant change is forgotten by a step.
LEMMA TrackedStep ==
    TypeOK /\ LockHeld /\ RunCovers /\ LoadedTracked /\ ChangeTracked /\ [Next]_vars
    => ChangeTracked'
<1> DEFINE Tracked(d) == \/ d \in missed
                         \/ \E t \in Txn : Pending(t, d)
                         \/ \E r \in queue : r.dev = d
<1> SUFFICES ASSUME TypeOK, LockHeld, RunCovers, LoadedTracked, ChangeTracked, [Next]_vars,
                    NEW d \in Device, stored'[d] # plant'[d]
             PROVE  Tracked(d)'
  BY DEF ChangeTracked
<1>0. stored[d] # plant[d] => Tracked(d)
  BY DEF ChangeTracked
<1> USE DEF TypeOK, Pending
<1>1. ASSUME NEW t \in Txn, NEW devs \in SUBSET Device, NEW cfg \in [devs -> Config],
             NEW unplugged \in SUBSET devs, NEW lost \in SUBSET unplugged,
             Commit(t, devs, cfg, unplugged), Cascade(lost)
      PROVE  Tracked(d)'
  <2>1. CASE d \in devs
    BY <1>1, <2>1 DEF Commit
  <2>2. CASE d \notin devs
    <3>1. Tracked(d)
      BY <1>0, <1>1, <2>2 DEF Commit, Cascade
    <3> QED BY <1>1, <3>1 DEF Commit
  <2> QED BY <2>1, <2>2
<1>2. ASSUME NEW t \in Txn, Stamp(t) PROVE Tracked(d)'
  <2>1. Relevant(d) /\ Tracked(d)
    BY <1>0, <1>2 DEF Stamp, Relevant
  <2> QED BY <1>2, <2>1 DEF Stamp
<1>3. ASSUME NEW t \in Txn, Insert(t) PROVE Tracked(d)'
  <2>1. CASE d \in txn[t].devs
    <3>1. [dev |-> d, created |-> txn[t].created] \in queue'
      BY <1>3, <2>1 DEF Insert, RowsOf
    <3> QED BY <3>1
  <2>2. CASE d \notin txn[t].devs
    BY <1>0, <1>3, <2>2 DEF Insert
  <2> QED BY <2>1, <2>2
<1>4. ASSUME NEW t \in Txn, CheckWaiting(t) \/ LoseFlush(t) \/ ScheduleFails(t)
      PROVE  Tracked(d)'
  BY <1>0, <1>4 DEF CheckWaiting, LoseFlush, ScheduleFails
<1>5. ASSUME NEW t \in Txn, NEW j \in Job, Enqueue(t, j) PROVE Tracked(d)'
  BY <1>0, <1>5 DEF Enqueue
<1>6. ASSUME NEW j \in Job, Start(j) \/ LockBusy(j) \/ LockTaken(j) \/ NothingQueued(j)
      PROVE  Tracked(d)'
  BY <1>0, <1>6 DEF Start, LockBusy, LockTaken, NothingQueued
<1>7. ASSUME NEW j \in Job, NEW region, Snapshot(j, region) PROVE Tracked(d)'
  BY <1>0, <1>7 DEF Snapshot
<1>8. CASE ReconcileStart
  BY <1>0, <1>8 DEF ReconcileStart
<1>9. ASSUME NEW p \in Proc, NEW e \in Device, Load(p, e) PROVE Tracked(d)'
  BY <1>0, <1>9 DEF Load
<1>10. ASSUME NEW p \in Proc, WriteResults(p) PROVE Tracked(d)'
  <2>1. CASE d \in run[p].region
    <3>1. Outcome(p, d) # plant[d]
      BY <1>10 DEF WriteResults
    <3>2. TrackedPast(p, d)
      BY <1>10, <2>1, <3>1 DEF WriteResults, LoadedTracked
    <3> QED BY <1>10, <2>1, <3>1, <3>2 DEF WriteResults, TrackedPast
  <2>2. CASE d \notin run[p].region
    <3>0. Outcome(p, d) = stored[d] /\ Outcome(p, d) # plant[d]
      BY <1>10, <2>2 DEF WriteResults, Outcome
    <3>1. Tracked(d)
      BY <1>0, <3>0
    <3>2. p # Reconciler /\ \A r \in run[p].rows : r.dev # d
      BY <1>10, <2>2 DEF WriteResults, RunCovers
    <3> QED BY <1>10, <2>2, <3>0, <3>1, <3>2 DEF WriteResults, Consumed
  <2> QED BY <2>1, <2>2
<1>11. ASSUME NEW p \in Proc, CommitRefused(p) \/ RunFails(p) PROVE Tracked(d)'
  BY <1>0, <1>11 DEF CommitRefused, RunFails, Abort
<1>12. CASE UNCHANGED vars
  BY <1>0, <1>12 DEF vars
<1> QED
  BY <1>1, <1>2, <1>3, <1>4, <1>5, <1>6, <1>7, <1>8, <1>9, <1>10, <1>11, <1>12
     DEF Next, TxnStep, Change, JobStep, RunStep

\* No queued row is left to nobody by a step.
LEMMA ServedStep == TypeOK /\ LockHeld /\ QueueServed /\ [Next]_vars => QueueServed'
<1> SUFFICES ASSUME TypeOK, LockHeld, QueueServed, [Next]_vars PROVE QueueServed'
  OBVIOUS
<1> USE PipelineAssumption DEF TypeOK, LockHeld, QueueServed, Proc
<1>1. ASSUME NEW t \in Txn, NEW devs \in SUBSET Device, NEW cfg \in [devs -> Config],
             NEW unplugged \in SUBSET devs, NEW lost \in SUBSET unplugged,
             Commit(t, devs, cfg, unplugged), Cascade(lost)
      PROVE  QueueServed'
  <2>1. \A q \in Proc : run'[q].rows = run[q].rows
    BY <1>1, NoteFrame
  <2> QED BY <1>1, <2>1 DEF Commit
<1>2. ASSUME NEW t \in Txn, Stamp(t) PROVE QueueServed'
  <2>1. \A q \in Proc : run'[q].rows = run[q].rows
    BY <1>2, NoteFrame
  <2> QED BY <1>2, <2>1 DEF Stamp
<1>3. ASSUME NEW t \in Txn, Insert(t) PROVE QueueServed'
  <2>1. txn'[t].at = "inserted"
    BY <1>3 DEF Insert, TxnState
  <2> QED BY <2>1
<1>4. ASSUME NEW t \in Txn, CheckWaiting(t) PROVE QueueServed'
  <2>1. CASE \E j \in Job : Waiting(j)
    BY <1>4, <2>1 DEF CheckWaiting, Waiting
  <2>2. CASE ~\E j \in Job : Waiting(j)
    <3>1. txn'[t].at = "enqueue"
      BY <1>4, <2>2 DEF CheckWaiting, TxnState
    <3> QED BY <3>1
  <2> QED BY <2>1, <2>2
<1>5. ASSUME NEW t \in Txn, NEW j \in Job, Enqueue(t, j) PROVE QueueServed'
  <2>1. pc'[j] = "waiting"
    BY <1>5 DEF Enqueue
  <2> QED BY <2>1
<1>6. ASSUME NEW t \in Txn, LoseFlush(t) PROVE QueueServed'
  BY <1>6 DEF LoseFlush
<1>7. ASSUME NEW t \in Txn, ScheduleFails(t) PROVE QueueServed'
  BY <1>7 DEF ScheduleFails
<1>8. ASSUME NEW j \in Job, Start(j) PROVE QueueServed'
  <2>1. pc'[j] = "started"
    BY <1>8 DEF Start
  <2> QED BY <2>1
<1>9. ASSUME NEW j \in Job, LockBusy(j) PROVE QueueServed'
  <2>1. \E i \in Job : pc'[i] = "waiting"
    BY <1>9 DEF LockBusy, Waiting
  <2> QED BY <2>1
<1>10. ASSUME NEW j \in Job, LockTaken(j) PROVE QueueServed'
  <2>1. pc'[j] = "locked"
    BY <1>10 DEF LockTaken
  <2> QED BY <2>1
<1>11. ASSUME NEW j \in Job, NEW region, Snapshot(j, region) PROVE QueueServed'
  BY <1>11 DEF Snapshot
<1>12. ASSUME NEW j \in Job, NothingQueued(j) PROVE QueueServed'
  BY <1>12 DEF NothingQueued
<1>13. CASE ReconcileStart
  BY <1>13 DEF ReconcileStart
<1>14. ASSUME NEW p \in Proc, NEW d \in Device, Load(p, d) PROVE QueueServed'
  <2>1. \A q \in Proc : run'[q].rows = run[q].rows
    BY <1>14, LoadFrame
  <2> QED BY <1>14, <2>1 DEF Load
<1>15. ASSUME NEW p \in Proc, WriteResults(p) PROVE QueueServed'
  BY <1>15 DEF WriteResults, Consumed
<1>16. ASSUME NEW p \in Proc, CommitRefused(p) \/ RunFails(p) PROVE QueueServed'
  BY <1>16 DEF CommitRefused, RunFails, Abort
<1>17. CASE UNCHANGED vars
  BY <1>17 DEF vars
<1> QED
  BY <1>1, <1>2, <1>3, <1>4, <1>5, <1>6, <1>7, <1>8, <1>9, <1>10, <1>11, <1>12,
     <1>13, <1>14, <1>15, <1>16, <1>17 DEF Next, TxnStep, Change, JobStep, RunStep

(***************************************************************************)
(* The theorems.                                                           *)
(***************************************************************************)

\* Everything holds before the first change.
LEMMA InitIInv == Init => IInv
<1> SUFFICES ASSUME Init PROVE IInv
  OBVIOUS
<1> USE PipelineAssumption, ResetTyped DEF Init
<1>1. TypeOK
  BY DEF TypeOK
<1>2. LockHeld /\ RunCovers /\ LoadedTracked
  BY DEF LockHeld, RunCovers, LoadedTracked, Proc
<1>3. GoneWasRead
  BY DEF GoneWasRead, NoRun
<1>4. ClockOrder /\ StampedFresh
  BY DEF ClockOrder, StampedFresh, IdleTxn, NoRun
<1>5. ChangeTracked /\ QueueServed
  BY DEF ChangeTracked, QueueServed
<1> QED BY <1>1, <1>2, <1>3, <1>4, <1>5 DEF IInv

\* IInv is an invariant: the inductive strengthening the three theorems rest on.
THEOREM Inductive == Spec => []IInv
<1>1. Init => IInv
  BY InitIInv
<1>2. IInv /\ [Next]_vars => IInv'
  BY TypeStep, LockStep, ClockStep, StampStep, CoverStep, GoneStep, LoadedStep, TrackedStep,
     ServedStep DEF IInv
<1> QED BY <1>1, <1>2, PTL DEF Spec

\* Every variable keeps its type, whatever the interleaving of transactions,
\* jobs and the reconcile.
THEOREM TypeCorrect == Spec => []TypeOK
<1>1. IInv => TypeOK
  BY DEF IInv
<1> QED BY <1>1, Inductive, PTL

\* No committed plant change is forgotten (path_queue.py's rows, the deletion of
\* exactly the snapshot in jobs.py, the reconcile's cut-off by creation time).
THEOREM NoChangeForgotten == Spec => []ChangeTracked
<1>1. IInv => ChangeTracked
  BY DEF IInv
<1> QED BY <1>1, Inductive, PTL

\* No queued row waits for nobody (schedule_analysis and PathAnalysisJob.run).
THEOREM NoRowAbandoned == Spec => []QueueServed
<1>1. IInv => QueueServed
  BY DEF IInv
<1> QED BY <1>1, Inductive, PTL

-----------------------------------------------------------------------------
(***************************************************************************)
(* The properties of a fault's location, proved for any number of users,   *)
(* cables, closures and edits, and for any estimator.                      *)
(*                                                                         *)
(* None is inductive alone, since an edit writes a copy made earlier: the  *)
(* copies in flight must tell their location too (RequestTells), follow    *)
(* the evidence they were read with (RequestFollows) and leave a location  *)
(* that was confirmed when they read it confirmed or cleared               *)
(* (RequestKeeps).  A deleted record is in no stored row (Nulled).         *)
(***************************************************************************)

PageTyped == page \in [User -> {Closed} \cup Location]
RequestTyped == request \in [User -> {Idle} \cup [old : Fault, new : Fault]]

Typed ==
    /\ row \in Fault
    /\ PageTyped /\ RequestTyped
    /\ net \in Network /\ deleted \subseteq Reference /\ edits \in 0 .. MaxEdit

\* What StatusTellsLocation says of any version of the row.
Tells(f) ==
    /\ f.status = "none" <=> f.at = Nowhere
    /\ f.status = "estimated" => f.at[2] # Unset
    /\ f.note => f.status = "none"

\* What EstimateFollowsEvidence says of any version of the row: of what it was
\* estimated from it lacks deleted records only.
Follows(f) ==
    f.status = "estimated" /\ f.basis # NoBasis =>
        LET e == f.basis[1] IN
        /\ f.at[2] = EstimateOf[e][f.basis[2]][f.basis[3]]
        /\ f.evidence \subseteq e /\ e \ f.evidence \subseteq deleted

\* A confirmed location stays, unless the copy changes or clears it.
Keeps(old, new) == old.status = "confirmed" => new.status = "confirmed" \/ new.at = Nowhere

Honest(q) ==
    /\ Tells(q.new)
    /\ q.new.evidence = q.old.evidence => Follows(q.new)
    /\ Keeps(q.old, q.new)

RequestHonest == \A u \in User : request[u] # Idle => Honest(request[u])

\* The stored row refers to no deleted record.
Nulled == row.evidence \cap deleted = {}

FaultInv == Typed /\ Tells(row) /\ Follows(row) /\ Nulled /\ RequestHonest

(***************************************************************************)
(* The location rules.                                                     *)
(***************************************************************************)

\* A fault is a record of these fields.
LEMMA FaultFields ==
    ASSUME NEW f \in Fault
    PROVE  /\ f.cable \in Cable /\ f.evidence \in Evidence /\ f.at \in Location
           /\ f.status \in Status /\ f.note \in BOOLEAN /\ f.accepted \in BOOLEAN
           /\ f.basis \in {NoBasis} \cup (Evidence \X Cable \X Network)
BY DEF Fault

\* Clearing leaves no location and no status.
LEMMA ClearIs ==
    ASSUME NEW f \in Fault
    PROVE  /\ ClearLocatedAt(f) \in Fault
           /\ ClearLocatedAt(f).status = "none" /\ ClearLocatedAt(f).at = Nowhere
           /\ ClearLocatedAt(f).note = FALSE
           /\ ClearLocatedAt(f).evidence = f.evidence
BY DEF ClearLocatedAt, Fault, Location, Nowhere, Status

\* apply_estimate leaves a confirmed location, and otherwise clears it or sets
\* the distance the evidence gives now.
LEMMA EstimateIs ==
    ASSUME FaultRecordAssumption, NEW f \in Fault, net \in Network
    PROVE  /\ ApplyEstimate(f) \in Fault
           /\ ApplyEstimate(f).evidence = f.evidence
           /\ Tells(f) => Tells(ApplyEstimate(f))
           /\ Follows(ApplyEstimate(f))
           /\ f.status = "confirmed" => ApplyEstimate(f) = f
<1> DEFINE d == EstimateOf[f.evidence][f.cable][net]
           clear == ClearLocatedAt(f)
<1>1. f.cable \in Cable /\ f.evidence \in Evidence
  BY FaultFields
<1>2. d \in Distance \cup {Unset}
  BY <1>1, FaultRecordAssumption DEF FaultRecordAssumption
<1>3. clear \in Fault /\ clear.status = "none" /\ clear.at = Nowhere /\ clear.note = FALSE
      /\ clear.evidence = f.evidence
  BY ClearIs
<1>4. CASE f.status = "confirmed"
  BY <1>4 DEF ApplyEstimate, Fixed, Follows
<1>5. CASE f.status # "confirmed" /\ f.evidence \cap {"mark", "distance"} = {}
  <2>1. ApplyEstimate(f) = clear
    BY <1>5 DEF ApplyEstimate, Fixed
  <2> QED BY <1>3, <1>5, <2>1 DEF Tells, Follows
<1>6. CASE f.status # "confirmed" /\ f.evidence \cap {"mark", "distance"} # {} /\ d = Unset
  <2>1. ApplyEstimate(f) = [clear EXCEPT !.note = TRUE]
    BY <1>6 DEF ApplyEstimate, Fixed
  <2>2. [clear EXCEPT !.note = TRUE] \in Fault
    BY <1>3 DEF Fault
  <2> QED BY <1>3, <1>6, <2>1, <2>2 DEF Tells, Follows, Fault
<1>7. CASE f.status # "confirmed" /\ f.evidence \cap {"mark", "distance"} # {} /\ d # Unset
  <2> DEFINE g == [clear EXCEPT !.at = <<Unset, d>>, !.status = "estimated",
                                !.basis = <<f.evidence, f.cable, net>>]
  <2>1. ApplyEstimate(f) = g
    BY <1>7 DEF ApplyEstimate, Fixed
  <2>2. <<Unset, d>> \in Location /\ <<Unset, d>> # Nowhere
    BY <1>2, <1>7 DEF Location, Nowhere
  <2>3. g \in Fault
    BY <1>1, <1>3, <2>2 DEF Fault, Status
  <2>4. /\ g.at = <<Unset, d>> /\ g.status = "estimated" /\ g.note = FALSE
        /\ g.evidence = f.evidence /\ g.basis = <<f.evidence, f.cable, net>>
    BY <1>3 DEF Fault
  <2>5. Tells(g)
    BY <1>7, <2>2, <2>4 DEF Tells
  <2>6. Follows(g)
    BY <2>4 DEF Follows
  <2> HIDE DEF g, d, clear
  <2> QED BY <1>7, <2>1, <2>3, <2>4, <2>5, <2>6
<1> QED BY <1>4, <1>5, <1>6, <1>7

\* A submitted location is kept, cleared or confirmed.
LEMMA UserLocationIs ==
    ASSUME NEW f \in Fault, NEW at \in Location, NEW picked \in BOOLEAN
    PROVE  LET g == ApplyUserLocatedAt(f, at, picked) IN
           /\ g \in Fault
           /\ g.evidence = f.evidence
           /\ Tells(f) => Tells(g)
           /\ g = f \/ g.status = "none" \/ g.status = "confirmed"
           /\ g.status = "none" /\ g # f => g.at = Nowhere
<1> DEFINE g == ApplyUserLocatedAt(f, at, picked)
<1>1. CASE at = f.at
  BY <1>1 DEF ApplyUserLocatedAt
<1>2. CASE at # f.at /\ at = Nowhere
  <2>1. g = ClearLocatedAt(f)
    BY <1>2 DEF ApplyUserLocatedAt
  <2> QED BY <2>1, ClearIs DEF Tells
<1>3. CASE at # f.at /\ at # Nowhere
  <2>1. g = [[f EXCEPT !.at = at] EXCEPT !.status = "confirmed", !.note = FALSE, !.accepted = picked]
    BY <1>3 DEF ApplyUserLocatedAt, ConfirmLocatedAt
  <2>2. g \in Fault /\ g.evidence = f.evidence /\ g.at = at /\ g.status = "confirmed" /\ g.note = FALSE
    BY <2>1 DEF Fault, Status
  <2> QED BY <1>3, <2>2 DEF Tells
<1> QED BY <1>1, <1>2, <1>3

(***************************************************************************)
(* Steps.                                                                  *)
(***************************************************************************)

\* A copy that is submitted.
Submittable(new) ==
    /\ new \in Fault
    /\ Tells(new)
    /\ new.evidence = row.evidence => Follows(new)
    /\ Keeps(row, new)

\* Submitting such a copy keeps the invariant.
LEMMA SubmitStep ==
    ASSUME FaultRecordAssumption, FaultInv, NEW u \in User, NEW new, Submittable(new),
           Submit(u, new), PageTyped'
    PROVE  FaultInv'
<1>1. request' = [request EXCEPT ![u] = [old |-> row, new |-> new]]
      /\ row' = row /\ net' = net /\ deleted' = deleted /\ edits' = edits + 1 /\ edits < MaxEdit
  BY DEF Submit
<1>2. row \in Fault /\ new \in Fault /\ edits \in 0 .. MaxEdit /\ MaxEdit \in Nat
  BY FaultRecordAssumption DEF FaultInv, Typed, Submittable, FaultRecordAssumption
<1>3. Typed'
  <2>1. RequestTyped'
    BY <1>1, <1>2 DEF FaultInv, Typed, RequestTyped
  <2>2. edits' \in 0 .. MaxEdit
    BY <1>1, <1>2
  <2> QED BY <1>1, <2>1, <2>2 DEF FaultInv, Typed
<1>4. RequestHonest'
  <2> SUFFICES ASSUME NEW v \in User, request'[v] # Idle
               PROVE  Honest(request'[v])
    BY <1>1 DEF RequestHonest, Honest, Tells, Keeps, Follows
  <2>1. CASE v = u
    <3>1. request'[v] = [old |-> row, new |-> new]
      BY <1>1, <2>1 DEF FaultInv, Typed, RequestTyped
    <3> QED BY <3>1 DEF Honest, Submittable
  <2>2. CASE v # u
    BY <1>1, <2>2 DEF FaultInv, Typed, RequestTyped, RequestHonest
  <2> QED BY <2>1, <2>2
<1> QED BY <1>1, <1>3, <1>4 DEF FaultInv, Tells, Follows, Nulled

\* What the form submits.
LEMMA PostSubmits ==
    ASSUME FaultInv, NEW c \in Cable, NEW e \in Evidence, NEW at \in Location, NEW picked \in BOOLEAN
    PROVE  Submittable(ApplyUserLocatedAt([row EXCEPT !.cable = c, !.evidence = e], at, picked))
<1> DEFINE f == [row EXCEPT !.cable = c, !.evidence = e]
           g == ApplyUserLocatedAt(f, at, picked)
<1>1. row \in Fault /\ Tells(row) /\ Follows(row)
  BY DEF FaultInv, Typed
<1>2. /\ f \in Fault /\ f.evidence = e /\ f.status = row.status /\ f.at = row.at
      /\ f.note = row.note /\ f.basis = row.basis
  BY <1>1 DEF Fault
<1>3. Tells(f)
  BY <1>1, <1>2 DEF Tells
<1>4. e = row.evidence => Follows(f)
  BY <1>1, <1>2 DEF Follows
<1> HIDE DEF f
<1>5. /\ g \in Fault /\ g.evidence = f.evidence /\ Tells(g)
      /\ g = f \/ g.status = "none" \/ g.status = "confirmed"
      /\ g.status = "none" /\ g # f => g.at = Nowhere
  BY <1>2, <1>3, UserLocationIs
<1> HIDE DEF g
<1>6. g.evidence = row.evidence => Follows(g)
  BY <1>2, <1>4, <1>5 DEF Follows
<1>7. Keeps(row, g)
  BY <1>2, <1>5 DEF Keeps
<1>8. Submittable(g)
  BY <1>5, <1>6, <1>7 DEF Submittable
<1> QED BY <1>8 DEF g, f

\* What a PATCH of the evidence submits.
LEMMA PatchSubmits ==
    ASSUME FaultInv, NEW e \in Evidence
    PROVE  Submittable([row EXCEPT !.evidence = e])
<1> DEFINE f == [row EXCEPT !.evidence = e]
<1>1. row \in Fault /\ Tells(row) /\ Follows(row)
  BY DEF FaultInv, Typed
<1>2. /\ f \in Fault /\ f.evidence = e /\ f.status = row.status /\ f.at = row.at
      /\ f.note = row.note /\ f.basis = row.basis
  BY <1>1 DEF Fault
<1> HIDE DEF f
<1>3. Tells(f) /\ Keeps(row, f) /\ (f.evidence = row.evidence => Follows(f))
  BY <1>1, <1>2 DEF Tells, Keeps, Follows
<1>4. Submittable(f)
  BY <1>2, <1>3 DEF Submittable
<1> QED BY <1>4 DEF f

\* A PATCH of the location.
LEMMA PatchedLocation ==
    ASSUME NEW old \in Location, NEW field \in {1, 2},
           NEW value \in {Unset} \cup (IF field = 1 THEN Closure ELSE Distance),
           OneLocation([old EXCEPT ![field] = value])
    PROVE  [old EXCEPT ![field] = value] \in Location
<1>1. PICK a \in Closure \cup {Unset}, b \in Distance \cup {Unset} : old = <<a, b>>
  BY DEF Location
<1>2. CASE field = 1
  <2>1. [old EXCEPT ![field] = value] = <<value, b>>
    BY <1>1, <1>2
  <2>2. value = Unset \/ b = Unset
    BY <2>1 DEF OneLocation
  <2> QED BY <1>1, <1>2, <2>1, <2>2 DEF Location
<1>3. CASE field = 2
  <2>1. [old EXCEPT ![field] = value] = <<a, value>>
    BY <1>1, <1>3
  <2>2. a = Unset \/ value = Unset
    BY <2>1 DEF OneLocation
  <2> QED BY <1>1, <1>3, <2>1, <2>2 DEF Location
<1> QED BY <1>2, <1>3

\* A write keeps the invariant: it stores the copy it was given, or the estimate
\* of its evidence if the stored row's evidence is another.
LEMMA WriteStep ==
    ASSUME FaultRecordAssumption, FaultInv, NEW u \in User, Write(u)
    PROVE  FaultInv'
<1> DEFINE new == request[u].new
           old == request[u].old
<1>1. /\ request[u] # Idle /\ request' = [request EXCEPT ![u] = Idle]
      /\ page' = page /\ net' = net /\ deleted' = deleted /\ edits' = edits
  BY DEF Write
<1>2. new \in Fault /\ old \in Fault /\ row \in Fault /\ net \in Network
  BY <1>1 DEF FaultInv, Typed, RequestTyped
<1>3. Tells(new) /\ (new.evidence = old.evidence => Follows(new))
  BY <1>1 DEF FaultInv, RequestHonest, Honest
<1>4. row' \in Fault /\ Tells(row') /\ Follows(row')
  <2>1. CASE EvidenceKept(row, new) /\ old # row
    <3> DEFINE g == [new EXCEPT !.basis = NoBasis]
    <3>1. row' = g
      BY <2>1 DEF Write
    <3>2. /\ g \in Fault /\ g.basis = NoBasis /\ g.status = new.status /\ g.at = new.at
          /\ g.note = new.note
      BY <1>2 DEF Fault
    <3> HIDE DEF g, new, old
    <3> QED BY <1>3, <3>1, <3>2 DEF Tells, Follows
  <2>2. CASE EvidenceKept(row, new) /\ old = row
    <3>1. row' = new
      BY <2>2 DEF Write, Saved
    <3>2. new.evidence = old.evidence
      BY <2>2 DEF EvidenceKept
    <3> QED BY <1>2, <1>3, <3>1, <3>2
  <2>3. CASE ~EvidenceKept(row, new)
    <3>1. row' = ApplyEstimate(new)
      BY <2>3 DEF Write, Saved
    <3> QED BY <1>2, <1>3, <3>1, EstimateIs
  <2> QED BY <2>1, <2>2, <2>3
<1>5. Typed'
  BY <1>1, <1>4 DEF FaultInv, Typed, PageTyped, RequestTyped
<1>6. RequestHonest'
  <2> SUFFICES ASSUME NEW v \in User, request'[v] # Idle
               PROVE  Honest(request'[v])
    BY <1>1 DEF RequestHonest, Honest, Tells, Keeps, Follows
  <2>1. v # u /\ request'[v] = request[v]
    BY <1>1 DEF FaultInv, Typed, RequestTyped
  <2> QED BY <2>1 DEF FaultInv, RequestHonest
<1>7. Tells(row)' /\ Follows(row)'
  BY <1>1, <1>4 DEF Tells, Follows
<1>8. Nulled'
  <2>1. new.evidence \cap deleted = {}
    BY DEF Write
  <2>2. [new EXCEPT !.basis = NoBasis].evidence = new.evidence
    BY <1>2 DEF Fault
  <2>3. ApplyEstimate(new).evidence = new.evidence
    BY <1>2, EstimateIs
  <2>4. row' = [new EXCEPT !.basis = NoBasis] \/ row' = new \/ row' = ApplyEstimate(new)
    BY DEF Write, Saved
  <2> HIDE DEF new
  <2>5. row'.evidence = new.evidence
    BY <2>2, <2>3, <2>4
  <2> QED BY <1>1, <2>1, <2>5 DEF Nulled
<1> QED BY <1>5, <1>6, <1>7, <1>8 DEF FaultInv

\* A failed write drops the copy.
LEMMA WriteFailsStep ==
    ASSUME FaultInv, NEW u \in User, WriteFails(u)
    PROVE  FaultInv'
<1>1. /\ request' = [request EXCEPT ![u] = Idle]
      /\ row' = row /\ page' = page /\ net' = net /\ deleted' = deleted /\ edits' = edits
  BY DEF WriteFails
<1>2. Typed'
  BY <1>1 DEF FaultInv, Typed, PageTyped, RequestTyped
<1>3. RequestHonest'
  <2> SUFFICES ASSUME NEW v \in User, request'[v] # Idle
               PROVE  Honest(request'[v])
    BY <1>1 DEF RequestHonest, Honest, Tells, Keeps, Follows
  <2>1. v # u /\ request'[v] = request[v]
    BY <1>1 DEF FaultInv, Typed, RequestTyped
  <2> QED BY <2>1 DEF FaultInv, RequestHonest
<1> QED BY <1>1, <1>2, <1>3 DEF FaultInv, Tells, Follows, Nulled

\* The deletion of a record touches the evidence of the stored row only.
LEMMA DeleteReferenceStep ==
    ASSUME FaultInv, NEW field \in Reference, DeleteReference(field)
    PROVE  FaultInv'
<1> DEFINE e == row.evidence \ {field}
           f == [row EXCEPT !.evidence = e]
<1>1. /\ row' = f /\ deleted' = deleted \cup {field}
      /\ request' = request /\ page' = page /\ net' = net /\ edits' = edits
  BY DEF DeleteReference
<1>2. row \in Fault /\ Tells(row) /\ Follows(row) /\ Nulled
  BY DEF FaultInv, Typed
<1>3. e \in Evidence
  BY <1>2, FaultFields DEF Evidence
<1>4. /\ f \in Fault /\ f.evidence = e /\ f.status = row.status /\ f.at = row.at
      /\ f.note = row.note /\ f.basis = row.basis
  BY <1>2, <1>3 DEF Fault
<1> HIDE DEF f
<1>5. Tells(row)'
  BY <1>1, <1>2, <1>4 DEF Tells
<1>6. Follows(row)'
  BY <1>1, <1>2, <1>4 DEF Follows
<1>7. Nulled'
  BY <1>1, <1>2, <1>4 DEF Nulled
<1>8. Typed'
  BY <1>1, <1>4 DEF FaultInv, Typed, PageTyped, RequestTyped
<1>9. RequestHonest'
  <2> SUFFICES ASSUME NEW v \in User, request[v] # Idle
               PROVE  Honest(request[v])'
    BY <1>1 DEF RequestHonest
  <2>1. Honest(request[v])
    BY DEF FaultInv, RequestHonest
  <2> QED BY <1>1, <2>1 DEF Honest, Tells, Follows, Keeps
<1> QED BY <1>5, <1>6, <1>7, <1>8, <1>9 DEF FaultInv

\* Every step of a user keeps the invariant.
LEMMA UserStep ==
    ASSUME FaultRecordAssumption, FaultInv, NEW u \in User,
           \/ Open(u)
           \/ \E c \in Cable, e \in Entered, at \in Location : Post(u, c, e, at)
           \/ \E e \in Entered : PatchEvidence(u, e)
           \/ \E field \in {1, 2}, value \in Closure \cup Distance \cup {Unset} :
                /\ value \in {Unset} \cup (IF field = 1 THEN Closure ELSE Distance)
                /\ PatchLocation(u, field, value)
           \/ ConfirmEstimate(u) \/ Reestimate(u)
           \/ Write(u) \/ WriteFails(u)
    PROVE  FaultInv'
<1> USE DEF FaultInv
<1>a. row \in Fault /\ Tells(row) /\ Follows(row) /\ net \in Network /\ PageTyped
  BY DEF Typed
<1>b. row.at \in Location /\ row.evidence \in Evidence /\ row.cable \in Cable
  BY <1>a, FaultFields
<1>1. CASE Open(u)
  <2>1. /\ page' = [page EXCEPT ![u] = row.at]
        /\ row' = row /\ request' = request /\ net' = net /\ deleted' = deleted /\ edits' = edits
    BY <1>1 DEF Open
  <2>2. PageTyped'
    BY <1>a, <1>b, <2>1 DEF PageTyped
  <2> QED BY <2>1, <2>2 DEF Typed, RequestTyped, RequestHonest, Honest, Tells, Follows, Keeps, Nulled
<1>2. ASSUME NEW c \in Cable, NEW e \in Entered, NEW at \in Location, Post(u, c, e, at)
      PROVE  FaultInv'
  <2>0. e \in Evidence
    BY DEF FaultRecordAssumption
  <2> DEFINE picked == at # page[u]
             new == ApplyUserLocatedAt([row EXCEPT !.cable = c, !.evidence = e], at, picked)
  <2>1. Submit(u, new) /\ page' = [page EXCEPT ![u] = Closed]
    BY <1>2 DEF Post
  <2>2. Submittable(new)
    BY <2>0, PostSubmits
  <2>3. PageTyped'
    BY <1>a, <2>1 DEF PageTyped
  <2> HIDE DEF new, FaultInv
  <2> QED BY <2>1, <2>2, <2>3, SubmitStep DEF FaultInv
<1>3. ASSUME NEW e \in Entered, PatchEvidence(u, e)
      PROVE  FaultInv'
  <2>0. e \in Evidence
    BY DEF FaultRecordAssumption
  <2> DEFINE new == [row EXCEPT !.evidence = e]
  <2>1. Submit(u, new) /\ page' = page
    BY <1>3 DEF PatchEvidence
  <2>2. Submittable(new)
    BY <2>0, PatchSubmits
  <2>3. PageTyped'
    BY <1>a, <2>1 DEF PageTyped
  <2> HIDE DEF new, FaultInv
  <2> QED BY <2>1, <2>2, <2>3, SubmitStep DEF FaultInv
<1>4. ASSUME NEW field \in {1, 2}, NEW value \in {Unset} \cup (IF field = 1 THEN Closure ELSE Distance),
             PatchLocation(u, field, value)
      PROVE  FaultInv'
  <2> DEFINE at == [row.at EXCEPT ![field] = value]
             new == ApplyUserLocatedAt(row, at, TRUE)
  <2>1. Submit(u, new) /\ page' = page /\ OneLocation(at)
    BY <1>4 DEF PatchLocation
  <2>2. at \in Location
    BY <1>b, <2>1, PatchedLocation
  <2> HIDE DEF at
  <2>3. /\ new \in Fault /\ new.evidence = row.evidence /\ Tells(new)
        /\ new = row \/ new.status = "none" \/ new.status = "confirmed"
        /\ new.status = "none" /\ new # row => new.at = Nowhere
    BY <1>a, <2>2, UserLocationIs
  <2> HIDE DEF new
  <2>4. Submittable(new)
    BY <1>a, <2>3 DEF Submittable, Keeps, Follows
  <2>5. PageTyped'
    BY <1>a, <2>1 DEF PageTyped
  <2> HIDE DEF FaultInv
  <2> QED BY <2>1, <2>4, <2>5, SubmitStep DEF FaultInv
<1>5. CASE ConfirmEstimate(u)
  <2> DEFINE new == ConfirmLocatedAt(row, TRUE)
  <2>1. Submit(u, new) /\ page' = page /\ row.status = "estimated"
    BY <1>5 DEF ConfirmEstimate
  <2>2. /\ new \in Fault /\ new.status = "confirmed" /\ new.note = FALSE /\ new.at = row.at
    BY <1>a DEF ConfirmLocatedAt, Fault, Status
  <2> HIDE DEF new
  <2>3. Submittable(new)
    BY <1>a, <2>1, <2>2 DEF Submittable, Keeps, Follows, Tells
  <2>4. PageTyped'
    BY <1>a, <2>1 DEF PageTyped
  <2> HIDE DEF FaultInv
  <2> QED BY <2>1, <2>3, <2>4, SubmitStep DEF FaultInv
<1>6. CASE Reestimate(u)
  <2> DEFINE new == ApplyEstimate(row)
  <2>1. Submit(u, new) /\ page' = page /\ row.status # "confirmed"
    BY <1>6 DEF Reestimate
  <2>2. Submittable(new)
    BY <1>a, <2>1, EstimateIs DEF Submittable, Keeps
  <2>3. PageTyped'
    BY <1>a, <2>1 DEF PageTyped
  <2> HIDE DEF new, FaultInv
  <2> QED BY <2>1, <2>2, <2>3, SubmitStep DEF FaultInv
<1>7. CASE Write(u)
  BY <1>7, WriteStep
<1>8. CASE WriteFails(u)
  BY <1>8, WriteFailsStep
<1> HIDE DEF FaultInv
<1> QED BY <1>1, <1>2, <1>3, <1>4, <1>5, <1>6, <1>7, <1>8

(***************************************************************************)
(* The theorems.                                                           *)
(***************************************************************************)

\* A fault is reported without location.
LEMMA InitFaultInv == FaultRecordAssumption /\ RecordInit => FaultInv
<1> SUFFICES ASSUME FaultRecordAssumption, RecordInit
             PROVE  FaultInv
  OBVIOUS
<1>1. PICK c \in Cable :
        row = [cable |-> c, evidence |-> {}, at |-> Nowhere, status |-> "none", note |-> FALSE,
               basis |-> NoBasis, accepted |-> FALSE]
  BY DEF RecordInit
<1>2. row \in Fault
  BY <1>1 DEF Fault, Evidence, Location, Nowhere, Status
<1>3. Typed
  BY <1>2 DEF RecordInit, Typed, PageTyped, RequestTyped, FaultRecordAssumption, Reference
<1>4. Tells(row) /\ Follows(row)
  BY <1>1 DEF Tells, Follows
<1>5. RequestHonest
  BY DEF RecordInit, RequestHonest
<1>6. Nulled
  BY DEF RecordInit, Nulled
<1> QED BY <1>3, <1>4, <1>5, <1>6 DEF FaultInv

\* Every step keeps the invariant.
LEMMA StepIInv == FaultRecordAssumption /\ FaultInv /\ [RecordNext]_recordVars => FaultInv'
<1> SUFFICES ASSUME FaultRecordAssumption, FaultInv, [RecordNext]_recordVars
             PROVE  FaultInv'
  OBVIOUS
<1>1. CASE UNCHANGED recordVars
  BY <1>1 DEF recordVars, FaultInv, Typed, PageTyped, RequestTyped, RequestHonest, Honest, Tells, Follows, Keeps, Nulled
<1>2. ASSUME NEW n \in Network, Remeasure(n)
      PROVE  FaultInv'
  BY <1>2 DEF Remeasure, FaultInv, Typed, PageTyped, RequestTyped, RequestHonest, Honest, Tells, Follows, Keeps, Nulled
<1>3. ASSUME NEW field \in Reference, DeleteReference(field)
      PROVE  FaultInv'
  BY <1>3, DeleteReferenceStep
<1>4. ASSUME NEW u \in User,
             \/ Open(u)
             \/ \E c \in Cable, e \in Entered, at \in Location : Post(u, c, e, at)
             \/ \E e \in Entered : PatchEvidence(u, e)
             \/ \E field \in {1, 2}, value \in Closure \cup Distance \cup {Unset} :
                  /\ value \in {Unset} \cup (IF field = 1 THEN Closure ELSE Distance)
                  /\ PatchLocation(u, field, value)
             \/ ConfirmEstimate(u) \/ Reestimate(u)
             \/ Write(u) \/ WriteFails(u)
      PROVE  FaultInv'
  BY <1>4, UserStep
<1> HIDE DEF FaultInv
<1> QED BY <1>1, <1>2, <1>3, <1>4 DEF RecordNext

\* The invariant holds in every reachable state.
THEOREM FaultInductive == RecordSpec => []FaultInv
<1> USE FaultRecordAssumption
<1>1. RecordInit => FaultInv
  BY InitFaultInv
<1>2. FaultInv /\ [RecordNext]_recordVars => FaultInv'
  BY StepIInv
<1> QED BY <1>1, <1>2, PTL DEF RecordSpec

\* The status of a fault tells what its location holds, whatever edits overlap.
THEOREM StatusIsTrue == RecordSpec => []StatusTellsLocation
<1>1. FaultInv => StatusTellsLocation
  BY DEF FaultInv, Tells, StatusTellsLocation
<1> QED BY <1>1, FaultInductive, PTL

\* An estimate is what the estimator made of the evidence the row holds, with the
\* records deleted since and with nothing else, unless the row was saved over
\* another edit.
THEOREM EstimateIsFollowed == RecordSpec => []EstimateFollowsEvidence
<1>1. FaultInv => EstimateFollowsEvidence
  BY DEF FaultInv, Follows, Nulled, EstimateFollowsEvidence
<1> QED BY <1>1, FaultInductive, PTL

\* A confirmed location changes only by an edit that submits another, or that
\* read the row before it was confirmed.
THEOREM ConfirmedStays == RecordSpec => ConfirmedKept
<1> DEFINE Kept == row.status = "confirmed" /\ <<row'.at, row'.status>> # <<row.at, row.status>>
                     => \E u \in User :
                         /\ request[u] # Idle /\ request'[u] = Idle
                         /\ \/ request[u].new.at # row.at
                            \/ request[u].old.status # "confirmed"
<1>1. FaultInv /\ [RecordNext]_recordVars => [Kept]_recordVars
  <2> SUFFICES ASSUME FaultInv, RecordNext, row.status = "confirmed",
                      <<row'.at, row'.status>> # <<row.at, row.status>>
               PROVE  \E u \in User :
                         /\ request[u] # Idle /\ request'[u] = Idle
                         /\ \/ request[u].new.at # row.at
                            \/ request[u].old.status # "confirmed"
    OBVIOUS
  <2>1. row \in Fault /\ row.at # Nowhere
    BY DEF FaultInv, Typed, Tells
  <2>2. \A field \in Reference : ~DeleteReference(field)
    <3> SUFFICES ASSUME NEW field \in Reference, DeleteReference(field) PROVE FALSE
      OBVIOUS
    <3>1. row' = [row EXCEPT !.evidence = row.evidence \ {field}]
      BY DEF DeleteReference
    <3> QED BY <2>1, <3>1 DEF Fault
  <2>3. PICK u \in User : Write(u)
    BY <2>2 DEF RecordNext, Remeasure, Open, Post, PatchEvidence, PatchLocation, ConfirmEstimate,
                Reestimate, Submit, WriteFails
  <2> DEFINE new == request[u].new
             old == request[u].old
  <2>4. request[u] # Idle /\ request'[u] = Idle /\ new \in Fault
    BY <2>3 DEF Write, FaultInv, Typed, RequestTyped
  <2>5. Keeps(old, new)
    BY <2>4 DEF FaultInv, RequestHonest, Honest
  <2>6. SUFFICES ASSUME new.at = row.at, old.status = "confirmed"
                 PROVE  FALSE
    BY <2>4
  <2>7. new.status = "confirmed"
    BY <2>1, <2>5, <2>6 DEF Keeps
  <2>8. row'.at = new.at /\ row'.status = "confirmed"
    <3>1. ApplyEstimate(new) = new
      BY <2>7 DEF ApplyEstimate, Fixed
    <3>2. row' = new \/ row' = [new EXCEPT !.basis = NoBasis]
      BY <2>3, <3>1 DEF Write, Saved
    <3> QED BY <2>4, <2>7, <3>2 DEF Fault
  <2> QED BY <2>6, <2>8
<1> QED BY <1>1, FaultInductive, PTL DEF RecordSpec, ConfirmedKept
===============================================================================
