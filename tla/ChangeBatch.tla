----------------------------- MODULE ChangeBatch -----------------------------
(***************************************************************************)
(* path_queue.py inside one database connection: enqueue_devices, _Batch,  *)
(* _Flush and _live_batch, over Django's list of commit callbacks.         *)
(*                                                                         *)
(* Every call registers two callbacks: one that hands its rows to the      *)
(* batch, dropped with the savepoint it was made in, and a flush, never    *)
(* dropped, which acts only when it is the newest of its batch.            *)
(***************************************************************************)
EXTENDS DeviceTally, Sequences, FiniteSets, SequencesExt

CONSTANTS
    MaxSavepoint,   \* bound: savepoints per transaction
    MaxCall         \* bound: calls of enqueue_devices, and other callbacks

ASSUME ChangeBatchAssumption ==
    /\ MaxSavepoint \in Nat
    /\ MaxCall \in Nat

VARIABLES
    atomic,   \* connection.in_atomic_block
    open,     \* connection.savepoint_ids
    used,     \* savepoint ids handed out in this transaction
    hooks,    \* connection.run_on_commit
    chains,   \* callbacks still to run: those of a commit, and of a commit made by one of them
    batches,  \* batches[b]: the _Batch objects some callback refers to
    calls,    \* callbacks registered so far, for the bound
    queue,    \* queue[d]: PathAnalysisQueue rows of device d
    relevant  \* relevant_device_ids: devices with fiber plant or paths, as the tables are now

vars == <<atomic, open, used, hooks, chains, batches, calls, queue, relevant>>

\* A callback: the savepoints it was registered in, and what it does.
Hook == [kind : {"rows", "flush", "other"}, sids : SUBSET (1 .. MaxSavepoint),
         devs : SUBSET Device, batch : Nat, token : Nat]

TypeOK ==
    /\ atomic \in BOOLEAN
    /\ open \in Seq(1 .. MaxSavepoint)
    /\ used \in 0 .. MaxSavepoint
    /\ hooks \in Seq(Hook)
    /\ chains \in Seq(Seq(Hook))
    /\ batches \in Seq([token : Nat, committed : Tally])
    /\ calls \in 0 .. MaxCall
    /\ queue \in Tally
    /\ relevant \subseteq Device

Init ==
    /\ atomic = FALSE
    /\ open = <<>>
    /\ used = 0
    /\ hooks = <<>>
    /\ chains = <<>>
    /\ batches = <<>>
    /\ calls = 0
    /\ queue = None
    /\ relevant \in SUBSET Device

(***************************************************************************)
(* Django: transactions, savepoints and the callback list.                 *)
(***************************************************************************)

\* The callback whose turn it is, outside any transaction.
Running(kind) ==
    /\ ~atomic
    /\ chains # <<>>
    /\ Last(chains) # <<>>
    /\ Head(Last(chains)).kind = kind

\* Code runs between transactions, or in somebody's callback.
Outside == ~atomic /\ (chains = <<>> \/ Running("other"))

Begin ==
    /\ Outside
    /\ atomic' = TRUE
    /\ UNCHANGED <<open, used, hooks, chains, batches, calls, queue, relevant>>

\* Mutant: ids are counted from zero, that of the transaction itself.
SavepointZero ==
    /\ atomic
    /\ used < MaxSavepoint
    /\ used' = used + 1
    /\ open' = Append(open, used)
    /\ UNCHANGED <<atomic, hooks, chains, batches, calls, queue, relevant>>

Savepoint ==
    /\ atomic
    /\ used < MaxSavepoint
    /\ used' = used + 1
    /\ open' = Append(open, used + 1)
    /\ UNCHANGED <<atomic, hooks, chains, batches, calls, queue, relevant>>

\* Somebody changes the plant.
Rewire ==
    /\ relevant' \in SUBSET Device
    /\ UNCHANGED <<atomic, open, used, hooks, chains, batches, calls, queue>>

\* The callbacks keep the id of a released savepoint.
Release ==
    /\ open # <<>>
    /\ open' = Front(open)
    /\ UNCHANGED <<atomic, used, hooks, chains, batches, calls, queue, relevant>>

\* The callbacks registered in the savepoint go with it.
Kept(list, sid) ==
    LET kept == {i \in DOMAIN list : sid \notin list[i].sids}
    IN  [k \in 1 .. Cardinality(kept) |->
           list[CHOOSE i \in kept : Cardinality({j \in kept : j <= i}) = k]]

RollBackTo ==
    /\ open # <<>>
    /\ hooks' = Kept(hooks, Last(open))
    /\ open' = Front(open)
    /\ UNCHANGED <<atomic, used, chains, batches, calls, queue, relevant>>

\* Nothing is kept between transactions but what a running chain refers to.
Idle(running) == IF running = <<>> THEN <<>> ELSE batches

RollBack ==
    /\ atomic /\ open = <<>>
    /\ atomic' = FALSE
    /\ used' = 0
    /\ hooks' = <<>>
    /\ batches' = Idle(chains)
    /\ UNCHANGED <<open, chains, calls, queue, relevant>>

\* The list is emptied before its callbacks run.
Commit ==
    /\ atomic /\ open = <<>>
    /\ atomic' = FALSE
    /\ used' = 0
    /\ hooks' = <<>>
    /\ chains' = Append(chains, hooks)
    /\ UNCHANGED <<open, batches, calls, queue, relevant>>

Turn == Head(Last(chains))
Rest == Append(Front(chains), Tail(Last(chains)))

EndChain ==
    /\ ~atomic
    /\ chains # <<>>
    /\ Last(chains) = <<>>
    /\ chains' = Front(chains)
    /\ batches' = Idle(Front(chains))
    /\ UNCHANGED <<atomic, open, used, hooks, calls, queue, relevant>>

\* Somebody else's callback, registered in the current savepoints.
OnCommit ==
    /\ atomic
    /\ calls < MaxCall
    /\ calls' = calls + 1
    /\ hooks' = Append(hooks, [kind |-> "other", sids |-> Range(open), devs |-> {},
                               batch |-> 0, token |-> 0])
    /\ UNCHANGED <<atomic, open, used, chains, batches, queue, relevant>>

\* It may have run a transaction of its own before it returns.
OtherReturns ==
    /\ Running("other")
    /\ chains' = Rest
    /\ UNCHANGED <<atomic, open, used, hooks, batches, calls, queue, relevant>>

\* It raises: the rest of the chain is skipped, and so is that of the commit it
\* was made from.
OtherRaises ==
    /\ Running("other")
    /\ chains' = <<>>
    /\ batches' = <<>>
    /\ UNCHANGED <<atomic, open, used, hooks, calls, queue, relevant>>

(***************************************************************************)
(* path_queue.py.                                                          *)
(***************************************************************************)

\* The batch of the first flush in a callback list, none when there is none.
BatchIn(list) ==
    LET flushes == {i \in DOMAIN list : list[i].kind = "flush"}
    IN  IF flushes = {} THEN 0 ELSE list[CHOOSE i \in flushes : \A j \in flushes : i <= j].batch

\* _live_batch
LiveBatch == BatchIn(hooks)

\* Mutant: the flush is an ordinary callback of the savepoint.
SavepointFlush(b, token) ==
    [kind |-> "flush", sids |-> Range(open), devs |-> {}, batch |-> b, token |-> token]

FlushHook(b, token) ==
    [kind |-> "flush", sids |-> {}, devs |-> {}, batch |-> b, token |-> token]

RowsHook(b, devs) ==
    [kind |-> "rows", sids |-> Range(open), devs |-> devs, batch |-> b, token |-> 0]

\* enqueue_devices in a transaction.
Enqueue(devs) ==
    LET b    == IF LiveBatch = 0 THEN Len(batches) + 1 ELSE LiveBatch
        made == IF LiveBatch = 0 THEN Append(batches, [token |-> 0, committed |-> None])
                ELSE batches
        next == made[b].token + 1 IN
    /\ atomic
    /\ devs # {}
    /\ calls < MaxCall
    /\ calls' = calls + 1
    /\ batches' = [made EXCEPT ![b].token = next]
    /\ hooks' = hooks \o <<RowsHook(b, devs), FlushHook(b, next)>>
    /\ UNCHANGED <<atomic, open, used, chains, queue, relevant>>

\* Outside a transaction on_commit calls back at once, and so does the flush.
EnqueueNow(devs) ==
    /\ Outside
    /\ devs # {}
    /\ calls < MaxCall
    /\ calls' = calls + 1
    /\ queue' = queue ++ Only(relevant, Once(devs))
    /\ UNCHANGED <<atomic, open, used, hooks, chains, batches, relevant>>

\* _Batch.commit
HandOver ==
    /\ Running("rows")
    /\ batches' = [batches EXCEPT ![Turn.batch].committed = @ ++ Once(Turn.devs)]
    /\ chains' = Rest
    /\ UNCHANGED <<atomic, open, used, hooks, calls, queue, relevant>>

Newest(hook) == hook.token = batches[hook.batch].token

\* _Flush.__call__ and _Batch.flush: one insert.
Flush ==
    /\ Running("flush")
    /\ Newest(Turn)
    /\ queue' = queue ++ Only(relevant, batches[Turn.batch].committed)
    /\ batches' = [batches EXCEPT ![Turn.batch].committed = None]
    /\ chains' = Rest
    /\ UNCHANGED <<atomic, open, used, hooks, calls, relevant>>

Superseded ==
    /\ Running("flush")
    /\ ~Newest(Turn)
    /\ chains' = Rest
    /\ UNCHANGED <<atomic, open, used, hooks, batches, calls, queue, relevant>>

(***************************************************************************)
(* The specification.                                                      *)
(***************************************************************************)

Next ==
    \/ Begin \/ Savepoint \/ Release \/ RollBackTo \/ RollBack \/ Commit
    \/ EndChain \/ OnCommit \/ OtherReturns \/ OtherRaises
    \/ \E devs \in SUBSET Device : Enqueue(devs) \/ EnqueueNow(devs)
    \/ HandOver \/ Flush \/ Superseded \/ Rewire

Spec == Init /\ [][Next]_vars

(***************************************************************************)
(* What it implements.                                                     *)
(***************************************************************************)

\* How often a callback list names each device, counting the hooks in the set.
Named(list, hookset) ==
    [d \in Device |-> Cardinality({i \in DOMAIN list : /\ list[i].kind = "rows"
                                                       /\ list[i] \in hookset
                                                       /\ d \in list[i].devs})]

\* The innermost savepoint still open that a callback was registered in.
LevelOf(hook) == Cardinality(hook.sids \cap Range(open))

LevelTallies ==
    [n \in 1 .. Len(open) + 1 |-> Named(hooks, {h \in Range(hooks) : LevelOf(h) = n - 1})]

\* The rows of a chain that are not written: to be handed over, or handed over.
OwedBy(chain) ==
    Named(chain, Range(chain)) ++
        (IF BatchIn(chain) = 0 THEN None ELSE batches[BatchIn(chain)].committed)

Levels == IF atomic THEN LevelTallies ELSE <<>>
Owed == [c \in DOMAIN chains |-> OwedBy(chains[c])]

Promise == INSTANCE ChangeQueue WITH levels <- Levels, owed <- Owed

\* Every device of an enqueue_devices call that survives its savepoints is
\* queued exactly once by the commit, one of a rolled-back savepoint never, and
\* no chain of callbacks ends normally with rows unwritten; callbacks that run
\* transactions of their own do not disturb that (_Batch, _Flush, _live_batch).
QueuedOnceIfCommitted == Promise!Spec
=============================================================================
