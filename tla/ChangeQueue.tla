----------------------------- MODULE ChangeQueue -----------------------------
(***************************************************************************)
(* What path_queue.py promises of enqueue_devices: a device named in a     *)
(* transaction is queued once for each call that survives to the commit,   *)
(* no matter which savepoints were rolled back around it, and not before.  *)
(* ChangeBatch implements it with commit callbacks.                        *)
(***************************************************************************)
EXTENDS DeviceTally, Sequences, SequencesExt

VARIABLES
    levels,   \* the transaction in progress: what each savepoint level has named
    owed,     \* committed and not written yet; a hook's own transaction stacks up
    queue,    \* queue[d]: rows written for device d
    relevant  \* the devices relevant_device_ids keeps, as the tables are now

vars == <<levels, owed, queue, relevant>>

Init ==
    /\ levels = <<>>
    /\ owed = <<>>
    /\ queue = None
    /\ relevant \in SUBSET Device

Begin ==
    /\ levels = <<>>
    /\ levels' = <<None>>
    /\ UNCHANGED <<owed, queue, relevant>>

Savepoint ==
    /\ levels # <<>>
    /\ levels' = Append(levels, None)
    /\ UNCHANGED <<owed, queue, relevant>>

Release ==
    /\ Len(levels) > 1
    /\ levels' = Append(Front(Front(levels)), Last(Front(levels)) ++ Last(levels))
    /\ UNCHANGED <<owed, queue, relevant>>

\* A savepoint, or the whole transaction at its outermost level.
RollBack ==
    /\ levels # <<>>
    /\ levels' = Front(levels)
    /\ UNCHANGED <<owed, queue, relevant>>

Name(devs) ==
    /\ levels # <<>>
    /\ levels' = Append(Front(levels), Last(levels) ++ Once(devs))
    /\ UNCHANGED <<owed, queue, relevant>>

\* Outside a transaction the rows are written at once, the relevant ones.
NameNow(devs) ==
    /\ levels = <<>>
    /\ queue' = queue ++ Only(relevant, Once(devs))
    /\ UNCHANGED <<levels, owed, relevant>>

Commit ==
    /\ Len(levels) = 1
    /\ levels' = <<>>
    /\ owed' = Append(owed, levels[1])
    /\ UNCHANGED <<queue, relevant>>

\* All that a commit owes is written together.
Deliver ==
    /\ owed # <<>>
    /\ levels = <<>>
    /\ queue' = queue ++ Only(relevant, Last(owed))
    /\ owed' = Append(Front(owed), None)
    /\ UNCHANGED <<levels, relevant>>

\* The hooks of a commit end only when nothing is owed any more...
Settle ==
    /\ owed # <<>>
    /\ levels = <<>>
    /\ Last(owed) = None
    /\ owed' = Front(owed)
    /\ UNCHANGED <<levels, queue, relevant>>

\* ...or when one of them raises, which skips the rest of every chain.
Lose ==
    /\ owed # <<>>
    /\ levels = <<>>
    /\ owed' = <<>>
    /\ UNCHANGED <<levels, queue, relevant>>

\* Devices gain or lose the plant that makes them relevant.
Rewire ==
    /\ relevant' \in SUBSET Device
    /\ UNCHANGED <<levels, owed, queue>>

Next ==
    \/ Begin \/ Savepoint \/ Release \/ RollBack \/ Commit \/ Settle \/ Lose
    \/ Deliver \/ Rewire
    \/ \E devs \in SUBSET Device : Name(devs) \/ NameNow(devs)

Spec == Init /\ [][Next]_vars
=============================================================================
