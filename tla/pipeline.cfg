\* Two devices, two connections, two job rows and the reconcile; two changes, one failure.
SPECIFICATION FairSpec
CONSTANTS
    Device = {d1, d2}
    Config = {NoFiber, c1}
    NoFiber = NoFiber
    Txn = {t1, t2}
    Job = {j1, j2}
    Reconciler = rec
    MaxChanges = 2
    MaxFailures = 1
INVARIANTS TypeOK ChangeTracked QueueServed
PROPERTY EventuallyCurrent
