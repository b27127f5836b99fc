------------------------------ MODULE DiffCache ------------------------------
(***************************************************************************)
(* The diff stored with each splice plan (SplicePlan.cached_diff and       *)
(* diff_stale): the pages that show it recompute it when it is stale       *)
(* (services.py get_or_recompute_diff), and what changes a plan or the     *)
(* splices of its closure marks it stale, or does not (signals.py).        *)
(*                                                                         *)
(* Every step of SplicePlan is kept, with what it does to the stored       *)
(* diffs.  A page reads plan rows, computes from the database and saves in *)
(* queries of their own.  A REST client may write both fields itself.      *)
(***************************************************************************)
EXTENDS SplicePlan

NoDiff == [add |-> {}, remove |-> {}, none |-> TRUE]

CONSTANT Sent   \* bound: the diffs a REST client may send

ASSUME SentAssumption == Sent \subseteq Diff \cup {NoDiff}

VARIABLES
    cache,    \* cache[p]: the stored diff of plan p and its stale flag
    kept,     \* kept[r]: both as handler r loaded them with the plan's row
    page,     \* the page or endpoint that is showing diffs
    drifted   \* history: plans whose diff a write changed and left unmarked, or whose
              \* stored diff a client wrote

cacheVars == <<cache, kept, page, drifted>>
cachedVars == <<vars, cacheVars>>

NewRow == [diff |-> NoDiff, stale |-> TRUE]
Cached == [diff : Diff \cup {NoDiff}, stale : BOOLEAN]

\* loaded: the plan rows it read; todo: those it has yet to show; at: the plan
\* it has computed a diff of and not saved.
Page == [todo : SUBSET Plan, loaded : [Plan -> Cached], at : SUBSET Plan, diff : Diff \cup {NoDiff}]
NoPage == [todo |-> {}, loaded |-> [p \in Plan |-> NewRow], at |-> {}, diff |-> NoDiff]

CachedTypeOK ==
    /\ TypeOK
    /\ cache \in [Plan -> Cached]
    /\ kept \in [Request -> Cached]
    /\ page \in Page
    /\ drifted \subseteq Plan

CachedInit ==
    /\ Init
    /\ cache = [p \in Plan |-> NewRow]
    /\ kept = [r \in Request |-> NewRow]
    /\ page = NoPage
    /\ drifted = {}

(***************************************************************************)
(* Marking.                                                                *)
(***************************************************************************)

\* Mutant: both ports must sit on trays.
AnnouncedOnTrays(touched) == \E s \in touched : s \subseteq TrayPort

\* _invalidate_plans_for_cable: a splice cable that is saved or deleted marks the
\* plans of the closure, if one of its ports sits in a module.
Announced(touched) == \E s \in touched : s \cap TrayPort # {}

\* mark_plans_stale
Stale(all) == [p \in Plan |-> [all[p] EXCEPT !.stale = TRUE]]

\* A page shows such a diff without a look at the database.
Usable(row) == ~row.stale /\ row.diff # NoDiff

\* The plans a change of their diff concerns.
Unmarked == {p \in Plan : Usable(cache[p])}

\* The splices `touched` were saved or deleted.
AfterCables(touched) == IF Announced(touched) THEN Stale(cache) ELSE cache

\* History: cables between ports that are all on no tray leave every diff unmarked.
Unannounced(touched) ==
    IF touched = {} THEN drifted
    ELSE IF (UNION touched) \cap TrayPort = {} THEN drifted \cup Unmarked
    ELSE {}

\* The row of plan p is written with this diff and flag.
Row(p, row) == cache' = [cache EXCEPT ![p] = row] /\ drifted' = drifted \ {p}

\* The entries of p are written and its row is not.
Silently(p) == drifted' = drifted \cup ({p} \cap Unmarked) /\ UNCHANGED cache

(***************************************************************************)
(* The steps of SplicePlan.                                                *)
(***************************************************************************)

CachedArrive(r, p) ==
    /\ Arrive(r, p)
    /\ kept' = [kept EXCEPT ![r] = cache[p]]
    /\ UNCHANGED <<cache, page, drifted>>

CachedCheck(r) ==
    /\ Check(r)
    /\ kept' = [kept EXCEPT ![r] = IF req'[r] = Idle THEN NewRow ELSE @]
    /\ UNCHANGED <<cache, page, drifted>>

\* The diffs and flags SplicePlanSerializer accepts; a field it is not sent keeps
\* its loaded value.
SentRows(r) == [diff : {kept[r].diff} \cup Sent, stale : BOOLEAN]

\* plan.save() writes the diff and the flag back with the status, as they were
\* loaded or as the PATCH has them.
CachedTransition(r) ==
    LET p == req[r].plan IN
    /\ SaveTransition(r)
    /\ \E row \in SentRows(r) :
         /\ cache' = [cache EXCEPT ![p] = row]
         /\ drifted' = IF row = kept[r] THEN drifted
                       ELSE (drifted \ {p}) \cup {o \in {p} : Usable(row)}

\* The row a POST creates, once the import has marked it.
CreatedRows == [diff : {NoDiff} \cup Sent, stale : {TRUE}]

\* Mutant: the bulk update saves the plan as it was loaded.
SavedAsLoaded(r) == kept[r]

\* The flag is set on the loaded row, and all of it is saved.
SavedByBulk(r) == [kept[r] EXCEPT !.stale = TRUE]

\* What a write of request r does to the stored diffs.
CachedWrite(r) ==
    LET p == req[r].plan
        touched == Deleted(req[r].diff, live) \cup req[r].diff.add IN
    /\ \/ CachedTransition(r)
       \/ BulkWithoutTray(r) /\ Silently(p)
       \/ BulkUpdate(r) /\ Row(p, SavedByBulk(r))
       \/ ImportLiveState(r) /\ Row(p, [cache[p] EXCEPT !.stale = TRUE])
       \/ CreatePlan(r) /\ \E row \in CreatedRows : Row(p, row)
       \/ AddEntry(r) /\ Silently(p)
       \/ /\ ApplyPlan(r)
          /\ cache' = [AfterCables(touched) EXCEPT ![p] = NewRow]
          /\ drifted' = Unannounced(touched) \ {p}
       \/ WriteFails(r) /\ UNCHANGED <<cache, drifted>>
    /\ kept' = [kept EXCEPT ![r] = NewRow]
    /\ UNCHANGED page

\* The plans of Apply All are archived without a diff.
CachedCommit ==
    LET touched == batch.removed \cup batch.added IN
    /\ CommitBatch
    /\ cache' = [p \in Plan |-> IF p \in batch.locked THEN NewRow ELSE AfterCables(touched)[p]]
    /\ drifted' = Unannounced(touched) \ batch.locked

CachedOther ==
    /\ \/ \E p \in Plan, e \in Pair : DeleteEntry(p, e) /\ Silently(p)
       \/ \E p \in Plan : DeletePlan(p) /\ Row(p, NewRow)
       \/ OpenBatch /\ UNCHANGED <<cache, drifted>>
       \/ \E p \in Plan : BatchRound(p) /\ UNCHANGED <<cache, drifted>>
       \/ CachedCommit
       \/ RollBackBatch /\ UNCHANGED <<cache, drifted>>
       \/ \E p \in Plan, e \in Pair : InsertSlackLoop(p, {e}) /\ Silently(p)
       \/ \E s \in Splice : /\ Connect(s) \/ Disconnect(s)
                            /\ cache' = AfterCables({s})
                            /\ drifted' = Unannounced({s})
    /\ UNCHANGED <<kept, page>>

(***************************************************************************)
(* Showing diffs.                                                          *)
(***************************************************************************)

\* A page loads the rows of the plans it shows.
OpenPage(plans) ==
    /\ MayArrive
    /\ page = NoPage
    /\ plans # {}
    /\ page' = [NoPage EXCEPT !.todo = plans, !.loaded = [p \in Plan |->
                                 IF p \in plans THEN cache[p] ELSE NewRow]]
    /\ UNCHANGED <<vars, cache, kept, drifted>>

\* The Pending Changes tab of a plan, and the diff endpoint.
ShowPlan(p) == Exists(p) /\ OpenPage({p})

\* The Pending Work tab of the closure.
ShowPendingWork == OpenPage({p \in Plan : status[p] = Approved})

\* The page is done with plan p.
Shown(p) ==
    page' = IF page.todo = {p} THEN NoPage
            ELSE [page EXCEPT !.todo = @ \ {p}, !.at = {}, !.diff = NoDiff]

\* The diff that was loaded with the row is shown.
ShowCached(p) ==
    /\ page.at = {} /\ p \in page.todo
    /\ Usable(page.loaded[p])
    /\ Shown(p)
    /\ UNCHANGED <<vars, cache, kept, drifted>>

Recompute(p) ==
    /\ page.at = {} /\ p \in page.todo
    /\ ~Usable(page.loaded[p])
    /\ page' = [page EXCEPT !.at = {p}, !.diff = DiffOf(entries[p], live)]
    /\ UNCHANGED <<vars, cache, kept, drifted>>

\* It is saved with the flag cleared. A plan that was deleted meanwhile fails the
\* save, and the page.
SaveDiff(p) ==
    /\ page.at = {p}
    /\ Unlocked(p)
    /\ IF Exists(p)
       THEN Row(p, [diff |-> page.diff, stale |-> FALSE]) /\ Shown(p)
       ELSE page' = NoPage /\ UNCHANGED <<cache, drifted>>
    /\ UNCHANGED <<vars, kept>>

(***************************************************************************)
(* The specification.                                                      *)
(***************************************************************************)

\* A page is a request like any other.
PlanStep ==
    /\ Serial => page = NoPage
    /\ \/ \E r \in Request, p \in Plan : CachedArrive(r, p)
       \/ \E r \in Request : CachedCheck(r)
       \/ \E r \in Request : CachedWrite(r)
       \/ CachedOther

PageStep ==
    \/ \E p \in Plan : ShowPlan(p) \/ ShowCached(p) \/ Recompute(p) \/ SaveDiff(p)
    \/ ShowPendingWork

CachedNext == PlanStep \/ PageStep

CachedSpec == CachedInit /\ [][CachedNext]_cachedVars

(***************************************************************************)
(* What must hold while requests are serial.                               *)
(***************************************************************************)

\* A diff that is not marked stale is the diff an apply would compute now
\* (get_or_recompute_diff shows it without a look at the database), unless it
\* drifted: entries written one by one, by a slack loop or by the half of a bulk
\* update that met a port without a tray, and splices of ports that are on no
\* tray, mark nothing; and a PATCH may store any diff, or call a stale one fresh,
\* for which nothing vouches until it is recomputed or marked stale again.
FreshIsCurrent ==
    \A p \in Plan \ drifted :
        Usable(cache[p]) => cache[p].diff = DiffOf(entries[p], live)

(***************************************************************************)
(* What the documentation says of the stored diffs.                        *)
(***************************************************************************)

\* docs/developer/architecture.md: saving or deleting a cable that terminates on
\* front ports of a closure with a splice plan marks the plan's diff stale.
CablesMarkPlans ==
    [][live' # live => \A p \in Plan : cache'[p].stale]_cachedVars
=============================================================================
