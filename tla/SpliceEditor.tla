----------------------------- MODULE SpliceEditor -----------------------------
(***************************************************************************)
(* The visual splice editor: the pending changes of a browser page         *)
(* (state.ts, interactions.ts), its asynchronous save, submit and load     *)
(* (splice-editor.ts, api.ts), and the handlers that answer them           *)
(* (api/views.py bulk_update_entries and ClosureStrandsAPIView).           *)
(*                                                                         *)
(* A page awaits its calls and stays usable meanwhile, so commands, calls  *)
(* and answers of several pages interleave.  Strands are those with a port *)
(* on the closure, in order of position; drawing is left out.              *)
(***************************************************************************)
EXTENDS Integers, Sequences, FiniteSets, SequencesExt

CONSTANTS
    Page,        \* browser pages with an editor
    Strand,      \* strands: integers in order of position
    TubeOf,      \* TubeOf[s]: buffer tube of strand s
    LeftTube,    \* the tubes drawn on the left
    TrayOf,      \* TrayOf[t]: tray tube t is assigned to, or NoTray
    NoTray,
    Live,        \* the closure's splices, as pairs of strands
    Protected,   \* strands an active circuit runs over
    Claimed,     \* strands another active plan claims
    Count,       \* sequentialCount
    MaxEdit,     \* bound: commands that work on a page alone
    MaxWrite,    \* bound: commands that call the server
    MaxCall      \* bound: calls a page has under way

Tube == Range(TubeOf)
Tray == Range(TrayOf) \ {NoTray}
Pair == {pair \in SUBSET Strand : Cardinality(pair) = 2}

ASSUME SpliceEditorAssumption ==
    /\ Strand \subseteq Nat /\ DOMAIN TubeOf = Strand
    /\ DOMAIN TrayOf = Tube /\ LeftTube \subseteq Tube
    /\ Live \subseteq Pair
    /\ Protected \subseteq Strand /\ Claimed \subseteq Strand
    /\ {Count, MaxEdit, MaxWrite, MaxCall} \subseteq Nat

VARIABLES
    plan,      \* the SplicePlan row and its entries
    page,      \* page[p]: the EditorState of page p and what interactions.ts selected
    calls,     \* calls[p]: the saves and loads of page p under way
    edits,     \* commands given so far, for the bounds
    writes,
    quiet      \* history: entries were written since the plan's version last moved

vars == <<plan, page, calls, edits, writes, quiet>>

Draft == "draft"
Pending == "pending_approval"

Entry == [pair : Pair, express : BOOLEAN]
Change == {c \in [action : {"add", "remove"}, a : Strand, b : Strand, express : BOOLEAN] :
              c.a # c.b}
Payload == [add : Seq(Change), remove : SUBSET Pair]

NoStrand == -1
NoPlan == 0
AllTrays == "all"

PlanRow == [status : {"none", Draft, Pending}, version : Nat, entries : SUBSET Entry]

\* version: planVersion.  shown: the plan's entries as last loaded.  visible: the
\* strands of the last layout.  selected: the first strand of a pair (single mode).
\* History: base, the entries the page last loaded or was answered with; torn,
\* that load met a write between its two queries.
PageState == [known : BOOLEAN, readOnly : BOOLEAN, version : Nat, shown : SUBSET Entry,
              filter : Tray \cup {AllTrays}, visible : SUBSET Strand,
              selected : Strand \cup {NoStrand}, expressMode : BOOLEAN,
              pending : Seq(Change),
              undo : Seq(Seq(Change)), redo : Seq(Seq(Change)),
              base : SUBSET Entry, torn : BOOLEAN]

Call == [stage : {"sent", "checked", "saved", "refused", "submit", "load", "read", "loaded"},
         known : BOOLEAN, payload : Payload, version : Nat, submit : BOOLEAN, entries : SUBSET Entry,
         torn : BOOLEAN, base : SUBSET Entry, drawn : SUBSET Entry]

TypeOK ==
    /\ plan \in PlanRow
    /\ page \in [Page -> PageState]
    /\ calls \in [Page -> Seq(Call)]
    /\ edits \in 0 .. MaxEdit /\ writes \in 0 .. MaxWrite
    /\ quiet \in BOOLEAN

(***************************************************************************)
(* The list of pending changes (state.ts).                                 *)
(***************************************************************************)

PairOf(change) == {change.a, change.b}
Pairs(entries) == {e.pair : e \in entries}
Of(pending, action) == {pending[i] : i \in {j \in DOMAIN pending : pending[j].action = action}}
PairsOf(pending, action) == {PairOf(c) : c \in Of(pending, action)}

\* isStrandPendingAdd
PendingAdd(pending, s) == \E pair \in PairsOf(pending, "add") : s \in pair

\* snapshotForUndo, then the new list.
Edited(ed, pending) ==
    [ed EXCEPT !.undo = Append(@, ed.pending), !.redo = <<>>, !.pending = pending]

AddPendingSplice(ed, a, b, express) ==
    IF {a, b} \in PairsOf(ed.pending, "add") THEN ed
    ELSE Edited(ed, Append(ed.pending, [action |-> "add", a |-> a, b |-> b,
                                        express |-> express]))

RemovePendingSplice(ed, a, b) ==
    Edited(ed,
        IF {a, b} \in PairsOf(ed.pending, "add")
        THEN SelectSeq(ed.pending, LAMBDA c : c.action # "add" \/ PairOf(c) # {a, b})
        ELSE IF {a, b} \in PairsOf(ed.pending, "remove") THEN ed.pending
        ELSE Append(ed.pending, [action |-> "remove", a |-> a, b |-> b, express |-> FALSE]))

UndoPendingAddForStrand(ed, s) ==
    Edited(ed, SelectSeq(ed.pending, LAMBDA c : c.action # "add" \/ s \notin PairOf(c)))

\* A pending add is flipped, and goes away when it is back to the persisted flag;
\* a plan splice gets a pending re-add; a splice that is only live cannot carry it.
ToggleExpress(ed, pair) ==
    LET persisted == {e.express : e \in {f \in ed.shown : f.pair = pair}}
        IsIt(c)   == c.action = "add" /\ PairOf(c) = pair
        flipped   == [i \in DOMAIN ed.pending |->
                          IF IsIt(ed.pending[i]) THEN [ed.pending[i] EXCEPT !.express = ~@]
                          ELSE ed.pending[i]]
    IN  IF pair \in PairsOf(ed.pending, "add")
        THEN Edited(ed, SelectSeq(flipped, LAMBDA c : ~IsIt(c) \/ c.express \notin persisted))
        ELSE IF persisted = {} THEN ed
        ELSE AddPendingSplice(ed, Min(pair), Max(pair), TRUE \notin persisted)

\* computeVisibleIds: the tubes of the tray, and those spliced to them.
VisibleOn(filter, shown, pending) ==
    LET own     == {s \in Strand : TrayOf[TubeOf[s]] = filter}
        partner == UNION {pair \in Live \cup Pairs(shown) \cup PairsOf(pending, "add") :
                              pair \cap own # {}}
    IN  IF filter = AllTrays THEN Strand
        ELSE {s \in Strand : \E t \in own \cup partner : TubeOf[s] = TubeOf[t]}

\* rebuildLayout
Rebuilt(ed) == [ed EXCEPT !.visible = VisibleOn(ed.filter, ed.shown, ed.pending)]

\* The existing splices a pending add supersedes, when both ends are drawn.
Superseded(ed) ==
    {pair \in Live \cup Pairs(ed.shown) :
        /\ \E s \in pair : PendingAdd(ed.pending, s)
        /\ pair \subseteq ed.visible}

\* getPendingPayload
PendingPayload(ed) ==
    [add    |-> SelectSeq(ed.pending, LAMBDA c : c.action = "add"),
     remove |-> PairsOf(ed.pending, "remove") \cup Superseded(ed)]

\* What the page draws over the entries it stands on: every pending add, and the
\* entries none of them takes a strand of.
Drawn(ed) ==
    {e \in ed.base : /\ e.pair \notin PairsOf(ed.pending, "remove")
                     /\ \A s \in e.pair : ~PendingAdd(ed.pending, s)}
    \cup
    {[pair |-> PairOf(c), express |-> c.express] : c \in Of(ed.pending, "add")}

(***************************************************************************)
(* Commands of the user (interactions.ts).                                 *)
(***************************************************************************)

\* A command that calls the server.
Command == writes < MaxWrite /\ writes' = writes + 1 /\ UNCHANGED edits

\* A command that only works on the page: its pending changes, its selection and
\* its layout become those of ed.
Local(p, ed) ==
    /\ edits < MaxEdit /\ edits' = edits + 1
    /\ page' = [page EXCEPT ![p] =
                   [@ EXCEPT !.pending = ed.pending, !.undo = ed.undo, !.redo = ed.redo,
                             !.selected = ed.selected, !.expressMode = ed.expressMode,
                             !.filter = ed.filter, !.visible = ed.visible]]
    /\ UNCHANGED <<plan, calls, writes, quiet>>

\* New connections are marked express while the mode is on.
ToggleExpressMode(p) ==
    /\ ~page[p].readOnly
    /\ Local(p, [page[p] EXCEPT !.expressMode = ~@])

\* handleStrandClick lets the click through.
Clickable(p, s) == ~page[p].readOnly /\ s \in page[p].visible \ Protected

\* handleSingleClick on the first strand: its pending add is taken back.
FirstClick(p, s) ==
    LET ed == page[p] IN
    /\ Clickable(p, s)
    /\ ed.selected = NoStrand
    /\ Local(p, [IF PendingAdd(ed.pending, s) THEN UndoPendingAddForStrand(ed, s) ELSE ed
                 EXCEPT !.selected = s])

\* As a target, a strand of a pending add is refused.
SecondClickable(p, s) == Clickable(p, s) /\ ~PendingAdd(page[p].pending, s)

\* Mutant: a second click on the selected strand is not recognised.
SecondClickAnywhere(p, s) ==
    LET ed == page[p] IN
    /\ SecondClickable(p, s)
    /\ ed.selected # NoStrand
    /\ Local(p, [AddPendingSplice(ed, ed.selected, s, ed.expressMode)
                 EXCEPT !.selected = NoStrand])

SecondClick(p, s) ==
    LET ed == page[p] IN
    /\ SecondClickable(p, s)
    /\ ed.selected # NoStrand
    /\ Local(p, [IF s = ed.selected THEN ed ELSE AddPendingSplice(ed, ed.selected, s, ed.expressMode)
                 EXCEPT !.selected = NoStrand])

\* getVisibleStrandsInTubeFrom
FromStrand(ed, s) ==
    SetToSortSeq({t \in ed.visible : TubeOf[t] = TubeOf[s] /\ t >= s}, <)

\* The pairs of a loop, each skipped when a strand of it is in a pending add.
AddRow(ed, row) ==
    IF PendingAdd(ed.pending, row.a) \/ PendingAdd(ed.pending, row.b) THEN ed
    ELSE AddPendingSplice(ed, row.a, row.b, row.express)

Rows(from, to, express) ==
    [i \in 1 .. Min({Count, Len(from), Len(to)}) |->
        [a |-> from[i], b |-> to[i], express |-> express]]

\* handleSequentialClick, both clicks.
Sequential(p, s, t) ==
    LET ed == page[p] IN
    /\ Clickable(p, s) /\ SecondClickable(p, t)
    /\ s # t
    /\ Local(p, [FoldLeft(AddRow, ed, Rows(FromStrand(ed, s), FromStrand(ed, t), ed.expressMode))
                 EXCEPT !.selected = NoStrand])

\* availableFibers
Available(ed, tube) ==
    {s \in ed.visible \ Protected :
        /\ TubeOf[s] = tube
        /\ \A pair \in Live \cup Pairs(ed.shown) : s \notin pair
        /\ ~PendingAdd(ed.pending, s)}

\* handleTubeClick on a tube of each side, and pairTubeFibers.
TubeSplice(p, t, u) ==
    LET ed == page[p]
        from == SetToSortSeq(Available(ed, t), <)
        to   == SetToSortSeq(Available(ed, u), <) IN
    /\ ~ed.readOnly
    /\ t \in LeftTube /\ u \notin LeftTube
    /\ Len(from) = Len(to) /\ from # <<>>
    /\ Local(p, [FoldLeft(AddRow, ed, [i \in DOMAIN from |->
                                          [a |-> from[i], b |-> to[i], express |-> ed.expressMode]])
                 EXCEPT !.selected = NoStrand])

\* handleSpliceClick and the delete button: the selected splices with both ends drawn.
DeleteSelected(p, pairs) ==
    LET ed == page[p] IN
    /\ ~ed.readOnly
    /\ pairs # {}
    /\ pairs \subseteq {pair \in Live \cup Pairs(ed.shown) : pair \subseteq ed.visible}
    /\ Local(p, FoldSet(LAMBDA pair, e : RemovePendingSplice(e, Min(pair), Max(pair)),
                        ed, pairs))

ToggleSpliceExpress(p, pair) ==
    LET ed == page[p] IN
    /\ ~ed.readOnly
    /\ pair \in Live \cup Pairs(ed.shown)
    /\ ToggleExpress(ed, pair) # ed
    /\ Local(p, ToggleExpress(ed, pair))

Undo(p) ==
    LET ed == page[p] IN
    /\ ~ed.readOnly
    /\ ed.undo # <<>>
    /\ page' = [page EXCEPT ![p] = [ed EXCEPT !.undo = Front(@), !.redo = Append(@, ed.pending),
                                               !.pending = Last(ed.undo)]]
    /\ UNCHANGED <<plan, calls, edits, writes, quiet>>

Redo(p) ==
    LET ed == page[p] IN
    /\ ~ed.readOnly
    /\ ed.redo # <<>>
    /\ page' = [page EXCEPT ![p] = [ed EXCEPT !.redo = Front(@), !.undo = Append(@, ed.pending),
                                               !.pending = Last(ed.redo)]]
    /\ UNCHANGED <<plan, calls, edits, writes, quiet>>

SetTrayFilter(p, filter) ==
    /\ filter # page[p].filter
    /\ Local(p, Rebuilt([page[p] EXCEPT !.filter = filter]))

(***************************************************************************)
(* Saving, submitting and loading (splice-editor.ts), and the handlers.    *)
(***************************************************************************)

\* A call of page p moves to the next of its awaits.
Step(p, i, call) == calls' = [calls EXCEPT ![p][i] = call]
Done(p, i) == calls' = [calls EXCEPT ![p] = RemoveAt(@, i)]
At(p, i, stage) == i \in DOMAIN calls[p] /\ calls[p][i].stage = stage

SaveCall(ed, submit) ==
    [stage |-> "sent", known |-> TRUE, payload |-> PendingPayload(ed), version |-> ed.version,
     submit |-> submit, entries |-> {}, torn |-> FALSE, base |-> ed.base, drawn |-> Drawn(ed)]

\* loadData asks for the plan the page knows.
LoadCall(known) ==
    [stage |-> "load", known |-> known, payload |-> [add |-> <<>>, remove |-> {}],
     version |-> NoPlan, submit |-> FALSE, entries |-> {}, torn |-> FALSE, base |-> {},
     drawn |-> {}]

\* The entries changed: loads between their two queries have half of it.
Torn(all) ==
    [p \in Page |-> [i \in DOMAIN all[p] |->
        IF all[p][i].stage = "read" THEN [all[p][i] EXCEPT !.torn = TRUE] ELSE all[p][i]]]

\* What import_live_state adds to a plan.
Seed(entries) ==
    {[pair |-> pair, express |-> FALSE] :
        pair \in {q \in Live : /\ q \cap Claimed = {}
                               /\ \E s \in q : TrayOf[TubeOf[s]] # NoTray
                               /\ \A e \in entries : q \cap e.pair = {}}}

\* handleSave on a closure without a plan: the modal creates one, seeded.
QuickAdd(p) ==
    /\ Command
    /\ page[p].pending # <<>> /\ ~page[p].readOnly
    /\ plan.status = "none"
    /\ plan' = [status |-> Draft, version |-> 1, entries |-> Seed({})]
    /\ page' = [page EXCEPT ![p] = [@ EXCEPT !.known = TRUE, !.base = Seed({})]]
    /\ UNCHANGED <<calls, quiet>>

\* savePendingChanges up to its first await.
Save(p, submit) ==
    /\ Command
    /\ page[p].pending # <<>> /\ page[p].known /\ ~page[p].readOnly
    /\ Len(calls[p]) < MaxCall
    /\ calls' = [calls EXCEPT ![p] = Append(@, SaveCall(page[p], submit))]
    /\ UNCHANGED <<plan, page, quiet>>

PortsIn(payload) == UNION (payload.remove \cup {PairOf(payload.add[k]) : k \in DOMAIN payload.add})
AddPorts(payload) == UNION {PairOf(payload.add[k]) : k \in DOMAIN payload.add}

\* A page that never loaded a plan sends no version, and is not checked.
VersionMatches(call) == call.version \in {NoPlan, plan.version}

\* bulk_update_entries up to its transaction.
CheckSave(p, i) ==
    LET call == calls[p][i]
        accepted == /\ plan.status = Draft
                    /\ VersionMatches(call)
                    /\ PortsIn(call.payload) \cap Protected = {}
                    /\ AddPorts(call.payload) \cap Claimed = {} IN
    /\ At(p, i, "sent")
    /\ Step(p, i, [call EXCEPT !.stage = IF accepted THEN "checked" ELSE "refused"])
    /\ UNCHANGED <<plan, page, edits, writes, quiet>>

\* Mutant: only entries on the first fiber make room for the new one.
ClearedForFirst(entries, c) == {e \in entries : c.a \notin e.pair}

\* Entries on either fiber make room for the new one.
ClearedFor(entries, c) == {e \in entries : e.pair \cap PairOf(c) = {}}

AddEntry(entries, c) == ClearedFor(entries, c) \cup {[pair |-> PairOf(c), express |-> c.express]}

Mounted(c) == TrayOf[TubeOf[c.a]] # NoTray

\* Mutant: the save leaves last_updated alone.
SameVersion(row) == row.version

NextVersion(row) == row.version + 1

\* The transaction.  The plan is saved whole, as it was loaded: a draft.
WriteSave(p, i) ==
    LET call    == calls[p][i]
        removed == {e \in plan.entries : e.pair \notin call.payload.remove} IN
    /\ At(p, i, "checked")
    /\ \A k \in DOMAIN call.payload.add : Mounted(call.payload.add[k])
    /\ plan' = [status |-> Draft, version |-> NextVersion(plan),
                entries |-> FoldLeft(AddEntry, removed, call.payload.add)]
    /\ calls' = [Torn(calls) EXCEPT ![p][i] =
                    [call EXCEPT !.stage = "saved", !.version = plan'.version,
                                 !.entries = plan'.entries]]
    /\ quiet' = FALSE
    /\ UNCHANGED <<page, edits, writes>>

\* A fiber without a tray: the handler returns from inside its transaction, and
\* what it did so far is committed.
WriteHalf(p, i) ==
    LET call    == calls[p][i]
        add     == call.payload.add
        removed == {e \in plan.entries : e.pair \notin call.payload.remove}
        bad     == {k \in DOMAIN add : ~Mounted(add[k])} IN
    /\ At(p, i, "checked")
    /\ bad # {}
    /\ plan' = [plan EXCEPT !.entries =
                   ClearedFor(FoldLeft(AddEntry, removed, SubSeq(add, 1, Min(bad) - 1)),
                              add[Min(bad)])]
    /\ calls' = [Torn(calls) EXCEPT ![p][i] = [call EXCEPT !.stage = "refused"]]
    /\ quiet' = TRUE
    /\ UNCHANGED <<page, edits, writes>>

\* The answer: the pending changes are cleared, those made meanwhile included.
SaveAnswered(p, i) ==
    LET call == calls[p][i] IN
    /\ At(p, i, "saved")
    /\ page' = [page EXCEPT ![p] =
                   [@ EXCEPT !.version = call.version, !.base = call.entries, !.torn = FALSE,
                             !.pending = <<>>, !.undo = <<>>, !.redo = <<>>]]
    /\ Step(p, i, IF call.submit THEN [call EXCEPT !.stage = "submit"] ELSE LoadCall(TRUE))
    /\ UNCHANGED <<plan, edits, writes, quiet>>

SaveRefused(p, i) ==
    /\ At(p, i, "refused")
    /\ Done(p, i)
    /\ UNCHANGED <<plan, page, edits, writes, quiet>>

\* updatePlanStatus, and enterReadOnlyMode when it went through.
Submit(p, i) ==
    /\ At(p, i, "submit")
    /\ plan' = [plan EXCEPT !.status = Pending, !.version = NextVersion(plan)]
    /\ page' = [page EXCEPT ![p] = [@ EXCEPT !.readOnly = TRUE]]
    /\ Step(p, i, LoadCall(TRUE))
    /\ quiet' = FALSE
    /\ UNCHANGED <<edits, writes>>

\* ClosureStrandsAPIView reads the entries, and the plan's version last.
ReadEntries(p, i) ==
    /\ At(p, i, "load")
    /\ Step(p, i, [calls[p][i] EXCEPT !.stage = "read",
                       !.entries = IF calls[p][i].known THEN plan.entries ELSE {}])
    /\ UNCHANGED <<plan, page, edits, writes, quiet>>

ReadVersion(p, i) ==
    /\ At(p, i, "read")
    /\ Step(p, i, [calls[p][i] EXCEPT !.stage = "loaded",
                       !.version = IF calls[p][i].known THEN plan.version ELSE NoPlan])
    /\ UNCHANGED <<plan, page, edits, writes, quiet>>

\* loadData on its answer; loadCableGroups lays the page out anew.
Loaded(p, i) ==
    LET call == calls[p][i] IN
    /\ At(p, i, "loaded")
    /\ page' = [page EXCEPT ![p] = Rebuilt([@ EXCEPT !.version = call.version,
                    !.shown = call.entries, !.base = call.entries, !.torn = call.torn])]
    /\ Done(p, i)
    /\ UNCHANGED <<plan, edits, writes, quiet>>

(***************************************************************************)
(* Everybody else.                                                         *)
(***************************************************************************)

NewPage == [known |-> plan.status # "none",
            readOnly |-> plan.status \notin {"none", Draft},
            version |-> NoPlan, shown |-> {}, filter |-> AllTrays, visible |-> {},
            selected |-> NoStrand, expressMode |-> FALSE, pending |-> <<>>, undo |-> <<>>, redo |-> <<>>,
            base |-> {}, torn |-> FALSE]

\* The user opens the page afresh; beforeunload only asks first.
Reload(p) ==
    /\ Command
    /\ calls[p] = <<>>
    /\ page' = [page EXCEPT ![p] = NewPage]
    /\ calls' = [calls EXCEPT ![p] = <<LoadCall(NewPage.known)>>]
    /\ UNCHANGED <<plan, quiet>>

\* SplicePlanTransitionView: reject or withdraw.
Reject ==
    /\ Command
    /\ plan.status = Pending
    /\ plan' = [plan EXCEPT !.status = Draft, !.version = NextVersion(plan)]
    /\ quiet' = FALSE
    /\ UNCHANGED <<page, calls>>

\* Writers of entries that leave the plan row's last_updated alone: the import,
\* and the deletion of a single entry.
QuietWrite(entries) ==
    /\ Command
    /\ plan' = [plan EXCEPT !.entries = entries]
    /\ calls' = Torn(calls)
    /\ quiet' = TRUE
    /\ UNCHANGED page

Import ==
    /\ plan.status = Draft
    /\ Seed(plan.entries) # {}
    /\ QuietWrite(plan.entries \cup Seed(plan.entries))

DeleteEntry(e) == e \in plan.entries /\ QuietWrite(plan.entries \ {e})

(***************************************************************************)
(* The specification.                                                      *)
(***************************************************************************)

Init ==
    /\ plan \in {[status |-> "none", version |-> NoPlan, entries |-> {}],
                [status |-> Draft, version |-> 1, entries |-> Seed({})]}
    /\ page = [p \in Page |-> NewPage]
    /\ calls = [p \in Page |-> <<LoadCall(NewPage.known)>>]
    /\ edits = 0 /\ writes = 0
    /\ quiet = FALSE

Next ==
    \/ \E p \in Page :
        \/ \E s \in Strand : FirstClick(p, s)
        \/ \E s \in Strand : SecondClick(p, s)
        \/ \E s, t \in Strand : Sequential(p, s, t)
        \/ \E t, u \in Tube : TubeSplice(p, t, u)
        \/ ToggleExpressMode(p)
        \/ \E pairs \in SUBSET (Live \cup Pairs(page[p].shown)) : DeleteSelected(p, pairs)
        \/ \E pair \in Live \cup Pairs(page[p].shown) : ToggleSpliceExpress(p, pair)
        \/ Undo(p) \/ Redo(p)
        \/ \E filter \in Tray \cup {AllTrays} : SetTrayFilter(p, filter)
        \/ QuickAdd(p)
        \/ \E submit \in BOOLEAN : Save(p, submit)
        \/ Reload(p)
        \/ \E i \in DOMAIN calls[p] :
            \/ CheckSave(p, i) \/ WriteSave(p, i) \/ WriteHalf(p, i)
            \/ SaveAnswered(p, i) \/ SaveRefused(p, i) \/ Submit(p, i)
            \/ ReadEntries(p, i) \/ ReadVersion(p, i) \/ Loaded(p, i)
    \/ Reject \/ Import
    \/ \E e \in plan.entries : DeleteEntry(e)

Spec == Init /\ [][Next]_vars

(***************************************************************************)
(* Properties.                                                             *)
(***************************************************************************)

\* Call i of page p is committed by this step.
Commits(p, i) == At(p, i, "checked") /\ calls'[p][i].stage = "saved"

\* Entries that share no strand with another.
Apart(entries) == {e \in entries : \A f \in entries \ {e} : e.pair \cap f.pair = {}}

\* An accepted save leaves in the plan nothing its page did not draw, and all it
\* drew but connections that share a strand with another drawn one, whenever the
\* plan still held the entries the page stands on: superseded splices go even
\* when a tray filter hides them, express toggles and undone changes included.
\* (getPendingPayload against bulk_update_entries, which lets the later of two
\* pending adds on one strand win; the page draws both.)
SavedIsShown ==
    [][\A p \in Page : \A i \in DOMAIN calls[p] :
          Commits(p, i) /\ plan.entries = calls[p][i].base
              => /\ plan'.entries \subseteq calls[p][i].drawn
                 /\ Apart(calls[p][i].drawn) \subseteq plan'.entries]_vars

\* "... is already in a pending splice" (handleStrandClick): a page has no two
\* pending adds on one strand.
OnePendingPerStrand ==
    \A p \in Page :
        \A c, d \in Of(page[p].pending, "add") : c # d => PairOf(c) \cap PairOf(d) = {}

\* The version a page sends stands for the entries it shows: it is the plan's
\* only while they are the plan's, but for writers that leave last_updated alone
\* and for a load that met a write between its two queries (last_updated,
\* plan_version of both endpoints, savePendingChanges, loadData).
VersionNamesEntries ==
    \A p \in Page :
        /\ page[p].version = plan.version
        /\ plan.version # NoPlan
        /\ ~quiet /\ ~page[p].torn
        => page[p].base = plan.entries

\* A save is applied only while the plan's version is the one its page loaded:
\* "Optimistic locking: check plan version hasn't changed since editor loaded"
\* (bulk_update_entries, and the test that an outdated version is refused).
OutdatedSaveRefused ==
    [][\A p \in Page : \A i \in DOMAIN calls[p] :
          Commits(p, i) /\ calls[p][i].version # NoPlan
              => calls[p][i].version = plan.version]_vars

\* What is submitted for approval is what the page saved: "commit the entries and
\* transition the plan to pending_approval in one step" (savePendingChanges).
SubmittedAsSaved ==
    [][\A p \in Page : \A i \in DOMAIN calls[p] :
          Submit(p, i) => plan.entries = calls[p][i].entries]_vars
=============================================================================
