--------------------------- MODULE SpliceEditor_proofs ---------------------------
(***************************************************************************)
(* Proof that the version a page of the splice editor sends stands for the *)
(* entries it shows, for any number of pages, strands and overlapping      *)
(* saves, submissions and loads.                                           *)
(*                                                                         *)
(* The pending changes take no part in the argument: they are left untyped *)
(* here, since what the folds that build them return is beyond the provers.*)
(***************************************************************************)
EXTENDS SpliceEditor, TLAPS

(***************************************************************************)
(* The inductive invariant, over the plan's row and quiet (hush).          *)
(***************************************************************************)

\* Shapes: a field of no interest ranges over its own value.
IsPlan(row) ==
    row \in [status : {"none", Draft, Pending}, version : Nat, entries : {row.entries}]

IsPage(ed) ==
    ed \in [known : BOOLEAN, readOnly : BOOLEAN, version : Nat, shown : {ed.shown},
            filter : {ed.filter}, visible : {ed.visible}, selected : {ed.selected},
            expressMode : {ed.expressMode}, pending : {ed.pending},
            undo : {ed.undo}, redo : {ed.redo}, base : {ed.base}, torn : BOOLEAN]

IsCall(call) ==
    call \in [stage : {"sent", "checked", "saved", "refused", "submit", "load", "read", "loaded"},
              known : BOOLEAN, payload : {call.payload}, version : Nat, submit : {call.submit},
              entries : {call.entries}, torn : BOOLEAN, base : {call.base}, drawn : {call.drawn}]

\* A plan has a version from the moment it exists, and entries no sooner.
PlanRight(row) ==
    /\ IsPlan(row)
    /\ row.status = "none" <=> row.version = NoPlan
    /\ row.status = "none" => row.entries = {}

\* No page is ahead of the plan, one that knows a plan is right, and its version
\* names its entries.
PageRight(ed, row, hush) ==
    /\ IsPage(ed)
    /\ ed.version <= row.version
    /\ ed.known => row.status # "none"
    /\ ed.version = row.version /\ row.version # NoPlan /\ ~hush /\ ~ed.torn
       => ed.base = row.entries

\* The entries an answer carries under a version.
Answered(call) ==
    call.stage = "saved" \/ (call.stage = "loaded" /\ call.known /\ ~call.torn)

\* A call under way agrees with the plan as long as nobody wrote after its answer.
CallRight(call, row, hush) ==
    /\ IsCall(call)
    /\ call.version <= row.version
    /\ call.known => row.status # "none"
    /\ call.stage \in {"sent", "checked", "saved"} => call.known
    /\ call.stage = "loaded" /\ ~call.known => call.version = NoPlan
    /\ call.stage = "read" /\ call.known /\ ~call.torn => call.entries = row.entries
    /\ Answered(call) /\ call.version = row.version /\ ~hush => call.entries = row.entries

\* The calls in a list of them.
Items(list) == {list[i] : i \in DOMAIN list}

PagesRight(pages, row, hush) ==
    /\ pages = [p \in Page |-> pages[p]]
    /\ \A p \in Page : PageRight(pages[p], row, hush)

CallsRight(all, row, hush) ==
    /\ all = [p \in Page |-> all[p]]
    /\ \A p \in Page : /\ all[p] \in Seq(Items(all[p]))
                       /\ \A call \in Items(all[p]) : CallRight(call, row, hush)

IInv ==
    /\ PlanRight(plan)
    /\ quiet \in BOOLEAN
    /\ PagesRight(page, plan, quiet)
    /\ CallsRight(calls, plan, quiet)

\* A later row of the plan: a new version, or entries written quietly.
Later(row, next, hush) ==
    /\ PlanRight(next) /\ next.status # "none"
    /\ \/ next.version > row.version
       \/ next.version = row.version /\ hush = TRUE

(***************************************************************************)
(* Lemmas about the list of calls.                                         *)
(***************************************************************************)

LEMMA SeqOfItems ==
    ASSUME NEW S, NEW s \in Seq(S)
    PROVE  s \in Seq(Items(s)) /\ Items(s) \subseteq S
<1>1. s \in Seq(Items(s))
  <2>1. s \in [1 .. Len(s) -> S] /\ Len(s) \in Nat
    OBVIOUS
  <2> QED BY <2>1 DEF Items
<1>2. Items(s) \subseteq S
  BY DEF Items
<1> QED BY <1>1, <1>2

LEMMA AppendItems ==
    ASSUME NEW s, s \in Seq(Items(s)), NEW e
    PROVE  /\ Append(s, e) \in Seq(Items(Append(s, e)))
           /\ Items(Append(s, e)) \subseteq Items(s) \cup {e}
<1>1. Append(s, e) \in Seq(Items(s) \cup {e})
  <2>1. s \in Seq(Items(s) \cup {e})
    OBVIOUS
  <2> QED BY <2>1
<1> DEFINE t == Append(s, e)
<1> HIDE DEF t
<1> QED BY <1>1, SeqOfItems DEF t

LEMMA ExceptItems ==
    ASSUME NEW s, s \in Seq(Items(s)), NEW i \in DOMAIN s, NEW e
    PROVE  /\ [s EXCEPT ![i] = e] \in Seq(Items([s EXCEPT ![i] = e]))
           /\ Items([s EXCEPT ![i] = e]) \subseteq Items(s) \cup {e}
<1>1. [s EXCEPT ![i] = e] \in Seq(Items(s) \cup {e})
  OBVIOUS
<1> DEFINE t == [s EXCEPT ![i] = e]
<1> HIDE DEF t
<1> QED BY <1>1, SeqOfItems DEF t

LEMMA RemoveItems ==
    ASSUME NEW s, s \in Seq(Items(s)), NEW i \in DOMAIN s
    PROVE  /\ RemoveAt(s, i) \in Seq(Items(RemoveAt(s, i)))
           /\ Items(RemoveAt(s, i)) \subseteq Items(s)
<1>1. SubSeq(s, 1, i - 1) \in Seq(Items(s)) /\ SubSeq(s, i + 1, Len(s)) \in Seq(Items(s))
  OBVIOUS
<1>2. RemoveAt(s, i) \in Seq(Items(s))
  BY <1>1 DEF RemoveAt
<1> QED BY <1>2, SeqOfItems

LEMMA OneItem ==
    ASSUME NEW e
    PROVE  <<e>> \in Seq(Items(<<e>>)) /\ Items(<<e>>) = {e}
BY DEF Items

\* Calls stay right when those of one page are replaced by right ones.
LEMMA ListStep ==
    ASSUME NEW all, NEW row, NEW hush, CallsRight(all, row, hush),
           NEW p \in Page, NEW s, s \in Seq(Items(s)),
           \A call \in Items(s) : CallRight(call, row, hush)
    PROVE  CallsRight([all EXCEPT ![p] = s], row, hush)
<1> DEFINE next == [all EXCEPT ![p] = s]
<1>1. /\ next = [q \in Page |-> next[q]]
      /\ \A q \in Page : next[q] = IF q = p THEN s ELSE all[q]
  BY DEF CallsRight
<1> HIDE DEF next
<1>2. CallsRight(next, row, hush)
  BY <1>1 DEF CallsRight
<1> QED BY <1>2 DEF next

LEMMA SetCall ==
    ASSUME NEW all, NEW row, NEW hush, CallsRight(all, row, hush),
           NEW p \in Page, NEW i \in DOMAIN all[p], NEW call, CallRight(call, row, hush)
    PROVE  CallsRight([all EXCEPT ![p][i] = call], row, hush)
<1> DEFINE s == [all[p] EXCEPT ![i] = call]
<1>1. s \in Seq(Items(s)) /\ Items(s) \subseteq Items(all[p]) \cup {call}
  BY ExceptItems DEF CallsRight
<1>2. [all EXCEPT ![p][i] = call] = [all EXCEPT ![p] = s]
  BY DEF CallsRight
<1> HIDE DEF s
<1>3. \A c \in Items(s) : CallRight(c, row, hush)
  BY <1>1 DEF CallsRight
<1>4. CallsRight([all EXCEPT ![p] = s], row, hush)
  BY <1>1, <1>3, ListStep
<1> QED BY <1>2, <1>4

LEMMA AddCall ==
    ASSUME NEW all, NEW row, NEW hush, CallsRight(all, row, hush),
           NEW p \in Page, NEW call, CallRight(call, row, hush)
    PROVE  CallsRight([all EXCEPT ![p] = Append(@, call)], row, hush)
<1> DEFINE s == Append(all[p], call)
<1>1. s \in Seq(Items(s)) /\ Items(s) \subseteq Items(all[p]) \cup {call}
  BY AppendItems DEF CallsRight
<1> HIDE DEF s
<1>2. \A c \in Items(s) : CallRight(c, row, hush)
  BY <1>1 DEF CallsRight
<1>3. CallsRight([all EXCEPT ![p] = s], row, hush)
  BY <1>1, <1>2, ListStep
<1> QED BY <1>3 DEF s

LEMMA DropCall ==
    ASSUME NEW all, NEW row, NEW hush, CallsRight(all, row, hush),
           NEW p \in Page, NEW i \in DOMAIN all[p]
    PROVE  CallsRight([all EXCEPT ![p] = RemoveAt(@, i)], row, hush)
<1> DEFINE s == RemoveAt(all[p], i)
<1>1. s \in Seq(Items(s)) /\ Items(s) \subseteq Items(all[p])
  BY RemoveItems DEF CallsRight
<1> HIDE DEF s
<1>2. \A c \in Items(s) : CallRight(c, row, hush)
  BY <1>1 DEF CallsRight
<1>3. CallsRight([all EXCEPT ![p] = s], row, hush)
  BY <1>1, <1>2, ListStep
<1> QED BY <1>3 DEF s

\* Writers of entries tear the loads that have read half of them.
LEMMA TearCalls ==
    ASSUME NEW all, NEW row, NEW hush, CallsRight(all, row, hush), PlanRight(row),
           NEW next, NEW after \in BOOLEAN, Later(row, next, after)
    PROVE  /\ CallsRight(Torn(all), next, after)
           /\ \A p \in Page : DOMAIN Torn(all)[p] = DOMAIN all[p]
<1>1. ASSUME NEW p \in Page
      PROVE  /\ Torn(all)[p] \in Seq(Items(Torn(all)[p]))
             /\ DOMAIN Torn(all)[p] = DOMAIN all[p]
             /\ \A c \in Items(Torn(all)[p]) : CallRight(c, next, after)
  <2> DEFINE Tear(c) == IF c.stage = "read" THEN [c EXCEPT !.torn = TRUE] ELSE c
             s == Torn(all)[p]
  <2>1. s = [i \in DOMAIN all[p] |-> Tear(all[p][i])]
    BY DEF Torn
  <2>2. all[p] \in Seq(Items(all[p]))
    BY DEF CallsRight
  <2>3. \A c \in Items(all[p]) : CallRight(Tear(c), next, after)
    <3> TAKE c \in Items(all[p])
    <3>1. CallRight(c, row, hush)
      BY DEF CallsRight
    <3>2. CASE c.stage = "read"
      <4> DEFINE d == [c EXCEPT !.torn = TRUE]
      <4>1. /\ IsCall(d) /\ d.stage = "read" /\ d.torn /\ d.version = c.version
            /\ d.known = c.known
        BY <3>1, <3>2 DEF CallRight, IsCall
      <4> HIDE DEF d
      <4>2. CallRight(d, next, after)
        BY <3>1, <4>1 DEF CallRight, IsCall, Later, PlanRight, IsPlan, Answered
      <4> QED BY <3>2, <4>2 DEF d
    <3>3. CASE c.stage # "read"
      BY <3>1, <3>3 DEF CallRight, IsCall, Later, PlanRight, IsPlan, Answered
    <3> QED BY <3>2, <3>3
  <2> HIDE DEF Tear
  <2>4. s \in Seq({Tear(c) : c \in Items(all[p])})
    BY <2>1, <2>2 DEF Items
  <2>5. s \in Seq(Items(s)) /\ Items(s) \subseteq {Tear(c) : c \in Items(all[p])}
    <3> HIDE DEF s
    <3> QED BY <2>4, SeqOfItems
  <2> QED BY <2>1, <2>3, <2>5
<1>2. Torn(all) = [p \in Page |-> Torn(all)[p]]
  BY DEF Torn
<1> QED BY <1>1, <1>2 DEF CallsRight

\* A new version of the same entries outdates what was answered.
LEMMA BumpCalls ==
    ASSUME NEW all, NEW row, NEW hush, CallsRight(all, row, hush), PlanRight(row),
           NEW next, NEW after \in BOOLEAN, Later(row, next, after), next.version > row.version,
           next.entries = row.entries
    PROVE  CallsRight(all, next, after)
BY DEF CallsRight, CallRight, IsCall, Later, PlanRight, IsPlan, Answered

LEMMA LaterPages ==
    ASSUME NEW pages, NEW row, NEW hush, PagesRight(pages, row, hush), PlanRight(row),
           NEW next, NEW after \in BOOLEAN, Later(row, next, after)
    PROVE  PagesRight(pages, next, after)
BY DEF PagesRight, PageRight, IsPage, Later, PlanRight, IsPlan

LEMMA SetPage ==
    ASSUME NEW pages, NEW row, NEW hush, PagesRight(pages, row, hush),
           NEW p \in Page, NEW ed, PageRight(ed, row, hush)
    PROVE  PagesRight([pages EXCEPT ![p] = ed], row, hush)
<1> DEFINE next == [pages EXCEPT ![p] = ed]
<1>1. /\ next = [q \in Page |-> next[q]]
      /\ \A q \in Page : next[q] = IF q = p THEN ed ELSE pages[q]
  BY DEF PagesRight
<1> HIDE DEF next
<1>2. PagesRight(next, row, hush)
  BY <1>1 DEF PagesRight
<1> QED BY <1>2 DEF next

(***************************************************************************)
(* The initial states and the steps.                                       *)
(***************************************************************************)

LEMMA LoadRight ==
    ASSUME NEW row, NEW hush, PlanRight(row), NEW known \in BOOLEAN, known => row.status # "none"
    PROVE  CallRight(LoadCall(known), row, hush)
<1> DEFINE c == LoadCall(known)
<1>1. IsCall(c) /\ c.stage = "load" /\ c.version = 0 /\ (c.known <=> known)
  BY DEF LoadCall, IsCall, NoPlan
<1>2. row.version \in Nat
  BY DEF PlanRight, IsPlan
<1> HIDE DEF c
<1>3. CallRight(c, row, hush)
  BY <1>1, <1>2 DEF CallRight, Answered
<1> QED BY <1>3 DEF c

LEMMA NewPageRight ==
    ASSUME NEW hush, PlanRight(plan)
    PROVE  PageRight(NewPage, plan, hush) /\ NewPage.known \in BOOLEAN
           /\ (NewPage.known <=> plan.status # "none")
<1> DEFINE ed == NewPage
<1>1. /\ ed.known \in BOOLEAN /\ (ed.known <=> plan.status # "none")
      /\ ed.version = 0 /\ ed.torn = FALSE
  BY DEF NewPage, NoPlan
<1>2. IsPage(ed)
  BY DEF NewPage, IsPage, NoPlan
<1>3. plan.version \in Nat
  BY DEF PlanRight, IsPlan
<1> HIDE DEF ed
<1>4. PageRight(ed, plan, hush)
  BY <1>1, <1>2, <1>3 DEF PageRight, NoPlan
<1> QED BY <1>1, <1>4 DEF ed

LEMMA InitIInv == Init => IInv
<1> SUFFICES ASSUME Init PROVE IInv
  OBVIOUS
<1>1. PlanRight(plan)
  <2>1. CASE plan = [status |-> "none", version |-> NoPlan, entries |-> {}]
    BY <2>1 DEF PlanRight, IsPlan, NoPlan
  <2>2. CASE plan = [status |-> Draft, version |-> 1, entries |-> Seed({})]
    <3>1. plan.status = Draft /\ plan.version = 1 /\ IsPlan(plan)
      BY <2>2 DEF IsPlan, Draft
    <3> QED BY <3>1 DEF PlanRight, NoPlan, Draft
  <2> QED BY <2>1, <2>2 DEF Init
<1>2. PagesRight(page, plan, quiet)
  <2> DEFINE ed == NewPage
  <2>1. PageRight(ed, plan, quiet) /\ page = [p \in Page |-> ed]
    BY <1>1, NewPageRight DEF Init
  <2> HIDE DEF ed
  <2> QED BY <2>1 DEF PagesRight
<1>3. CallsRight(calls, plan, quiet)
  <2> DEFINE c == LoadCall(NewPage.known)
  <2>1. CallRight(c, plan, quiet) /\ calls = [p \in Page |-> <<c>>]
    BY <1>1, NewPageRight, LoadRight DEF Init
  <2> HIDE DEF c
  <2>2. <<c>> \in Seq(Items(<<c>>)) /\ Items(<<c>>) = {c}
    BY OneItem
  <2> QED BY <2>1, <2>2 DEF CallsRight
<1>4. quiet \in BOOLEAN
  BY DEF Init
<1> QED BY <1>1, <1>2, <1>3, <1>4 DEF IInv

\* What a page loaded is not touched by work on it.
LEMMA WorkStep ==
    ASSUME IInv, NEW p \in Page,
           \/ \E ed : Local(p, ed)
           \/ Undo(p) \/ Redo(p)
    PROVE  IInv'
<1>1. PageRight(page[p], plan, quiet)
  BY DEF IInv, PagesRight
<1>2. PICK ed : /\ page' = [page EXCEPT ![p] = ed]
                /\ PageRight(ed, plan, quiet)
  <2>1. ASSUME NEW new, Local(p, new)
        PROVE  \E ed : page' = [page EXCEPT ![p] = ed] /\ PageRight(ed, plan, quiet)
    <3> DEFINE r == [page[p] EXCEPT !.pending = new.pending, !.undo = new.undo, !.redo = new.redo,
                                    !.selected = new.selected, !.expressMode = new.expressMode,
                                    !.filter = new.filter, !.visible = new.visible]
    <3>1. page' = [page EXCEPT ![p] = r]
      BY <2>1 DEF Local
    <3>2. PageRight(r, plan, quiet)
      BY <1>1 DEF PageRight, IsPage
    <3> QED BY <3>1, <3>2
  <2>2. CASE Undo(p)
    <3> DEFINE r == [page[p] EXCEPT !.undo = Front(@), !.redo = Append(@, page[p].pending),
                                    !.pending = Last(page[p].undo)]
    <3>1. page' = [page EXCEPT ![p] = r]
      BY <2>2 DEF Undo
    <3>2. PageRight(r, plan, quiet)
      BY <1>1 DEF PageRight, IsPage
    <3> QED BY <3>1, <3>2
  <2>3. CASE Redo(p)
    <3> DEFINE r == [page[p] EXCEPT !.redo = Front(@), !.undo = Append(@, page[p].pending),
                                    !.pending = Last(page[p].redo)]
    <3>1. page' = [page EXCEPT ![p] = r]
      BY <2>3 DEF Redo
    <3>2. PageRight(r, plan, quiet)
      BY <1>1 DEF PageRight, IsPage
    <3> QED BY <3>1, <3>2
  <2> QED BY <2>1, <2>2, <2>3
<1>3. UNCHANGED <<plan, calls, quiet>>
  BY DEF Local, Undo, Redo
<1>4. PagesRight([page EXCEPT ![p] = ed], plan, quiet)
  BY <1>2, SetPage DEF IInv
<1> QED BY <1>2, <1>3, <1>4 DEF IInv

\* The modal makes the first plan: nobody stands on one yet.
LEMMA QuickAddStep ==
    ASSUME IInv, NEW p \in Page, QuickAdd(p)
    PROVE  IInv'
<1> DEFINE ed == [page[p] EXCEPT !.known = TRUE, !.base = Seed({})]
<1>1. /\ PlanRight(plan) /\ plan.version = 0
      /\ PlanRight(plan') /\ plan'.version = 1 /\ plan'.status # "none"
      /\ plan'.entries = Seed({})
  BY DEF QuickAdd, IInv, PlanRight, IsPlan, NoPlan, Draft, Pending
<1>2. PagesRight(page, plan', quiet)
  BY <1>1 DEF IInv, PagesRight, PageRight, IsPage
<1>3. PageRight(ed, plan', quiet)
  BY <1>1, <1>2 DEF PagesRight, PageRight, IsPage
<1>4. page' = [page EXCEPT ![p] = ed] /\ UNCHANGED <<calls, quiet>>
  BY DEF QuickAdd
<1>5. CallsRight(calls, plan', quiet)
  <2>1. ASSUME NEW call, CallRight(call, plan, quiet)
        PROVE  CallRight(call, plan', quiet)
    BY <1>1, <2>1 DEF IInv, CallRight, IsCall, Answered, PlanRight, IsPlan, QuickAdd
  <2> QED BY <2>1 DEF IInv, CallsRight
<1> HIDE DEF ed
<1>6. PagesRight([page EXCEPT ![p] = ed], plan', quiet)
  BY <1>2, <1>3, SetPage
<1> QED BY <1>1, <1>4, <1>5, <1>6 DEF IInv

\* The writers of entries under a new version: an accepted save.
LEMMA SaveStep ==
    ASSUME IInv, NEW p \in Page, NEW i \in DOMAIN calls[p], WriteSave(p, i)
    PROVE  IInv'
<1>1. CallRight(calls[p][i], plan, quiet)
  BY DEF IInv, CallsRight, Items
<1>2. PlanRight(plan') /\ plan'.status # "none" /\ plan'.version = plan.version + 1
  BY DEF WriteSave, NextVersion, IInv, PlanRight, IsPlan, NoPlan, Draft
<1>3. quiet' = FALSE /\ Later(plan, plan', quiet')
  BY <1>2 DEF WriteSave, Later, IInv, PlanRight, IsPlan
<1>4. CallsRight(Torn(calls), plan', quiet') /\ i \in DOMAIN Torn(calls)[p]
  BY <1>3, TearCalls DEF IInv
<1>5. PICK c : c = [calls[p][i] EXCEPT !.stage = "saved", !.version = plan'.version,
                                       !.entries = plan'.entries]
  OBVIOUS
<1>6. CallRight(c, plan', quiet')
  <2>1. /\ IsCall(c) /\ c.stage = "saved" /\ c.known
        /\ c.version = plan'.version /\ c.entries = plan'.entries
    BY <1>1, <1>2, <1>5 DEF CallRight, IsCall, PlanRight, IsPlan, WriteSave, At
  <2> QED BY <1>2, <2>1 DEF CallRight, PlanRight, IsPlan
<1>7. calls' = [Torn(calls) EXCEPT ![p][i] = c] /\ page' = page
  BY <1>5 DEF WriteSave
<1>8. CallsRight(calls', plan', quiet')
  BY <1>4, <1>6, <1>7, SetCall
<1>9. PagesRight(page', plan', quiet')
  BY <1>3, <1>7, LaterPages DEF IInv
<1> QED BY <1>2, <1>3, <1>8, <1>9 DEF IInv

\* A save that returns half way: what it wrote has no version of its own.
LEMMA HalfStep ==
    ASSUME IInv, NEW p \in Page, NEW i \in DOMAIN calls[p], WriteHalf(p, i)
    PROVE  IInv'
<1>1. CallRight(calls[p][i], plan, quiet)
  BY DEF IInv, CallsRight, Items
<1>2. PICK entries : plan' = [plan EXCEPT !.entries = entries]
  BY DEF WriteHalf
<1>3. PlanRight(plan') /\ plan'.status # "none" /\ plan'.version = plan.version
  BY <1>1, <1>2 DEF WriteHalf, At, CallRight, IInv, PlanRight, IsPlan
<1>4. quiet' = TRUE /\ Later(plan, plan', quiet')
  BY <1>3 DEF WriteHalf, Later
<1>5. CallsRight(Torn(calls), plan', quiet') /\ i \in DOMAIN Torn(calls)[p]
  BY <1>4, TearCalls DEF IInv
<1>6. PICK c : c = [calls[p][i] EXCEPT !.stage = "refused"]
  OBVIOUS
<1>7. CallRight(c, plan', quiet')
  BY <1>1, <1>3, <1>6 DEF CallRight, IsCall, Answered
<1>8. calls' = [Torn(calls) EXCEPT ![p][i] = c] /\ page' = page
  BY <1>6 DEF WriteHalf
<1>9. CallsRight(calls', plan', quiet')
  BY <1>5, <1>7, <1>8, SetCall
<1>10. PagesRight(page', plan', quiet')
  BY <1>4, <1>8, LaterPages DEF IInv
<1> QED BY <1>3, <1>4, <1>9, <1>10 DEF IInv

\* Import and single deletions write entries and leave the version alone.
LEMMA QuietStep ==
    ASSUME IInv, NEW entries, QuietWrite(entries), plan.status # "none"
    PROVE  IInv'
<1>1. PlanRight(plan') /\ plan'.status # "none" /\ plan'.version = plan.version
  BY DEF QuietWrite, IInv, PlanRight, IsPlan
<1>2. quiet' = TRUE /\ Later(plan, plan', quiet')
  BY <1>1 DEF QuietWrite, Later
<1>3. CallsRight(calls', plan', quiet')
  BY <1>2, TearCalls DEF IInv, QuietWrite
<1>4. PagesRight(page', plan', quiet')
  BY <1>2, LaterPages DEF IInv, QuietWrite
<1> QED BY <1>1, <1>2, <1>3, <1>4 DEF IInv

\* A submission and its rejection make a new version of the same entries.
LEMMA RejectStep ==
    ASSUME IInv, Reject
    PROVE  IInv'
<1>1. /\ PlanRight(plan') /\ plan'.status # "none" /\ plan'.version = plan.version + 1
      /\ plan'.entries = plan.entries /\ plan.version \in Nat
  <2>1. plan' = [plan EXCEPT !.status = Draft, !.version = plan.version + 1]
    BY DEF Reject, NextVersion
  <2>2. PlanRight(plan)
    BY DEF IInv
  <2>3. /\ plan'.status = Draft /\ plan'.version = plan.version + 1
        /\ plan'.entries = plan.entries /\ plan.version \in Nat
    BY <2>1, <2>2 DEF PlanRight, IsPlan
  <2>4. IsPlan(plan')
    <3>1. plan' = [status |-> Draft, version |-> plan.version + 1, entries |-> plan.entries]
      BY <2>1, <2>2 DEF PlanRight, IsPlan
    <3> DEFINE version == plan.version + 1
               entries == plan.entries
    <3>2. version \in Nat
      BY <2>3
    <3> HIDE DEF version, entries
    <3> QED BY <3>1, <3>2 DEF IsPlan, Draft, version, entries
  <2> QED BY <2>3, <2>4 DEF PlanRight, Draft, NoPlan
<1>2. quiet' = FALSE /\ Later(plan, plan', quiet') /\ UNCHANGED <<page, calls>>
  BY <1>1 DEF Reject, Later
<1>3. CallsRight(calls', plan', quiet')
  <2>1. plan'.version > plan.version
    BY <1>1
  <2>2. quiet' \in BOOLEAN
    BY <1>2
  <2> QED BY <1>1, <1>2, <2>1, <2>2, BumpCalls DEF IInv
<1>4. PagesRight(page', plan', quiet')
  BY <1>2, LaterPages DEF IInv
<1> QED BY <1>1, <1>2, <1>3, <1>4 DEF IInv

LEMMA SubmitStep ==
    ASSUME IInv, NEW p \in Page, NEW i \in DOMAIN calls[p], Submit(p, i)
    PROVE  IInv'
<1>1. /\ PlanRight(plan') /\ plan'.status # "none" /\ plan'.version = plan.version + 1
      /\ plan'.entries = plan.entries /\ plan.version \in Nat
  <2>1. plan' = [plan EXCEPT !.status = Pending, !.version = plan.version + 1]
    BY DEF Submit, NextVersion
  <2>2. PlanRight(plan)
    BY DEF IInv
  <2>3. /\ plan'.status = Pending /\ plan'.version = plan.version + 1
        /\ plan'.entries = plan.entries /\ plan.version \in Nat
    BY <2>1, <2>2 DEF PlanRight, IsPlan
  <2>4. IsPlan(plan')
    <3>1. plan' = [status |-> Pending, version |-> plan.version + 1, entries |-> plan.entries]
      BY <2>1, <2>2 DEF PlanRight, IsPlan
    <3> DEFINE version == plan.version + 1
               entries == plan.entries
    <3>2. version \in Nat
      BY <2>3
    <3> HIDE DEF version, entries
    <3> QED BY <3>1, <3>2 DEF IsPlan, Pending, version, entries
  <2> QED BY <2>3, <2>4 DEF PlanRight, Pending, NoPlan
<1>2. quiet' = FALSE /\ Later(plan, plan', quiet')
  BY <1>1 DEF Submit, Later
<1>3. CallsRight(calls, plan', quiet')
  <2>1. plan'.version > plan.version
    BY <1>1
  <2>2. quiet' \in BOOLEAN
    BY <1>2
  <2> QED BY <1>1, <1>2, <2>1, <2>2, BumpCalls DEF IInv
<1>4. CallsRight(calls', plan', quiet')
  <2>1. CallRight(LoadCall(TRUE), plan', quiet')
    BY <1>1, LoadRight
  <2> QED BY <1>3, <2>1, SetCall DEF Submit, Step
<1>5. PagesRight(page, plan', quiet')
  BY <1>2, LaterPages DEF IInv
<1>6. PICK ed : ed = [page[p] EXCEPT !.readOnly = TRUE]
  OBVIOUS
<1>7. PageRight(ed, plan', quiet')
  BY <1>5, <1>6 DEF PagesRight, PageRight, IsPage
<1>8. PagesRight(page', plan', quiet')
  BY <1>5, <1>6, <1>7, SetPage DEF Submit
<1> QED BY <1>1, <1>2, <1>4, <1>8 DEF IInv

\* The steps that only move calls along.
LEMMA CallStep ==
    ASSUME IInv, NEW p \in Page,
           \/ \E submit \in BOOLEAN : Save(p, submit)
           \/ \E i \in DOMAIN calls[p] : \/ CheckSave(p, i) \/ SaveRefused(p, i)
                                         \/ ReadEntries(p, i) \/ ReadVersion(p, i)
    PROVE  IInv'
<1>1. UNCHANGED <<plan, page, quiet>>
  BY DEF Save, CheckSave, SaveRefused, ReadEntries, ReadVersion
<1>2. CallsRight(calls', plan, quiet)
  <2>1. ASSUME NEW submit \in BOOLEAN, Save(p, submit)
        PROVE  CallsRight(calls', plan, quiet)
    <3>1. PICK c : c = SaveCall(page[p], submit)
      OBVIOUS
    <3>2. PageRight(page[p], plan, quiet) /\ page[p].known
      BY <2>1 DEF Save, IInv, PagesRight
    <3>3. CallRight(c, plan, quiet)
      BY <3>1, <3>2 DEF SaveCall, CallRight, IsCall, Answered, PageRight, IsPage
    <3> QED BY <2>1, <3>1, <3>3, AddCall DEF Save, IInv
  <2>2. ASSUME NEW i \in DOMAIN calls[p], CheckSave(p, i)
        PROVE  CallsRight(calls', plan, quiet)
    <3>1. PICK stage \in {"checked", "refused"} :
             Step(p, i, [calls[p][i] EXCEPT !.stage = stage])
      BY <2>2 DEF CheckSave
    <3>2. CallRight(calls[p][i], plan, quiet) /\ calls[p][i].stage = "sent"
      BY <2>2 DEF CheckSave, At, IInv, CallsRight, Items
    <3>3. CallRight([calls[p][i] EXCEPT !.stage = stage], plan, quiet)
      BY <3>2 DEF CallRight, IsCall, Answered
    <3> QED BY <3>1, <3>3, SetCall DEF Step, IInv
  <2>3. ASSUME NEW i \in DOMAIN calls[p], SaveRefused(p, i)
        PROVE  CallsRight(calls', plan, quiet)
    BY <2>3, DropCall DEF SaveRefused, Done, IInv
  <2>4. ASSUME NEW i \in DOMAIN calls[p], ReadEntries(p, i)
        PROVE  CallsRight(calls', plan, quiet)
    <3>1. CallRight(calls[p][i], plan, quiet)
      BY <2>4 DEF IInv, CallsRight, Items
    <3>2. PICK c : c = [calls[p][i] EXCEPT !.stage = "read",
                            !.entries = IF calls[p][i].known THEN plan.entries ELSE {}]
      OBVIOUS
    <3>3. CallRight(c, plan, quiet)
      BY <3>1, <3>2 DEF CallRight, IsCall, Answered
    <3> QED BY <2>4, <3>2, <3>3, SetCall DEF ReadEntries, Step, IInv
  <2>5. ASSUME NEW i \in DOMAIN calls[p], ReadVersion(p, i)
        PROVE  CallsRight(calls', plan, quiet)
    <3>1. CallRight(calls[p][i], plan, quiet) /\ calls[p][i].stage = "read"
      BY <2>5 DEF ReadVersion, At, IInv, CallsRight, Items
    <3>2. PICK c : c = [calls[p][i] EXCEPT !.stage = "loaded",
                            !.version = IF calls[p][i].known THEN plan.version ELSE NoPlan]
      OBVIOUS
    <3>3. plan.version \in Nat
      BY DEF IInv, PlanRight, IsPlan
    <3>4. /\ IsCall(c) /\ c.stage = "loaded" /\ c.known = calls[p][i].known
          /\ c.torn = calls[p][i].torn /\ c.entries = calls[p][i].entries
          /\ c.version = IF c.known THEN plan.version ELSE NoPlan
      BY <3>1, <3>2, <3>3 DEF CallRight, IsCall, NoPlan
    <3>5. CallRight(c, plan, quiet)
      BY <3>1, <3>3, <3>4 DEF CallRight, Answered, NoPlan
    <3> QED BY <2>5, <3>2, <3>5, SetCall DEF ReadVersion, Step, IInv
  <2> QED BY <2>1, <2>2, <2>3, <2>4, <2>5
<1> QED BY <1>1, <1>2 DEF IInv

\* The answer of a save and of a load reach the page they were made from.
LEMMA AnswerStep ==
    ASSUME IInv, NEW p \in Page, NEW i \in DOMAIN calls[p], SaveAnswered(p, i)
    PROVE  IInv'
<1>1. CallRight(calls[p][i], plan, quiet) /\ calls[p][i].stage = "saved"
  BY DEF SaveAnswered, At, IInv, CallsRight, Items
<1>2. PICK ed : ed = [page[p] EXCEPT !.version = calls[p][i].version,
                          !.base = calls[p][i].entries, !.torn = FALSE,
                          !.pending = <<>>, !.undo = <<>>, !.redo = <<>>]
  OBVIOUS
<1>3. PageRight(ed, plan, quiet)
  <2>1. PageRight(page[p], plan, quiet)
    BY DEF IInv, PagesRight
  <2>2. /\ IsPage(ed) /\ ed.version = calls[p][i].version /\ ed.base = calls[p][i].entries
        /\ ed.known = page[p].known
    BY <1>1, <1>2, <2>1 DEF CallRight, IsCall, PageRight, IsPage
  <2> QED BY <1>1, <2>1, <2>2 DEF CallRight, PageRight, Answered
<1>4. PagesRight(page', plan, quiet)
  BY <1>2, <1>3, SetPage DEF SaveAnswered, IInv
<1>5. CallsRight(calls', plan, quiet)
  <2>1. PICK c : c = IF calls[p][i].submit THEN [calls[p][i] EXCEPT !.stage = "submit"]
                     ELSE LoadCall(TRUE)
    OBVIOUS
  <2>2. CallRight([calls[p][i] EXCEPT !.stage = "submit"], plan, quiet)
    <3> DEFINE d == [calls[p][i] EXCEPT !.stage = "submit"]
    <3>1. /\ IsCall(d) /\ d.stage = "submit" /\ d.known = calls[p][i].known
          /\ d.version = calls[p][i].version
      BY <1>1 DEF CallRight, IsCall
    <3> HIDE DEF d
    <3>2. CallRight(d, plan, quiet)
      BY <1>1, <3>1 DEF CallRight, Answered
    <3> QED BY <3>2 DEF d
  <2>3. CallRight(LoadCall(TRUE), plan, quiet)
    BY <1>1, LoadRight DEF CallRight, IInv
  <2>4. CallRight(c, plan, quiet)
    BY <2>1, <2>2, <2>3
  <2> QED BY <2>1, <2>4, SetCall DEF SaveAnswered, Step, IInv
<1> QED BY <1>4, <1>5 DEF SaveAnswered, IInv

LEMMA LoadedStep ==
    ASSUME IInv, NEW p \in Page, NEW i \in DOMAIN calls[p], Loaded(p, i)
    PROVE  IInv'
<1>1. CallRight(calls[p][i], plan, quiet) /\ calls[p][i].stage = "loaded"
  BY DEF Loaded, At, IInv, CallsRight, Items
<1>2. PICK ed : ed = Rebuilt([page[p] EXCEPT !.version = calls[p][i].version,
                          !.shown = calls[p][i].entries, !.base = calls[p][i].entries,
                          !.torn = calls[p][i].torn])
  OBVIOUS
<1>3. PageRight(ed, plan, quiet)
  <2>1. PageRight(page[p], plan, quiet)
    BY DEF IInv, PagesRight
  <2>2. /\ IsPage(ed) /\ ed.version = calls[p][i].version /\ ed.base = calls[p][i].entries
        /\ ed.known = page[p].known /\ ed.torn = calls[p][i].torn
    BY <1>1, <1>2, <2>1 DEF CallRight, IsCall, PageRight, IsPage, Rebuilt
  <2> QED BY <1>1, <2>1, <2>2 DEF CallRight, PageRight, Answered, IsCall
<1>4. PagesRight(page', plan, quiet)
  BY <1>2, <1>3, SetPage DEF Loaded, IInv
<1>5. CallsRight(calls', plan, quiet)
  BY DropCall DEF Loaded, Done, IInv
<1> QED BY <1>4, <1>5 DEF Loaded, IInv

LEMMA ReloadStep ==
    ASSUME IInv, NEW p \in Page, Reload(p)
    PROVE  IInv'
<1>1. PICK ed : ed = NewPage
  OBVIOUS
<1>2. PageRight(ed, plan, quiet) /\ ed.known \in BOOLEAN /\ (ed.known <=> plan.status # "none")
  BY <1>1, NewPageRight DEF IInv
<1>3. PagesRight(page', plan, quiet)
  BY <1>1, <1>2, SetPage DEF Reload, IInv
<1>4. PICK c : c = LoadCall(ed.known)
  OBVIOUS
<1>5. CallRight(c, plan, quiet)
  BY <1>2, <1>4, LoadRight DEF IInv
<1>6. CallsRight([calls EXCEPT ![p] = <<c>>], plan, quiet)
  <2> DEFINE s == <<c>>
  <2>1. s \in Seq(Items(s)) /\ Items(s) = {c}
    BY OneItem
  <2> HIDE DEF s
  <2>2. \A call \in Items(s) : CallRight(call, plan, quiet)
    BY <1>5, <2>1
  <2> QED BY <2>1, <2>2, ListStep DEF IInv, s
<1>7. calls' = [calls EXCEPT ![p] = <<c>>]
  BY <1>1, <1>4 DEF Reload
<1> QED BY <1>3, <1>6, <1>7 DEF Reload, IInv

(***************************************************************************)
(* The theorem.                                                            *)
(***************************************************************************)

LEMMA StepIInv == IInv /\ [Next]_vars => IInv'
<1> SUFFICES ASSUME IInv, [Next]_vars PROVE IInv'
  OBVIOUS
<1>1. ASSUME NEW p \in Page, NEW ed, Local(p, ed) PROVE IInv'
  BY <1>1, WorkStep
<1>2. ASSUME NEW p \in Page,
             \/ \E s \in Strand : FirstClick(p, s) \/ SecondClick(p, s)
             \/ \E s, t \in Strand : Sequential(p, s, t)
             \/ \E t, u \in Tube : TubeSplice(p, t, u)
             \/ ToggleExpressMode(p)
             \/ \E pairs \in SUBSET (Live \cup Pairs(page[p].shown)) : DeleteSelected(p, pairs)
             \/ \E pair \in Live \cup Pairs(page[p].shown) : ToggleSpliceExpress(p, pair)
             \/ \E filter \in Tray \cup {AllTrays} : SetTrayFilter(p, filter)
      PROVE  IInv'
  <2>1. \E ed : Local(p, ed)
    BY <1>2 DEF FirstClick, SecondClick, Sequential, TubeSplice, ToggleExpressMode,
                DeleteSelected, ToggleSpliceExpress, SetTrayFilter
  <2> QED BY <1>1, <2>1
<1>3. ASSUME NEW p \in Page, Undo(p) \/ Redo(p) PROVE IInv'
  BY <1>3, WorkStep
<1>4. ASSUME NEW p \in Page, QuickAdd(p) PROVE IInv'
  BY <1>4, QuickAddStep
<1>5. ASSUME NEW p \in Page, NEW i \in DOMAIN calls[p],
             \/ WriteSave(p, i) \/ WriteHalf(p, i) \/ SaveAnswered(p, i)
             \/ Submit(p, i) \/ Loaded(p, i)
      PROVE  IInv'
  BY <1>5, SaveStep, HalfStep, AnswerStep, SubmitStep, LoadedStep
<1>6. ASSUME NEW p \in Page,
             \/ \E submit \in BOOLEAN : Save(p, submit)
             \/ \E i \in DOMAIN calls[p] : \/ CheckSave(p, i) \/ SaveRefused(p, i)
                                           \/ ReadEntries(p, i) \/ ReadVersion(p, i)
      PROVE  IInv'
  BY <1>6, CallStep
<1>7. ASSUME NEW p \in Page, Reload(p) PROVE IInv'
  BY <1>7, ReloadStep
<1>8. CASE Reject
  BY <1>8, RejectStep
<1>9. CASE Import \/ \E e \in plan.entries : DeleteEntry(e)
  <2>1. plan.status # "none"
    BY <1>9 DEF Import, DeleteEntry, Draft, IInv, PlanRight
  <2>2. \E entries : QuietWrite(entries)
    BY <1>9 DEF Import, DeleteEntry
  <2> QED BY <2>1, <2>2, QuietStep
<1>10. CASE UNCHANGED vars
  BY <1>10 DEF vars, IInv
<1> QED BY <1>2, <1>3, <1>4, <1>5, <1>6, <1>7, <1>8, <1>9, <1>10 DEF Next

\* However the saves, submissions and loads of any number of pages interleave,
\* the version a page would send stands for the entries it shows
\* (last_updated, plan_version, savePendingChanges, loadData).
THEOREM VersionIsHonest == Spec => []VersionNamesEntries
<1>1. IInv => VersionNamesEntries
  BY DEF IInv, PagesRight, PageRight, VersionNamesEntries
<1> QED BY <1>1, InitIInv, StepIInv, PTL DEF Spec
=============================================================================
