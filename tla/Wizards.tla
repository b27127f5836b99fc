------------------------------- MODULE Wizards -------------------------------
(***************************************************************************)
(* The circuit wizard and the closure cable wizard of one user (views.py). *)
(* Every tab drives them through one Django session: a request reads all   *)
(* of it when it begins and, if it changed any, writes all of it when it   *)
(* ends, so requests of several tabs overwrite each other's steps.  What a *)
(* request does depends on the step in the session, never on the page it   *)
(* was sent from.                                                          *)
(***************************************************************************)
EXTENDS PathPicker

CONSTANTS
    Tab,
    Device,       \* where the cable wizard is opened
    CircuitForm,  \* what step 1 of the circuit wizard takes: [count, status]
    FilterForm,   \* what its step 2 takes
    Query,        \* the filters the picker is judged by
    WalkOf,       \* [path -> the devices its fiber visits]
    Contended,    \* paths other users want
    MaxEvent, MaxMade  \* bounds

Wizard == {"circuit", "cable"}
\* The pages: one for circuits, one for every device.
Url == {<<"circuit", NoDevice>>} \cup ({"cable"} \X Device)
Empty == [step |-> 1]   \* the session holds nothing of the wizard
Closed == [step |-> 0]
Idle == [post |-> "none"]

ASSUME WizardsAssumption ==
    /\ Device \subseteq Nat \ {NoDevice} /\ Contended \subseteq Path
    /\ \A form \in CircuitForm : form = [count |-> form.count, status |-> form.status]
    /\ \A f \in FilterForm : f.incomplete \in BOOLEAN
    /\ {MaxEvent, MaxMade} \subseteq Nat

VARIABLES
    session,  \* [wizard -> its state]
    stale,    \* wizards whose state is older than SESSION_TTL
    url, page,  \* [tab -> where it is and the state its page was rendered from]
    request,  \* [tab -> its request under way, or Idle]
    made,     \* circuits and cables created, in order
    alone,    \* [tab -> how many of its last requests, up to 2, overlapped and preceded no other tab's]
    events    \* requests, expiries and changes by others so far

vars == <<picker, session, stale, url, page, request, made, alone, events>>

\* dict.update
Update(state, entries) ==
    [x \in DOMAIN state \cup DOMAIN entries |->
        IF x \in DOMAIN entries THEN entries[x] ELSE state[x]]

WizardOf(t) == url[t][1]
NearDevice(t) == url[t][2]

----------------------------------------------------------------------------
(* A request: the session is loaded, then the view runs and the session is *)
(* saved.  The two last are one step: in between another request can only  *)
(* load the session, as it could have before the view ran.                 *)

Event == events < MaxEvent /\ events' = events + 1

Send(t, at, post) ==
    /\ request[t] = Idle
    /\ IF post \in {"get", "restart"} THEN TRUE ELSE at = url[t] /\ page[t] # Closed
    /\ url' = [url EXCEPT ![t] = at]
    /\ page' = [page EXCEPT ![t] = IF at = url[t] THEN @ ELSE Closed]
    /\ request' = [request EXCEPT ![t] = [post |-> post, loaded |-> session, stale |-> stale]]
    /\ alone' = [u \in Tab |-> IF u # t \/ \E v \in Tab \ {t} : request[v] # Idle THEN 0
                               ELSE IF alone[t] = 2 THEN 2 ELSE alone[t] + 1]
    /\ Event
    /\ UNCHANGED <<picker, session, stale, made>>

\* A mutant: the device is not compared.
DroppedByAge(t) == WizardOf(t) \in request[t].stale

\* _get_state: a state too old, or of another device, is dropped.
Dropped(t) ==
    \/ WizardOf(t) \in request[t].stale
    \/ WizardOf(t) = "cable" /\ "device" \in DOMAIN request[t].loaded.cable
          /\ request[t].loaded.cable.device # NearDevice(t)

State(t) == IF Dropped(t) THEN Empty ELSE request[t].loaded[WizardOf(t)]

\* SessionMiddleware writes all of the session, as loaded, if the view touched any of it.
Answer(t, state, shown, touched) ==
    /\ page' = [page EXCEPT ![t] = shown]
    /\ IF touched
       THEN /\ session' = [request[t].loaded EXCEPT ![WizardOf(t)] = state]
            /\ stale' = request[t].stale \ {WizardOf(t)}
       ELSE UNCHANGED <<session, stale>>
    /\ request' = [request EXCEPT ![t] = Idle]
    /\ UNCHANGED <<url, alone, events>>

Keep(t) == Answer(t, State(t), State(t), Dropped(t))
Set(t, state) == Answer(t, state, state, TRUE)

\* An hour passes with no request under way.
Expire(w) ==
    /\ \A t \in Tab : request[t] = Idle
    /\ session[w] # Empty /\ w \notin stale
    /\ stale' = stale \cup {w}
    /\ Event
    /\ UNCHANGED <<picker, session, url, page, request, made, alone>>

Serving(t, post) == request[t] # Idle /\ request[t].post = post

Get(t) == Serving(t, "get") /\ Keep(t) /\ UNCHANGED <<picker, made>>

Restart(t) ==
    /\ Serving(t, "restart")
    /\ Answer(t, Empty, Closed, request[t].loaded[WizardOf(t)] # Empty)
    /\ UNCHANGED <<picker, made>>

Back(t) ==
    /\ Serving(t, "back")
    /\ IF State(t).step > 1 THEN Set(t, [State(t) EXCEPT !.step = @ - 1])
       ELSE IF WizardOf(t) = "cable" THEN Set(t, State(t)) ELSE Keep(t)
    /\ UNCHANGED <<picker, made>>

\* The fields a step reads are on the page only if the page is of that step.
Submit(t, wizard, step) == Serving(t, "submit") /\ WizardOf(t) = wizard /\ State(t).step = step
Fields(t) == page[t].step = State(t).step

----------------------------------------------------------------------------
(* The circuit wizard.                                                     *)

Shown(t) == IF Fields(t) THEN page[t] ELSE Closed

\* A mutant: whoever went back returns to the groups found before.
BasicsReturning(state, form) ==
    Update(Update(state, form), [step |-> IF "groups" \in DOMAIN state THEN 3 ELSE 2])
Basics(state, form) == Update(Update(state, form), [step |-> 2])

ProcessStep1(t) ==
    /\ Submit(t, "circuit", 1)
    /\ IF Fields(t) THEN \E form \in CircuitForm : Set(t, Basics(State(t), form)) ELSE Keep(t)
    /\ UNCHANGED <<picker, made>>

NoFilter == [through |-> <<>>, avoid |-> {}, endsAt |-> {}, incomplete |-> FALSE]

ProcessStep2(t) ==
    /\ Submit(t, "circuit", 2)
    /\ \E f \in IF Fields(t) THEN FilterForm ELSE {NoFilter} :
          LET groups == Offer(State(t).count, State(t).status, f) IN
          IF groups = <<>> THEN Keep(t)
          ELSE Set(t, Update(State(t), [step |-> 3, incomplete |-> f.incomplete,
                                        groups |-> [i \in DOMAIN groups |-> groups[i].paths]]))
    /\ UNCHANGED <<picker, made>>

ProcessStep3(t) ==
    /\ Submit(t, "circuit", 3)
    /\ \E i \in IF Fields(t) THEN DOMAIN page[t].groups ELSE {1} :
          IF i \in DOMAIN State(t).groups THEN Set(t, Update(State(t), [step |-> 4, selected |-> i])) ELSE Keep(t)
    /\ UNCHANGED <<picker, made>>

CircuitOf(state) == [count |-> state.count, status |-> state.status, paths |-> state.groups[state.selected]]

\* A mutant: the groups are searched again when the circuit is created.
CircuitFoundAgain(state) ==
    LET groups == Offer(state.count, state.status, [NoFilter EXCEPT !.incomplete = state.incomplete]) IN
    [count |-> state.count, status |-> state.status,
     paths |-> IF state.selected \in DOMAIN groups THEN groups[state.selected].paths ELSE <<>>]
CircuitToMake(state) == CircuitOf(state)

\* One transaction: the circuit and all its assignments, or nothing and the page again.
ProcessStep4(t) ==
    /\ Submit(t, "circuit", 4)
    /\ LET circuit == CircuitToMake(State(t)) IN
       IF Refused(circuit.count, circuit.paths, State(t).incomplete)
       THEN Keep(t) /\ UNCHANGED <<picker, made>>
       ELSE /\ Len(made) < MaxMade
            /\ assigned' = assigned \cup Range(circuit.paths)
            /\ made' = Append(made, [wizard |-> "circuit", what |-> circuit, alone |-> alone[t] = 2,
                                     shown |-> IF Fields(t) THEN CircuitOf(page[t]) ELSE Closed])
            /\ Answer(t, Empty, Closed, TRUE)
            /\ UNCHANGED <<faults, defective>>

----------------------------------------------------------------------------
(* The closure cable wizard.                                               *)

\* clean_far_end_device
FarDevice(t) == Device \ {NearDevice(t)}

CableStep1(t) ==
    /\ Submit(t, "cable", 1)
    /\ IF Fields(t)
       THEN \E far \in FarDevice(t) :
               Set(t, Update(State(t), [step |-> 2, device |-> NearDevice(t), far |-> far]))
       ELSE Keep(t)
    /\ UNCHANGED <<picker, made>>

CableStep2(t) ==
    /\ Submit(t, "cable", 2)
    /\ IF Fields(t) THEN Set(t, [State(t) EXCEPT !.step = 3]) ELSE Keep(t)
    /\ UNCHANGED <<picker, made>>

\* The devices of the cable: what the review of a state shows and what is created of one.
CableOf(t, state) == {NearDevice(t), state.far}

CableStep3(t) ==
    /\ Submit(t, "cable", 3)
    /\ Len(made) < MaxMade
    /\ made' = Append(made, [wizard |-> "cable", what |-> CableOf(t, State(t)), alone |-> alone[t] = 2,
                             shown |-> IF Fields(t) THEN CableOf(t, page[t]) ELSE Closed])
    /\ Answer(t, Empty, Closed, TRUE)
    /\ UNCHANGED picker

----------------------------------------------------------------------------

Elsewhere ==
    /\ \/ \E p \in Contended : AssignElsewhere(p)
       \/ \E site \in FaultSite : ReportFault(site)
       \/ Analyze
    /\ Event
    /\ UNCHANGED <<session, stale, url, page, request, made, alone>>

Init ==
    /\ assigned = {} /\ faults = {} /\ defective = {}
    /\ session = [w \in Wizard |-> Empty]
    /\ stale = {}
    /\ url = [t \in Tab |-> <<"circuit", NoDevice>>]
    /\ page = [t \in Tab |-> Empty]
    /\ request = [t \in Tab |-> Idle]
    /\ made = <<>>
    /\ alone = [t \in Tab |-> 0]
    /\ events = 0

Next ==
    \/ \E t \in Tab :
          \/ \E at \in Url, post \in {"get", "restart", "back", "submit"} : Send(t, at, post)
          \/ Get(t) \/ Restart(t) \/ Back(t)
          \/ ProcessStep1(t) \/ ProcessStep2(t) \/ ProcessStep3(t) \/ ProcessStep4(t)
          \/ CableStep1(t) \/ CableStep2(t) \/ CableStep3(t)
    \/ \E w \in Wizard : Expire(w)
    \/ Elsewhere

Spec == Init /\ [][Next]_vars

----------------------------------------------------------------------------
(* Properties.                                                             *)

Fits(n, status, incomplete, paths) ==
    /\ Len(paths) = n /\ IsInjective(paths)
    /\ Range(paths) \subseteq Viewable
    /\ \A p \in Range(paths) :
          /\ Route[p] = Route[paths[1]]
          /\ incomplete \/ p \in Terminated
          /\ status = "planned" \/ p \notin Proposed

\* Shapes, and the session makes sense whatever requests overwrote it: from step 3 on it holds
\* groups that fit the basics it holds, and at step 4 one of them is selected.
TypeOK ==
    /\ assigned \subseteq Path /\ faults \subseteq FaultSite /\ defective \subseteq Path
    /\ stale \subseteq Wizard /\ url \in [Tab -> Url] /\ alone \in [Tab -> 0..2]
    /\ events <= MaxEvent /\ Len(made) <= MaxMade
    /\ LET state == session.circuit IN
          /\ state.step \in 1..4
          /\ state.step > 1 => [count |-> state.count, status |-> state.status] \in CircuitForm
          /\ state.step > 2 => /\ state.groups # <<>>
                               /\ \A g \in Range(state.groups) : Fits(state.count, state.status, state.incomplete, g)
          /\ state.step = 4 => state.selected \in DOMAIN state.groups
    /\ LET state == session.cable IN
          /\ state.step \in 1..3
          /\ state.step > 1 => state.device \in Device /\ state.far \in Device \ {state.device}

\* When the pages of one tab follow each other with no request of another tab between or under
\* them, what is created is what the page showed that was submitted: whatever expired meanwhile,
\* whatever others assigned or broke (views.py:2225, 3150).
CreatedAsReviewed == \A i \in DOMAIN made : made[i].alone => made[i].what = made[i].shown

\* However tabs, double submits and stale sessions interfere, a circuit is created whole, over
\* fiber its basics admit and no other circuit has, and a cable between two devices
\* (views.py:2226, 3043; assignment.py:64).
CreatedWhole ==
    \A i \in DOMAIN made :
        LET what == made[i].what IN
        IF made[i].wizard = "cable" THEN Cardinality(what) = 2
        ELSE /\ \E incomplete \in BOOLEAN : Fits(what.count, what.status, incomplete, what.paths)
             /\ \A j \in DOMAIN made \ {i} : made[j].wizard = "circuit" => Range(what.paths) \cap Range(made[j].what.paths) = {}

\* The picker is judged before anybody uses a wizard: it depends on nothing of theirs.
Untouched == session = [w \in Wizard |-> Empty] /\ alone = [t \in Tab |-> 0] /\ request = [t \in Tab |-> Idle]
PassesInOrder(through, p) ==
    \E at \in [DOMAIN through -> DOMAIN WalkOf[p]] :
        /\ \A i \in DOMAIN through : WalkOf[p][at[i]] = through[i]
        /\ \A i, j \in DOMAIN through : i < j => at[i] < at[j]

\* Whatever form and filters are submitted, the groups offered fit them.
OffersFit ==
    \A form \in CircuitForm, f \in FilterForm \cup {NoFilter} :
        \A offer \in {Offer(form.count, form.status, f)} :
        /\ offer \in Seq(Range(offer))
        /\ \A g \in Range(offer) : Fits(form.count, form.status, f.incomplete, g.paths)

\* A hop is stored the way the path runs, or path_hop_ends turns it: it has two ends, and the
\* path is known to begin at the second one.
Legible(p, i) ==
    LET ends == HopsOf[p][i].ends IN
    \/ Len(ends) < 2
    \/ PassesInOrder(<<Head(ends), Last(ends)>>, p)
    \/ Len(ends) = 2 /\ IF i = 1 THEN EndA[p] # NoDevice ELSE Len(HopsOf[p][i - 1].ends) >= 2

\* Whatever is offered could be assigned at once; its fiber visits the devices the filters ask
\* for and nothing they avoid; and it visits them in the order asked, whichever way its hops are
\* stored, if each of them is legible.  After a leased circuit, and on a plain cable of several
\* rear ports a side, a hop stored the other way is not (assignment.py:219, 223, 327).
OfferFits ==
    Untouched =>
        /\ OffersFit
        /\ \A form \in CircuitForm, f \in Query :
            \A g \in Range(Offer(form.count, form.status, f)) :
                /\ Fits(form.count, form.status, f.incomplete, g.paths)
                /\ ~Refused(form.count, g.paths, f.incomplete)
                /\ \A p \in Range(g.paths) :
                      LET visited == Range(WalkOf[p]) IN
                      /\ f.avoid \cap (visited \cup UNION {BelongsTo[d] : d \in visited}) = {}
                      /\ Range(f.through) \subseteq visited
                      /\ (\A i \in DOMAIN HopsOf[p] : Legible(p, i)) => PassesInOrder(f.through, p)

\* "must_pass_through is an ordered device list the route must visit in that order"
\* (assignment.py:337), for every path.
OfferInOrder ==
    Untouched =>
        \A form \in CircuitForm, f \in Query :
            \A g \in Range(Offer(form.count, form.status, f)) :
                \A p \in Range(g.paths) : PassesInOrder(f.through, p)

\* Paths of a route cross it in one shape, and in strand order they go through the rear ports
\* one after the other, position by position.
InStrandOrder(S) ==
    LET First(p) == StrandHops[p][1].slot IN
    /\ \A p, q \in S : Shape(p) = Shape(q)
    /\ \A p, q, r \in S :
          First(p)[1] = First(q)[1] /\ FirstPosition[p] < FirstPosition[r] /\ FirstPosition[r] < FirstPosition[q]
          => First(r)[1] = First(p)[1] /\ First(p)[2] < First(r)[2] /\ First(r)[2] < First(q)[2]

\* Groups of paths of one route that fit and are adjacent on every cable of it.
AdjacentFits(form, f) ==
    LET free == {p \in Candidates(form.status, f.incomplete) \cap Viewable : PassesFilters(p, f)} IN
    {S \in kSubset(form.count, free) : (\A p, q \in S : Route[p] = Route[q]) /\ GroupIsContiguous(S)}

OffersContiguous(form, f) == LET offer == Offer(form.count, form.status, f) IN offer # <<>> /\ offer[1].contiguous

\* If paths that fit are adjacent on every cable of a route, and the paths of that route that
\* pass the filters are in strand order, the first group offered is contiguous: sliding a window
\* over them misses none.  Where strand order is not that of the rear ports, or a path with a
\* plain-cable hop sorts between neighbours, it may (assignment.py:391).
ContiguousFirst ==
    Untouched =>
        \A form \in CircuitForm, f \in Query :
            LET Along(S) == {q \in Candidates(form.status, f.incomplete) :
                                PassesFilters(q, f) /\ \A p \in S : Route[p] = Route[q]} IN
            (\E S \in AdjacentFits(form, f) : InStrandOrder(Along(S))) => OffersContiguous(form, f)

\* The same of every route, which is not so.
ContiguousAlways ==
    Untouched => \A form \in CircuitForm, f \in Query : AdjacentFits(form, f) # {} => OffersContiguous(form, f)

\* What several tabs can break: every creation was reviewed as it is ("Step 4: Review and
\* Create", circuit_wizard_step4.html:5), and submitting a review twice creates one cable.
OnlyReviewed == \A i \in DOMAIN made : made[i].what = made[i].shown
CableOnce ==
    \A i, j \in DOMAIN made : i # j /\ made[i].wizard = "cable" => made[i].what # made[j].what

=============================================================================
