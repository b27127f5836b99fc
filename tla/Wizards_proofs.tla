----------------------------- MODULE Wizards_proofs -----------------------------
(***************************************************************************)
(* Proofs about the wizards, for any number of tabs, devices, paths and    *)
(* requests: what a tab creates that nobody interfered with is what it was *)
(* shown, and what any tab creates is whole.                               *)
(***************************************************************************)
EXTENDS Wizards, FiniteSetTheorems, TLAPS

(***************************************************************************)
(* Requests.                                                               *)
(***************************************************************************)

IsSession(s) == s = [w \in Wizard |-> s[w]]

IsRequest(r) ==
    \/ r = Idle
    \/ /\ r = [post |-> r.post, loaded |-> r.loaded, stale |-> r.stale]
       /\ r.post \in {"get", "restart", "back", "submit"}
       /\ IsSession(r.loaded)

\* The things in a list.
Items(list) == {list[i] : i \in DOMAIN list}

Shapes ==
    /\ IsSession(session)
    /\ url \in [Tab -> Url]
    /\ page = [t \in Tab |-> page[t]]
    /\ request = [t \in Tab |-> request[t]] /\ \A t \in Tab : IsRequest(request[t])
    /\ alone \in [Tab -> 0 .. 2]
    /\ made \in Seq(Items(made))

\* What a request of the tab was given is what the session still holds, and
\* nobody else has one under way; between requests the page shows the session.
Undisturbed(t) ==
    /\ \A v \in Tab \ {t} : request[v] = Idle
    /\ request[t] # Idle => request[t].loaded = session /\ request[t].stale = stale
    /\ request[t] = Idle /\ page[t] # Closed => page[t] = session[WizardOf(t)]

\* A form is submitted from a page of the state the request was given.
FromItsPage(t) ==
    request[t] # Idle /\ request[t].post = "submit" => page[t] = request[t].loaded[WizardOf(t)]

Reviewed(what) == what.alone => what.what = what.shown

ReviewInv ==
    /\ Shapes
    /\ \A t \in Tab : /\ alone[t] > 0 => Undisturbed(t)
                      /\ alone[t] = 2 => FromItsPage(t)
    /\ \A what \in Items(made) : Reviewed(what)

(***************************************************************************)
(* Answers: every view ends in one.                                        *)
(***************************************************************************)

\* The state a view leaves: it shows the state it stores, or nothing, and what it
\* does not store is what the session held.
Answers(t, state, shown, touched) ==
    /\ request[t] # Idle
    /\ Answer(t, state, shown, touched)
    /\ shown = Closed \/ shown = state
    /\ touched \/ shown = Closed \/ state = request[t].loaded[WizardOf(t)]

Views(t) ==
    \/ Get(t) \/ Restart(t) \/ Back(t)
    \/ ProcessStep1(t) \/ ProcessStep2(t) \/ ProcessStep3(t) \/ ProcessStep4(t)
    \/ CableStep1(t) \/ CableStep2(t) \/ CableStep3(t)

LEMMA WizardKnown ==
    ASSUME Shapes, NEW t \in Tab
    PROVE  WizardOf(t) \in Wizard
BY DEF Shapes, Url, Wizard, WizardOf

LEMMA SetAnswers ==
    ASSUME NEW t \in Tab, request[t] # Idle, NEW state, Set(t, state)
    PROVE  Answers(t, state, state, TRUE)
BY DEF Set, Answers

LEMMA KeepAnswers ==
    ASSUME NEW t \in Tab, request[t] # Idle, Keep(t)
    PROVE  Answers(t, State(t), State(t), Dropped(t))
BY DEF Keep, Answers, State

LEMMA ViewAnswers ==
    ASSUME NEW t \in Tab, Views(t)
    PROVE  \E state, shown, touched : Answers(t, state, shown, touched)
<1>1. request[t] # Idle
  BY DEF Views, Get, Restart, Back, ProcessStep1, ProcessStep2, ProcessStep3, ProcessStep4,
         CableStep1, CableStep2, CableStep3, Submit, Serving
<1>2. CASE Keep(t) \/ \E state : Set(t, state)
  BY <1>1, <1>2, SetAnswers, KeepAnswers
<1>3. CASE \E touched : Answer(t, Empty, Closed, touched)
  BY <1>1, <1>3 DEF Answers
<1>4. \/ Keep(t) \/ \E state : Set(t, state)
      \/ \E touched : Answer(t, Empty, Closed, touched)
  <2>1. CASE Get(t) \/ Restart(t) \/ Back(t)
    BY <2>1 DEF Get, Restart, Back
  <2>2. CASE ProcessStep1(t) \/ ProcessStep2(t)
    BY <2>2 DEF ProcessStep1, ProcessStep2
  <2>3. CASE ProcessStep3(t) \/ ProcessStep4(t)
    BY <2>3 DEF ProcessStep3, ProcessStep4
  <2>4. CASE CableStep1(t) \/ CableStep2(t) \/ CableStep3(t)
    BY <2>4 DEF CableStep1, CableStep2, CableStep3
  <2> QED BY <2>1, <2>2, <2>3, <2>4 DEF Views
<1> QED BY <1>2, <1>3, <1>4

\* The state of one wizard is replaced in the session as it was loaded.
LEMMA SessionSet ==
    ASSUME NEW s, IsSession(s), NEW w \in Wizard, NEW state
    PROVE  /\ IsSession([s EXCEPT ![w] = state])
           /\ [s EXCEPT ![w] = state][w] = state
           /\ \A v \in Wizard \ {w} : [s EXCEPT ![w] = state][v] = s[v]
BY DEF IsSession

LEMMA AnswerShapes ==
    ASSUME Shapes, NEW t \in Tab, NEW state, NEW shown, NEW touched,
           Answers(t, state, shown, touched)
    PROVE  /\ IsSession(session')
           /\ url' = url /\ alone' = alone
           /\ page' = [u \in Tab |-> page'[u]]
           /\ page'[t] = shown /\ \A u \in Tab \ {t} : page'[u] = page[u]
           /\ request' = [u \in Tab |-> request'[u]] /\ \A u \in Tab : IsRequest(request'[u])
           /\ request'[t] = Idle /\ \A u \in Tab \ {t} : request'[u] = request[u]
<1>1. IsRequest(request[t]) /\ request[t] # Idle /\ WizardOf(t) \in Wizard
  BY WizardKnown DEF Shapes, Answers
<1>2. IsSession(request[t].loaded)
  BY <1>1 DEF IsRequest
<1>3. IsSession(session')
  <2>1. \/ session' = session
        \/ session' = [request[t].loaded EXCEPT ![WizardOf(t)] = state]
    BY DEF Answers, Answer
  <2>2. IsSession([request[t].loaded EXCEPT ![WizardOf(t)] = state])
    BY <1>1, <1>2, SessionSet
  <2>3. IsSession(session)
    BY DEF Shapes
  <2> QED BY <2>1, <2>2, <2>3
<1>4. /\ page' = [page EXCEPT ![t] = shown] /\ request' = [request EXCEPT ![t] = Idle]
      /\ url' = url /\ alone' = alone
  BY DEF Answers, Answer
<1>5. IsRequest(Idle)
  BY DEF IsRequest
<1> QED BY <1>3, <1>4, <1>5 DEF Shapes

LEMMA AnswerKeeps ==
    ASSUME ReviewInv, NEW t \in Tab, NEW state, NEW shown, NEW touched,
           Answers(t, state, shown, touched)
    PROVE  \A u \in Tab : /\ alone'[u] > 0 => Undisturbed(u)'
                          /\ alone'[u] = 2 => FromItsPage(u)'
<1> SUFFICES ASSUME NEW u \in Tab
             PROVE  /\ alone'[u] > 0 => Undisturbed(u)'
                    /\ alone'[u] = 2 => FromItsPage(u)'
  OBVIOUS
<1>1. /\ url' = url /\ alone' = alone
      /\ page'[t] = shown /\ \A v \in Tab \ {t} : page'[v] = page[v]
      /\ request'[t] = Idle /\ \A v \in Tab \ {t} : request'[v] = request[v]
  BY AnswerShapes DEF ReviewInv
<1>2. request[t] # Idle /\ alone[u] \in 0 .. 2
  BY DEF Answers, ReviewInv, Shapes
<1>3. CASE u = t
  <2>1. FromItsPage(u)'
    BY <1>1, <1>3 DEF FromItsPage
  <2>2. ASSUME alone[t] > 0 PROVE Undisturbed(t)'
    <3>1. Undisturbed(t)
      BY <2>2 DEF ReviewInv
    <3>2. shown # Closed => shown = session'[WizardOf(t)]
      <4>1. ASSUME touched, shown = state PROVE shown = session'[WizardOf(t)]
        <5>1. IsSession(request[t].loaded) /\ WizardOf(t) \in Wizard
          BY <1>2, WizardKnown DEF ReviewInv, Shapes, IsRequest
        <5> QED BY <4>1, <5>1, SessionSet DEF Answers, Answer
      <4>2. ASSUME ~touched, shown # Closed PROVE shown = session'[WizardOf(t)]
        BY <3>1, <1>2, <4>2 DEF Answers, Answer, Undisturbed
      <4> QED BY <4>1, <4>2 DEF Answers
    <3> QED BY <1>1, <3>1, <3>2 DEF Undisturbed, WizardOf
  <2> QED BY <1>1, <1>2, <1>3, <2>1, <2>2
<1>4. CASE u # t
  <2>1. ~(alone[u] > 0)
    BY <1>2, <1>4 DEF ReviewInv, Undisturbed
  <2> QED BY <1>1, <1>2, <2>1
<1> QED BY <1>3, <1>4

LEMMA AppendItems ==
    ASSUME NEW s, s \in Seq(Items(s)), NEW e
    PROVE  /\ Append(s, e) \in Seq(Items(Append(s, e)))
           /\ Items(Append(s, e)) = Items(s) \cup {e}
<1>1. /\ Len(s) \in Nat /\ DOMAIN s = 1 .. Len(s)
      /\ Append(s, e) \in Seq(Items(s) \cup {e}) /\ Len(Append(s, e)) = Len(s) + 1
      /\ \A i \in 1 .. Len(s) : Append(s, e)[i] = s[i]
      /\ Append(s, e)[Len(s) + 1] = e
  <2>1. s \in Seq(Items(s) \cup {e})
    OBVIOUS
  <2> QED BY <2>1
<1> DEFINE t == Append(s, e)
           n == Len(s)
<1> HIDE DEF t, n
<1>2. t \in [1 .. n + 1 -> Items(s) \cup {e}] /\ DOMAIN t = 1 .. n + 1 /\ n \in Nat
  <2> DEFINE X == Items(s) \cup {e}
  <2>1. t \in Seq(X) /\ Len(t) = n + 1 /\ n \in Nat
    BY <1>1 DEF t, n
  <2> HIDE DEF X
  <2>2. t \in [1 .. n + 1 -> X] /\ DOMAIN t = 1 .. n + 1
    BY <2>1
  <2> QED BY <2>1, <2>2 DEF X
<1>3. Items(t) = Items(s) \cup {e}
  <2>1. Items(t) \subseteq Items(s) \cup {e}
    BY <1>2 DEF Items
  <2>2. \A i \in DOMAIN s : s[i] \in Items(t)
    BY <1>1, <1>2 DEF Items, t, n
  <2>3. e \in Items(t)
    BY <1>1, <1>2 DEF Items, t, n
  <2> QED BY <2>1, <2>2, <2>3 DEF Items
<1>4. t \in Seq(Items(t))
  BY <1>2, <1>3
<1> QED BY <1>3, <1>4 DEF t

(***************************************************************************)
(* What is created was reviewed.                                           *)
(***************************************************************************)

\* The device the wizard is at is that of the state it works on.
LEMMA StateOfSession ==
    ASSUME NEW t \in Tab, State(t).step > 1
    PROVE  State(t) = request[t].loaded[WizardOf(t)] /\ ~Dropped(t)
BY DEF State, Empty

LEMMA MadeReviewed ==
    ASSUME ReviewInv, NEW t \in Tab, Views(t)
    PROVE  \/ made' = made
           \/ \E what : made' = Append(made, what) /\ Reviewed(what)
<1>1. CASE made' = made
  BY <1>1
<1>2. ASSUME \E wizard \in Wizard, step \in {3, 4} : Submit(t, wizard, step),
             alone[t] = 2
      PROVE  State(t) = page[t] /\ Fields(t)
  <2>1. /\ request[t] # Idle /\ request[t].post = "submit" /\ State(t).step > 1
    BY <1>2 DEF Submit, Serving
  <2>2. page[t] = request[t].loaded[WizardOf(t)]
    BY <1>2, <2>1 DEF ReviewInv, FromItsPage
  <2> QED BY <2>1, <2>2, StateOfSession DEF Fields
<1>3. CASE ProcessStep4(t) /\ made' # made
  <2> DEFINE what == [wizard |-> "circuit", what |-> CircuitToMake(State(t)), alone |-> alone[t] = 2,
                      shown |-> IF Fields(t) THEN CircuitOf(page[t]) ELSE Closed]
  <2>1. made' = Append(made, what) /\ Submit(t, "circuit", 4)
    BY <1>3 DEF ProcessStep4
  <2>2. Reviewed(what)
    BY <1>2, <2>1 DEF Reviewed, CircuitToMake, Wizard
  <2> QED BY <2>1, <2>2
<1>4. CASE CableStep3(t)
  <2> DEFINE what == [wizard |-> "cable", what |-> CableOf(t, State(t)), alone |-> alone[t] = 2,
                      shown |-> IF Fields(t) THEN CableOf(t, page[t]) ELSE Closed]
  <2>1. made' = Append(made, what) /\ Submit(t, "cable", 3)
    BY <1>4 DEF CableStep3
  <2>2. Reviewed(what)
    BY <1>2, <2>1 DEF Reviewed, Wizard
  <2> QED BY <2>1, <2>2
<1>5. Get(t) \/ Restart(t) \/ Back(t) \/ ProcessStep1(t) \/ ProcessStep2(t) \/ ProcessStep3(t)
      \/ CableStep1(t) \/ CableStep2(t) => made' = made
  BY DEF Get, Restart, Back, ProcessStep1, ProcessStep2, ProcessStep3, CableStep1, CableStep2
<1> QED BY <1>1, <1>3, <1>4, <1>5 DEF Views

LEMMA ViewStep ==
    ASSUME ReviewInv, NEW t \in Tab, Views(t)
    PROVE  ReviewInv'
<1>1. PICK state, shown, touched : Answers(t, state, shown, touched)
  BY ViewAnswers
<1>2. /\ IsSession(session') /\ url' = url /\ alone' = alone
      /\ page' = [u \in Tab |-> page'[u]]
      /\ request' = [u \in Tab |-> request'[u]] /\ \A u \in Tab : IsRequest(request'[u])
  BY <1>1, AnswerShapes DEF ReviewInv
<1>3. made' \in Seq(Items(made')) /\ \A what \in Items(made') : Reviewed(what)
  <2>1. CASE made' = made
    BY <2>1 DEF ReviewInv, Shapes
  <2>2. ASSUME NEW what, made' = Append(made, what), Reviewed(what)
        PROVE  made' \in Seq(Items(made')) /\ \A w \in Items(made') : Reviewed(w)
    <3>1. made' \in Seq(Items(made')) /\ Items(made') = Items(made) \cup {what}
      BY <2>2, AppendItems DEF ReviewInv, Shapes
    <3> QED BY <2>2, <3>1 DEF ReviewInv
  <2> QED BY <2>1, <2>2, MadeReviewed
<1>4. Shapes'
  BY <1>2, <1>3 DEF ReviewInv, Shapes, IsSession
<1>5. \A u \in Tab : /\ alone'[u] > 0 => Undisturbed(u)'
                     /\ alone'[u] = 2 => FromItsPage(u)'
  BY <1>1, AnswerKeeps
<1> QED BY <1>3, <1>4, <1>5 DEF ReviewInv

LEMMA SendStep ==
    ASSUME ReviewInv, NEW t \in Tab, NEW at \in Url,
           NEW post \in {"get", "restart", "back", "submit"}, Send(t, at, post)
    PROVE  ReviewInv'
<1>1. /\ request[t] = Idle
      /\ url' = [url EXCEPT ![t] = at]
      /\ request' = [request EXCEPT ![t] = [post |-> post, loaded |-> session, stale |-> stale]]
      /\ page' = [page EXCEPT ![t] = IF at = url[t] THEN @ ELSE Closed]
      /\ alone' = [u \in Tab |-> IF u # t \/ \E v \in Tab \ {t} : request[v] # Idle THEN 0
                                ELSE IF alone[t] = 2 THEN 2 ELSE alone[t] + 1]
      /\ UNCHANGED <<session, stale, made>>
      /\ post = "submit" => at = url[t] /\ page[t] # Closed
  BY DEF Send
<1>2. /\ url'[t] = at /\ page'[t] = (IF at = url[t] THEN page[t] ELSE Closed)
      /\ request'[t] = [post |-> post, loaded |-> session, stale |-> stale]
      /\ request'[t] # Idle
      /\ \A u \in Tab \ {t} : request'[u] = request[u]
  BY <1>1 DEF ReviewInv, Shapes, Idle
<1>3. Shapes'
  <2>1. IsRequest(request'[t])
    BY <1>2 DEF IsRequest, ReviewInv, Shapes
  <2>2. alone' \in [Tab -> 0 .. 2] /\ url' \in [Tab -> Url]
    BY <1>1 DEF ReviewInv, Shapes
  <2> QED BY <1>1, <1>2, <2>1, <2>2 DEF ReviewInv, Shapes, IsSession
<1>4. ASSUME alone'[t] > 0 PROVE Undisturbed(t)'
  <2>1. \A v \in Tab \ {t} : request[v] = Idle
    BY <1>1, <1>4
  <2> QED BY <1>1, <1>2, <2>1 DEF Undisturbed
<1>5. ASSUME alone'[t] = 2 PROVE FromItsPage(t)'
  <2>1. CASE post = "submit"
    <3>1. alone[t] > 0
      BY <1>1, <1>5 DEF ReviewInv, Shapes
    <3>2. page[t] = session[WizardOf(t)]
      BY <1>1, <2>1, <3>1 DEF ReviewInv, Undisturbed
    <3>3. WizardOf(t)' = WizardOf(t)
      BY <1>1, <1>2, <2>1 DEF WizardOf
    <3> QED BY <1>1, <1>2, <2>1, <3>2, <3>3 DEF FromItsPage
  <2>2. CASE post # "submit"
    BY <1>2, <2>2 DEF FromItsPage
  <2> QED BY <2>1, <2>2
<1>6. \A u \in Tab : alone'[u] \in 0 .. 2 /\ (u # t => alone'[u] = 0)
  BY <1>1, <1>3 DEF Shapes
<1>7. \A u \in Tab : /\ alone'[u] > 0 => Undisturbed(u)'
                     /\ alone'[u] = 2 => FromItsPage(u)'
  BY <1>4, <1>5, <1>6
<1> QED BY <1>1, <1>3, <1>7 DEF ReviewInv

LEMMA OtherStep ==
    ASSUME ReviewInv, (\E w \in Wizard : Expire(w)) \/ Elsewhere \/ UNCHANGED vars
    PROVE  ReviewInv'
<1>1. /\ UNCHANGED <<session, url, page, request, made, alone>>
      /\ stale' = stale \/ \A t \in Tab : request[t] = Idle
  BY DEF Expire, Elsewhere, vars
<1>2. Shapes'
  BY <1>1 DEF ReviewInv, Shapes, IsSession
<1>3. \A t \in Tab : /\ Undisturbed(t) => Undisturbed(t)'
                     /\ FromItsPage(t) => FromItsPage(t)'
  BY <1>1 DEF Undisturbed, FromItsPage, WizardOf
<1> QED BY <1>1, <1>2, <1>3 DEF ReviewInv

LEMMA ReviewStep == ReviewInv /\ [Next]_vars => ReviewInv'
BY ViewStep, SendStep, OtherStep DEF Next, Views

LEMMA ReviewInit == Init => ReviewInv
<1> SUFFICES ASSUME Init PROVE ReviewInv
  OBVIOUS
<1>1. Shapes
  BY DEF Init, Shapes, IsSession, IsRequest, Url, Items
<1>2. \A t \in Tab : alone[t] = 0
  BY DEF Init
<1>3. Items(made) = {}
  BY DEF Init, Items
<1> QED BY <1>1, <1>2, <1>3 DEF ReviewInv

\* Whatever other tabs, users and the clock do, what a tab creates in two requests
\* that nobody's overlapped or came between is what its page showed
\* (CircuitWizardView, ClosureCableWizardView).
THEOREM ReviewedIsMade == Spec => []CreatedAsReviewed
<1>1. ReviewInv => CreatedAsReviewed
  BY DEF ReviewInv, Items, Reviewed, CreatedAsReviewed
<1> QED BY <1>1, ReviewInit, ReviewStep, PTL DEF Spec

(***************************************************************************)
(* What is created is whole.                                               *)
(***************************************************************************)

\* A state of the circuit wizard holds what the steps before the present one took.
CircuitRight(state) ==
    /\ "step" \in DOMAIN state /\ state.step \in 1 .. 4
    /\ state.step > 1 =>
          /\ {"count", "status"} \subseteq DOMAIN state
          /\ [count |-> state.count, status |-> state.status] \in CircuitForm
    /\ state.step > 2 =>
          /\ {"groups", "incomplete"} \subseteq DOMAIN state
          /\ state.incomplete \in BOOLEAN
          /\ state.groups # <<>>
          /\ \A g \in Range(state.groups) : Fits(state.count, state.status, state.incomplete, g)
    /\ state.step = 4 => "selected" \in DOMAIN state /\ state.selected \in DOMAIN state.groups

CableRight(state) ==
    /\ "step" \in DOMAIN state /\ state.step \in 1 .. 3
    /\ state.step > 1 =>
          /\ {"device", "far"} \subseteq DOMAIN state
          /\ state.device \in Device /\ state.far \in Device \ {state.device}

StateRight(w, state) ==
    IF w = "circuit" THEN CircuitRight(state) ELSE CableRight(state)

SessionRight(s) == \A w \in Wizard : StateRight(w, s[w])

\* Every circuit created is over assigned paths that fit it and no other has.
WholeMade ==
    \A i \in DOMAIN made :
        LET what == made[i].what IN
        /\ made[i].wizard \in Wizard
        /\ made[i].wizard = "cable" => Cardinality(what) = 2
        /\ made[i].wizard = "circuit" =>
              /\ \E incomplete \in BOOLEAN : Fits(what.count, what.status, incomplete, what.paths)
              /\ Range(what.paths) \subseteq assigned
              /\ \A j \in DOMAIN made \ {i} :
                    made[j].wizard = "circuit" => Range(what.paths) \cap Range(made[j].what.paths) = {}

WholeInv ==
    /\ SessionRight(session)
    /\ \A t \in Tab : request[t] # Idle => SessionRight(request[t].loaded)
    /\ WholeMade

LEMMA UpdateFacts ==
    ASSUME NEW state, NEW entries
    PROVE  /\ DOMAIN Update(state, entries) = DOMAIN state \cup DOMAIN entries
           /\ \A x \in DOMAIN entries : Update(state, entries)[x] = entries[x]
           /\ \A x \in DOMAIN state \ DOMAIN entries : Update(state, entries)[x] = state[x]
BY DEF Update

LEMMA StateIsRight ==
    ASSUME Shapes, NEW t \in Tab, request[t] # Idle, SessionRight(request[t].loaded)
    PROVE  StateRight(WizardOf(t), State(t))
<1>1. StateRight(WizardOf(t), Empty)
  BY DEF StateRight, CircuitRight, CableRight, Empty
<1> QED BY <1>1, WizardKnown DEF State, SessionRight

LEMMA AnswerRight ==
    ASSUME Shapes, NEW t \in Tab, request[t] # Idle, SessionRight(session),
           \A u \in Tab : request[u] # Idle => SessionRight(request[u].loaded),
           NEW state, NEW shown, NEW touched, Answer(t, state, shown, touched),
           touched => StateRight(WizardOf(t), state)
    PROVE  /\ SessionRight(session')
           /\ \A u \in Tab : request'[u] # Idle => SessionRight(request'[u].loaded)
<1>1. SessionRight(session')
  <2>1. CASE touched
    <3>1. IsSession(request[t].loaded) /\ WizardOf(t) \in Wizard
      BY WizardKnown DEF Shapes, IsRequest
    <3>2. session' = [request[t].loaded EXCEPT ![WizardOf(t)] = state]
      BY <2>1 DEF Answer
    <3>3. \A v \in Wizard : session'[v] = IF v = WizardOf(t) THEN state ELSE request[t].loaded[v]
      BY <3>1, <3>2, SessionSet
    <3> QED BY <2>1, <3>3 DEF SessionRight
  <2>2. CASE ~touched
    BY <2>2 DEF Answer
  <2> QED BY <2>1, <2>2
<1>2. request' = [request EXCEPT ![t] = Idle]
  BY DEF Answer
<1> QED BY <1>1, <1>2 DEF Shapes

LEMMA BackRight ==
    ASSUME NEW w \in Wizard, NEW state, StateRight(w, state), state.step > 1
    PROVE  StateRight(w, [state EXCEPT !.step = @ - 1])
<1> DEFINE before == [state EXCEPT !.step = @ - 1]
<1>1. CASE w = "circuit"
  <2>1. /\ DOMAIN before = DOMAIN state /\ before.step = state.step - 1
        /\ \A x \in DOMAIN state \ {"step"} : before[x] = state[x]
    BY <1>1 DEF StateRight, CircuitRight
  <2> HIDE DEF before
  <2>2. CircuitRight(before)
    BY <1>1, <2>1 DEF StateRight, CircuitRight
  <2> QED BY <1>1, <2>2 DEF StateRight, before
<1>2. CASE w # "circuit"
  <2>1. /\ DOMAIN before = DOMAIN state /\ before.step = state.step - 1
        /\ \A x \in DOMAIN state \ {"step"} : before[x] = state[x]
    BY <1>2 DEF StateRight, CableRight
  <2> HIDE DEF before
  <2>2. CableRight(before)
    BY <1>2, <2>1 DEF StateRight, CableRight
  <2> QED BY <1>2, <2>2 DEF StateRight, before
<1> QED BY <1>1, <1>2

LEMMA BasicsRight ==
    ASSUME NEW state, NEW form \in CircuitForm
    PROVE  CircuitRight(Basics(state, form))
<1>1. DOMAIN form = {"count", "status"} /\ form = [count |-> form.count, status |-> form.status]
  BY WizardsAssumption
<1> DEFINE mid == Update(state, form)
           new == Update(mid, [step |-> 2])
<1>2. /\ {"count", "status"} \subseteq DOMAIN mid
      /\ mid["count"] = form["count"] /\ mid["status"] = form["status"]
  BY <1>1 DEF Update
<1> HIDE DEF mid
<1>3. /\ {"count", "status", "step"} \subseteq DOMAIN new
      /\ new["count"] = form["count"] /\ new["status"] = form["status"] /\ new["step"] = 2
  <2> DEFINE e == [step |-> 2]
  <2>1. DOMAIN e = {"step"} /\ e["step"] = 2
    OBVIOUS
  <2> HIDE DEF e
  <2>2. /\ DOMAIN Update(mid, e) = DOMAIN mid \cup DOMAIN e
        /\ \A x \in DOMAIN e : Update(mid, e)[x] = e[x]
        /\ \A x \in DOMAIN mid \ DOMAIN e : Update(mid, e)[x] = mid[x]
    BY UpdateFacts
  <2>3. new = Update(mid, e)
    BY DEF e
  <2> HIDE DEF new
  <2> QED BY <1>2, <2>1, <2>2, <2>3
<1> HIDE DEF new
<1>4. CircuitRight(new)
  BY <1>1, <1>3 DEF CircuitRight
<1> QED BY <1>4 DEF new, mid, Basics

LEMMA GroupsRight ==
    ASSUME OffersFit, NEW state, CircuitRight(state), state.step = 2,
           NEW f \in FilterForm \cup {NoFilter},
           NEW groups, groups = Offer(state.count, state.status, f), groups # <<>>
    PROVE  CircuitRight(Update(state, [step |-> 3, incomplete |-> f.incomplete,
                                       groups |-> [i \in DOMAIN groups |-> groups[i].paths]]))
<1> DEFINE listed == [i \in DOMAIN groups |-> groups[i].paths]
           e == [step |-> 3, incomplete |-> f.incomplete, groups |-> listed]
           new == Update(state, e)
<1>1. /\ {"count", "status"} \subseteq DOMAIN state
      /\ [count |-> state.count, status |-> state.status] \in CircuitForm
  BY DEF CircuitRight
<1>2. /\ groups \in Seq(Range(groups))
      /\ \A g \in Range(groups) : Fits(state.count, state.status, f.incomplete, g.paths)
  <2> DEFINE form == [count |-> state.count, status |-> state.status]
  <2>1. form.count = state.count /\ form.status = state.status
    OBVIOUS
  <2> HIDE DEF form
  <2>2. form \in CircuitForm
    BY <1>1 DEF form
  <2> QED BY <2>1, <2>2 DEF OffersFit
<1>3. listed # <<>> /\ \A g \in Range(listed) : Fits(state.count, state.status, f.incomplete, g)
  <2>1. 1 \in DOMAIN groups
    BY <1>2
  <2>2. listed # <<>>
    BY <2>1
  <2>3. \A i \in DOMAIN listed : groups[i] \in Range(groups) /\ listed[i] = groups[i].paths
    BY DEF Range
  <2> HIDE DEF listed
  <2> QED BY <1>2, <2>2, <2>3 DEF Range
<1>4. f.incomplete \in BOOLEAN
  <2>1. NoFilter.incomplete = FALSE
    BY DEF NoFilter
  <2> QED BY <2>1, WizardsAssumption
<1> HIDE DEF listed
<1>5. /\ DOMAIN e = {"step", "incomplete", "groups"}
      /\ e["step"] = 3 /\ e["incomplete"] = f.incomplete /\ e["groups"] = listed
  OBVIOUS
<1> HIDE DEF e
<1>6. /\ DOMAIN new = DOMAIN state \cup DOMAIN e
      /\ \A x \in DOMAIN e : new[x] = e[x]
      /\ \A x \in DOMAIN state \ DOMAIN e : new[x] = state[x]
  BY UpdateFacts
<1> HIDE DEF new
<1>7. /\ {"step", "count", "status", "incomplete", "groups"} \subseteq DOMAIN new
      /\ new["step"] = 3 /\ new["incomplete"] = f.incomplete /\ new["groups"] = listed
      /\ new["count"] = state["count"] /\ new["status"] = state["status"]
  BY <1>1, <1>5, <1>6
<1>8. CircuitRight(new)
  BY <1>1, <1>3, <1>4, <1>7 DEF CircuitRight
<1> QED BY <1>8 DEF new, e, listed

LEMMA SelectRight ==
    ASSUME NEW state, CircuitRight(state), state.step = 3, NEW i \in DOMAIN state.groups
    PROVE  CircuitRight(Update(state, [step |-> 4, selected |-> i]))
<1> DEFINE e == [step |-> 4, selected |-> i]
           new == Update(state, e)
<1>1. DOMAIN e = {"step", "selected"} /\ e["step"] = 4 /\ e["selected"] = i
  OBVIOUS
<1> HIDE DEF e
<1>2. /\ DOMAIN new = DOMAIN state \cup DOMAIN e
      /\ \A x \in DOMAIN e : new[x] = e[x]
      /\ \A x \in DOMAIN state \ DOMAIN e : new[x] = state[x]
  BY UpdateFacts
<1> HIDE DEF new
<1>3. {"count", "status", "incomplete", "groups"} \subseteq DOMAIN state
  BY DEF CircuitRight
<1>4. /\ {"step", "count", "status", "incomplete", "groups", "selected"} \subseteq DOMAIN new
      /\ new["step"] = 4 /\ new["selected"] = i /\ new["groups"] = state["groups"]
      /\ new["count"] = state["count"] /\ new["status"] = state["status"]
      /\ new["incomplete"] = state["incomplete"]
  BY <1>1, <1>2, <1>3
<1>5. CircuitRight(new)
  BY <1>4 DEF CircuitRight
<1> QED BY <1>5 DEF new, e

LEMMA FarRight ==
    ASSUME NEW state, CableRight(state), NEW near \in Device, NEW far \in Device \ {near}
    PROVE  CableRight(Update(state, [step |-> 2, device |-> near, far |-> far]))
<1> DEFINE e == [step |-> 2, device |-> near, far |-> far]
           new == Update(state, e)
<1>1. /\ DOMAIN e = {"step", "device", "far"}
      /\ e["step"] = 2 /\ e["device"] = near /\ e["far"] = far
  OBVIOUS
<1> HIDE DEF e
<1>2. /\ DOMAIN new = DOMAIN state \cup DOMAIN e
      /\ \A x \in DOMAIN e : new[x] = e[x]
  BY UpdateFacts
<1> HIDE DEF new
<1>3. CableRight(new)
  BY <1>1, <1>2 DEF CableRight
<1> QED BY <1>3 DEF new, e

\* Whatever a view stores makes sense to the next step.
LEMMA ViewRight ==
    ASSUME OffersFit, Shapes, NEW t \in Tab, Views(t), SessionRight(request[t].loaded)
    PROVE  \E state, shown, touched : /\ Answer(t, state, shown, touched)
                                     /\ StateRight(WizardOf(t), state)
<1> DEFINE Right(state) == StateRight(WizardOf(t), state)
           Done == \E state, shown, touched : Answer(t, state, shown, touched) /\ Right(state)
<1> SUFFICES Done
  OBVIOUS
<1>1. request[t] # Idle /\ WizardOf(t) \in Wizard
  BY WizardKnown DEF Views, Get, Restart, Back, ProcessStep1, ProcessStep2, ProcessStep3, ProcessStep4,
         CableStep1, CableStep2, CableStep3, Submit, Serving
<1>2. Right(State(t))
  BY <1>1, StateIsRight
<1>3. Right(Empty)
  BY DEF StateRight, CircuitRight, CableRight, Empty
<1>4. Keep(t) => Done
  BY <1>2 DEF Keep
<1>5. \A state : Set(t, state) /\ Right(state) => Done
  BY DEF Set
<1> HIDE DEF Done
<1>6. CASE Get(t)
  BY <1>4, <1>6 DEF Get
<1>7. CASE Restart(t)
  BY <1>3, <1>7 DEF Restart, Done
<1>8. CASE Back(t)
  <2>1. ASSUME State(t).step > 1 PROVE Right([State(t) EXCEPT !.step = @ - 1])
    BY <1>1, <1>2, <2>1, BackRight
  <2> HIDE DEF Right
  <2> QED BY <1>2, <1>4, <1>5, <1>8, <2>1 DEF Back
<1>9. CASE ProcessStep1(t)
  <2>1. \A form \in CircuitForm : Right(Basics(State(t), form))
    BY <1>9, BasicsRight DEF ProcessStep1, Submit, StateRight
  <2> HIDE DEF Right
  <2> QED BY <1>4, <1>5, <1>9, <2>1 DEF ProcessStep1
<1>10. CASE ProcessStep2(t)
  <2>1. CircuitRight(State(t)) /\ State(t).step = 2 /\ WizardOf(t) = "circuit"
    BY <1>2, <1>10 DEF ProcessStep2, Submit, StateRight
  <2>2. PICK f \in FilterForm \cup {NoFilter} :
           LET groups == Offer(State(t).count, State(t).status, f) IN
           IF groups = <<>> THEN Keep(t)
           ELSE Set(t, Update(State(t), [step |-> 3, incomplete |-> f.incomplete,
                                         groups |-> [i \in DOMAIN groups |-> groups[i].paths]]))
    BY <1>10 DEF ProcessStep2
  <2> DEFINE groups == Offer(State(t).count, State(t).status, f)
             new == Update(State(t), [step |-> 3, incomplete |-> f.incomplete,
                                      groups |-> [i \in DOMAIN groups |-> groups[i].paths]])
  <2>3. groups # <<>> => CircuitRight(new)
    BY <2>1, GroupsRight
  <2>4. IF groups = <<>> THEN Keep(t) ELSE Set(t, new)
    BY <2>2
  <2> HIDE DEF groups, new
  <2>5. groups # <<>> => Right(new)
    BY <2>1, <2>3 DEF StateRight
  <2> HIDE DEF Right
  <2> QED BY <1>4, <1>5, <2>4, <2>5
<1>11. CASE ProcessStep3(t)
  <2>1. CircuitRight(State(t)) /\ State(t).step = 3 /\ WizardOf(t) = "circuit"
    BY <1>2, <1>11 DEF ProcessStep3, Submit, StateRight
  <2>2. \A i \in DOMAIN State(t).groups : Right(Update(State(t), [step |-> 4, selected |-> i]))
    BY <2>1, SelectRight DEF StateRight
  <2> HIDE DEF Right
  <2> QED BY <1>4, <1>5, <1>11, <2>2 DEF ProcessStep3
<1>12. CASE ProcessStep4(t)
  BY <1>3, <1>4, <1>12 DEF ProcessStep4, Done
<1>13. CASE CableStep1(t)
  <2>1. CableRight(State(t)) /\ WizardOf(t) = "cable" /\ NearDevice(t) \in Device
    BY <1>2, <1>13 DEF CableStep1, Submit, StateRight, Shapes, Url, WizardOf, NearDevice
  <2>2. \A far \in FarDevice(t) :
           Right(Update(State(t), [step |-> 2, device |-> NearDevice(t), far |-> far]))
    BY <2>1, FarRight DEF StateRight, FarDevice
  <2> HIDE DEF Right
  <2> QED BY <1>4, <1>5, <1>13, <2>2 DEF CableStep1
<1>14. CASE CableStep2(t)
  <2>1. CableRight(State(t)) /\ State(t).step = 2 /\ WizardOf(t) = "cable"
    BY <1>2, <1>14 DEF CableStep2, Submit, StateRight
  <2>2. Right([State(t) EXCEPT !.step = 3])
    BY <2>1 DEF CableRight, StateRight
  <2> HIDE DEF Right
  <2> QED BY <1>4, <1>5, <1>14, <2>2 DEF CableStep2
<1>15. CASE CableStep3(t)
  BY <1>3, <1>15 DEF CableStep3, CableOf, Done
<1> QED BY <1>6, <1>7, <1>8, <1>9, <1>10, <1>11, <1>12, <1>13, <1>14, <1>15 DEF Views

LEMMA PairCardinality ==
    ASSUME NEW a, NEW b, a # b
    PROVE  Cardinality({a, b}) = 2
<1>1. IsFiniteSet({a}) /\ Cardinality({a}) = 1
  BY FS_Singleton
<1>2. Cardinality({a} \cup {b}) = Cardinality({a}) + 1
  BY <1>1, FS_AddElement
<1>3. {a, b} = {a} \cup {b}
  OBVIOUS
<1> QED BY <1>1, <1>2, <1>3

\* What the views and the others do to the assignments and to what is created.
Made(what) ==
    /\ made' = Append(made, what)
    /\ \/ /\ what.wizard = "cable" /\ Cardinality(what.what) = 2
          /\ assigned' = assigned
       \/ /\ what.wizard = "circuit"
          /\ \E incomplete \in BOOLEAN :
                Fits(what.what.count, what.what.status, incomplete, what.what.paths)
          /\ Range(what.what.paths) \cap assigned = {}
          /\ assigned' = assigned \cup Range(what.what.paths)

LEMMA ViewMakes ==
    ASSUME Shapes, NEW t \in Tab, Views(t), SessionRight(request[t].loaded)
    PROVE  \/ UNCHANGED <<made, assigned>>
           \/ \E what : Made(what)
<1>1. CASE ProcessStep4(t) /\ ~UNCHANGED <<made, assigned>>
  <2> DEFINE state == State(t)
             circuit == CircuitToMake(state)
             what == [wizard |-> "circuit", what |-> circuit, alone |-> alone[t] = 2,
                      shown |-> IF Fields(t) THEN CircuitOf(page[t]) ELSE Closed]
  <2>1. CircuitRight(state) /\ state.step = 4
    BY <1>1, StateIsRight DEF ProcessStep4, Submit, Serving, StateRight
  <2>2. /\ ~Refused(circuit.count, circuit.paths, state.incomplete)
        /\ assigned' = assigned \cup Range(circuit.paths)
        /\ made' = Append(made, what)
    BY <1>1 DEF ProcessStep4, picker
  <2>3. /\ circuit.count = state.count /\ circuit.status = state.status
        /\ circuit.paths = state.groups[state.selected]
    BY DEF CircuitToMake, CircuitOf
  <2>4. what.wizard = "circuit" /\ what.what = circuit
    OBVIOUS
  <2> HIDE DEF what, circuit, state
  <2>5. circuit.paths \in Range(state.groups)
    BY <2>1, <2>3 DEF CircuitRight, Range
  <2>6. state.incomplete \in BOOLEAN
        /\ Fits(circuit.count, circuit.status, state.incomplete, circuit.paths)
    BY <2>1, <2>3, <2>5 DEF CircuitRight
  <2>7. Range(circuit.paths) \cap assigned = {}
    BY <2>2 DEF Refused
  <2> QED BY <2>2, <2>4, <2>6, <2>7 DEF Made
<1>2. CASE CableStep3(t)
  <2> DEFINE what == [wizard |-> "cable", what |-> CableOf(t, State(t)), alone |-> alone[t] = 2,
                      shown |-> IF Fields(t) THEN CableOf(t, page[t]) ELSE Closed]
  <2>1. CableRight(State(t)) /\ State(t).step = 3 /\ WizardOf(t) = "cable"
    BY <1>2, StateIsRight DEF CableStep3, Submit, Serving, StateRight
  <2>2. NearDevice(t) # State(t).far
    <3>1. State(t) = request[t].loaded.cable /\ ~Dropped(t)
      BY <2>1, StateOfSession
    <3>2. "device" \in DOMAIN State(t) /\ State(t).far # State(t).device
      BY <2>1 DEF CableRight
    <3> QED BY <2>1, <3>1, <3>2 DEF Dropped
  <2>3. Cardinality(what.what) = 2 /\ what.wizard = "cable"
    BY <2>2, PairCardinality DEF CableOf
  <2>4. made' = Append(made, what) /\ assigned' = assigned
    BY <1>2 DEF CableStep3, picker
  <2> HIDE DEF what
  <2> QED BY <2>3, <2>4 DEF Made
<1>3. \/ Get(t) \/ Restart(t) \/ Back(t) \/ ProcessStep1(t) \/ ProcessStep2(t) \/ ProcessStep3(t)
      \/ CableStep1(t) \/ CableStep2(t)
      => UNCHANGED <<made, assigned>>
  BY DEF Get, Restart, Back, ProcessStep1, ProcessStep2, ProcessStep3, CableStep1, CableStep2, picker
<1> QED BY <1>1, <1>2, <1>3 DEF Views

LEMMA MadeStep ==
    ASSUME made \in Seq(Items(made)), WholeMade,
           \/ made' = made /\ assigned \subseteq assigned'
           \/ \E what : Made(what)
    PROVE  WholeMade'
<1>1. CASE made' = made /\ assigned \subseteq assigned'
  BY <1>1 DEF WholeMade
<1>2. ASSUME NEW what, Made(what) PROVE WholeMade'
  <2> DEFINE n == Len(made)
  <2>1. /\ n \in Nat /\ DOMAIN made = 1 .. n /\ DOMAIN made' = 1 .. n + 1
        /\ \A i \in 1 .. n : made'[i] = made[i]
        /\ made'[n + 1] = what
    <3>1. made' = Append(made, what) /\ made \in Seq(Items(made) \cup {what})
      BY <1>2 DEF Made
    <3> QED BY <3>1
  <2> HIDE DEF n
  <2>2. /\ what.wizard \in Wizard
        /\ what.wizard = "cable" => Cardinality(what.what) = 2
        /\ what.wizard = "circuit" =>
              /\ \E incomplete \in BOOLEAN :
                    Fits(what.what.count, what.what.status, incomplete, what.what.paths)
              /\ Range(what.what.paths) \subseteq assigned'
              /\ Range(what.what.paths) \cap assigned = {}
        /\ assigned \subseteq assigned'
    BY <1>2 DEF Made, Wizard
  <2>3. \A i \in 1 .. n : made[i].wizard = "circuit" => Range(made[i].what.paths) \subseteq assigned
    BY <2>1 DEF WholeMade
  <2> SUFFICES ASSUME NEW i \in DOMAIN made'
               PROVE  LET w == made'[i].what IN
                      /\ made'[i].wizard \in Wizard
                      /\ made'[i].wizard = "cable" => Cardinality(w) = 2
                      /\ made'[i].wizard = "circuit" =>
                            /\ \E incomplete \in BOOLEAN :
                                  Fits(w.count, w.status, incomplete, w.paths)
                            /\ Range(w.paths) \subseteq assigned'
                            /\ \A j \in DOMAIN made' \ {i} :
                                  made'[j].wizard = "circuit"
                                  => Range(w.paths) \cap Range(made'[j].what.paths) = {}
    BY DEF WholeMade
  <2>4. CASE i = n + 1
    BY <2>1, <2>2, <2>3, <2>4
  <2>5. CASE i \in 1 .. n
    <3>1. i \in DOMAIN made /\ made'[i] = made[i]
      BY <2>1, <2>5
    <3>2. /\ made[i].wizard \in Wizard
          /\ made[i].wizard = "cable" => Cardinality(made[i].what) = 2
          /\ made[i].wizard = "circuit" =>
                /\ \E incomplete \in BOOLEAN :
                      Fits(made[i].what.count, made[i].what.status, incomplete, made[i].what.paths)
                /\ Range(made[i].what.paths) \subseteq assigned
                /\ \A j \in DOMAIN made \ {i} :
                      made[j].wizard = "circuit"
                      => Range(made[i].what.paths) \cap Range(made[j].what.paths) = {}
      BY <3>1 DEF WholeMade
    <3>3. made[i].wizard = "circuit" /\ what.wizard = "circuit"
          => Range(made[i].what.paths) \cap Range(what.what.paths) = {}
      BY <2>2, <3>2
    <3>4. \A j \in DOMAIN made' \ {i} :
             \/ j \in DOMAIN made \ {i} /\ made'[j] = made[j]
             \/ made'[j] = what
      BY <2>1
    <3> QED BY <2>2, <3>1, <3>2, <3>3, <3>4
  <2> QED BY <2>1, <2>4, <2>5
<1> QED BY <1>1, <1>2

LEMMA WholeStep ==
    ASSUME OffersFit, ReviewInv, WholeInv, [Next]_vars
    PROVE  WholeInv'
<1> USE DEF WholeInv
<1>1. Shapes
  BY DEF ReviewInv
<1>2. ASSUME NEW t \in Tab, Views(t) PROVE WholeInv'
  <2>1. request[t] # Idle
    BY <1>2 DEF Views, Get, Restart, Back, ProcessStep1, ProcessStep2, ProcessStep3, ProcessStep4,
           CableStep1, CableStep2, CableStep3, Submit, Serving
  <2>2. PICK state, shown, touched : /\ Answer(t, state, shown, touched)
                                     /\ StateRight(WizardOf(t), state)
    BY <1>1, <1>2, <2>1, ViewRight
  <2>3. /\ SessionRight(session')
        /\ \A u \in Tab : request'[u] # Idle => SessionRight(request'[u].loaded)
    BY <1>1, <2>1, <2>2, AnswerRight
  <2>4. WholeMade'
    <3>1. made \in Seq(Items(made))
      BY <1>1 DEF Shapes
    <3>2. UNCHANGED <<made, assigned>> \/ \E what : Made(what)
      BY <1>1, <1>2, <2>1, ViewMakes
    <3> QED BY <3>1, <3>2, MadeStep
  <2> QED BY <2>3, <2>4
<1>3. ASSUME NEW t \in Tab, NEW at \in Url,
             NEW post \in {"get", "restart", "back", "submit"}, Send(t, at, post)
      PROVE  WholeInv'
  <2>1. /\ request' = [request EXCEPT ![t] = [post |-> post, loaded |-> session, stale |-> stale]]
        /\ UNCHANGED <<session, made, assigned>>
    BY <1>3 DEF Send, picker
  <2>2. \A u \in Tab : request'[u] = request[u] \/ request'[u].loaded = session
    BY <1>1, <2>1 DEF Shapes
  <2> QED BY <2>1, <2>2 DEF WholeMade
<1>4. ASSUME (\E w \in Wizard : Expire(w)) \/ Elsewhere \/ UNCHANGED vars
      PROVE  WholeInv'
  <2>1. UNCHANGED <<session, request, made>> /\ assigned \subseteq assigned'
    BY <1>4 DEF Expire, Elsewhere, AssignElsewhere, ReportFault, Analyze, picker, vars
  <2>2. WholeMade'
    BY <1>1, <2>1, MadeStep DEF Shapes
  <2> QED BY <2>1, <2>2
<1> QED BY <1>2, <1>3, <1>4 DEF Next, Views

LEMMA WholeInit == Init => WholeInv
<1> SUFFICES ASSUME Init PROVE WholeInv
  OBVIOUS
<1>1. SessionRight(session)
  BY DEF Init, SessionRight, StateRight, CircuitRight, CableRight, Empty
<1>2. WholeMade
  BY DEF Init, WholeMade
<1> QED BY <1>1, <1>2 DEF WholeInv, Init

\* As long as the picker offers groups that fit what was asked (which TLC checks of
\* it), however tabs, double submits and stale sessions interfere, a circuit is
\* created whole, over fiber no other has, and a cable between two devices
\* (CircuitWizardView, ClosureCableWizardView, assign_paths).
THEOREM MadeWhole == Spec /\ []OffersFit => []CreatedWhole
<1>1. WholeInv => CreatedWhole
  BY DEF WholeInv, WholeMade, CreatedWhole, Wizard
<1>2. Spec => []ReviewInv
  BY ReviewInit, ReviewStep, PTL DEF Spec
<1>3. OffersFit /\ ReviewInv /\ WholeInv /\ [Next]_vars => WholeInv'
  BY WholeStep
<1> QED BY <1>1, <1>2, <1>3, WholeInit, PTL DEF Spec

(***************************************************************************)
(* Types.                                                                  *)
(***************************************************************************)

BoundInv ==
    /\ assigned \subseteq Path /\ faults \subseteq FaultSite /\ defective \subseteq Path
    /\ stale \subseteq Wizard
    /\ \A t \in Tab : request[t] # Idle => request[t].stale \subseteq Wizard
    /\ events \in 0 .. MaxEvent /\ Len(made) <= MaxMade

LEMMA BoundStep ==
    ASSUME ReviewInv, WholeInv, BoundInv, [Next]_vars
    PROVE  BoundInv'
<1> USE DEF BoundInv
<1>1. Shapes
  BY DEF ReviewInv
<1>2. ASSUME NEW t \in Tab, Views(t) PROVE BoundInv'
  <2>1. request[t] # Idle /\ UNCHANGED <<faults, defective>>
    BY <1>2 DEF Views, Get, Restart, Back, ProcessStep1, ProcessStep2, ProcessStep3, ProcessStep4,
           CableStep1, CableStep2, CableStep3, Submit, Serving, picker
  <2>2. PICK state, shown, touched : Answers(t, state, shown, touched)
    BY <1>2, ViewAnswers
  <2>3. /\ stale' \subseteq Wizard /\ events' = events
        /\ request' = [request EXCEPT ![t] = Idle]
    BY <2>1, <2>2 DEF Answers, Answer
  <2>4. \A u \in Tab : request'[u] # Idle => request'[u].stale \subseteq Wizard
    BY <1>1, <2>3 DEF Shapes
  <2>5. assigned' \subseteq Path
    <3>1. UNCHANGED <<made, assigned>> \/ \E what : Made(what)
      BY <1>1, <1>2, <2>1, ViewMakes DEF WholeInv
    <3>2. \A n, status, incomplete, paths : Fits(n, status, incomplete, paths) => Range(paths) \subseteq Path
      BY PickerAssumption DEF Fits
    <3> QED BY <3>1, <3>2 DEF Made
  <2>6. Len(made') <= MaxMade
    <3>1. CASE made' = made
      BY <3>1
    <3>2. CASE made' # made
      <4>1. Len(made) < MaxMade /\ \E what : made' = Append(made, what)
        BY <1>2, <3>2 DEF Views, Get, Restart, Back, ProcessStep1, ProcessStep2, ProcessStep3,
               ProcessStep4, CableStep1, CableStep2, CableStep3
      <4>2. PICK what : made' = Append(made, what)
        BY <4>1
      <4>3. made \in Seq(Items(made) \cup {what})
        BY <1>1 DEF Shapes
      <4>4. Len(made') = Len(made) + 1 /\ Len(made) \in Nat
        BY <4>2, <4>3
      <4> QED BY <4>1, <4>4, WizardsAssumption
    <3> QED BY <3>1, <3>2
  <2> QED BY <2>1, <2>3, <2>4, <2>5, <2>6
<1>3. ASSUME NEW t \in Tab, NEW at \in Url,
             NEW post \in {"get", "restart", "back", "submit"}, Send(t, at, post)
      PROVE  BoundInv'
  <2>1. /\ request' = [request EXCEPT ![t] = [post |-> post, loaded |-> session, stale |-> stale]]
        /\ UNCHANGED <<assigned, faults, defective, stale, made>>
        /\ events' \in 0 .. MaxEvent
    BY <1>3, WizardsAssumption DEF Send, Event, picker
  <2>2. \A u \in Tab : request'[u] = request[u] \/ request'[u].stale = stale
    BY <1>1, <2>1 DEF Shapes
  <2> QED BY <2>1, <2>2
<1>4. ASSUME NEW w \in Wizard, Expire(w) PROVE BoundInv'
  BY <1>4, WizardsAssumption DEF Expire, Event, picker
<1>5. CASE Elsewhere
  <2>1. UNCHANGED <<stale, request, made>> /\ events' \in 0 .. MaxEvent
    BY <1>5, WizardsAssumption DEF Elsewhere, Event
  <2>2. assigned' \subseteq Path /\ faults' \subseteq FaultSite /\ defective' \subseteq Path
    BY <1>5, WizardsAssumption, PickerAssumption
       DEF Elsewhere, AssignElsewhere, ReportFault, Analyze
  <2> QED BY <2>1, <2>2
<1>6. CASE UNCHANGED vars
  BY <1>6 DEF vars, picker
<1> QED BY <1>2, <1>3, <1>4, <1>5, <1>6 DEF Next, Views

LEMMA BoundInit == Init => BoundInv
BY WizardsAssumption DEF Init, BoundInv

\* The session makes sense to the step it is at whatever requests overwrote it, given
\* a picker whose offers fit (_get_state, _save_state, SessionMiddleware).
THEOREM SessionSensible == Spec /\ []OffersFit => []TypeOK
<1>1. ReviewInv /\ WholeInv /\ BoundInv => TypeOK
  <2> SUFFICES ASSUME ReviewInv, WholeInv, BoundInv PROVE TypeOK
    OBVIOUS
  <2>1. CircuitRight(session.circuit) /\ CableRight(session.cable)
    BY DEF WholeInv, SessionRight, StateRight, Wizard
  <2> QED BY <2>1 DEF TypeOK, ReviewInv, Shapes, BoundInv, CircuitRight, CableRight
<1>2. Spec => []ReviewInv
  BY ReviewInit, ReviewStep, PTL DEF Spec
<1>3. OffersFit /\ ReviewInv /\ WholeInv /\ [Next]_vars => WholeInv'
  BY WholeStep
<1>4. ReviewInv /\ WholeInv /\ BoundInv /\ [Next]_vars => BoundInv'
  BY BoundStep
<1> QED BY <1>1, <1>2, <1>3, <1>4, WholeInit, BoundInit, PTL DEF Spec
=============================================================================
