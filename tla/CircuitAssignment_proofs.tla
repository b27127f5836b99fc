----------------------- MODULE CircuitAssignment_proofs -----------------------
(***************************************************************************)
(* Verdicts, the broken flag and consent, proved for any number of         *)
(* circuits, paths, hop lists, handlers and changes of the plant.          *)
(*                                                                         *)
(* The type invariant holds however the analysis and the requests overlap. *)
(* The others are proved for serial ones, and none of them is inductive    *)
(* alone: what a run or a request has loaded must still be what is stored  *)
(* when it writes (RunFresh, ReqFresh), because nothing else is under way  *)
(* (Alone); a run judges every path it rewrites only if no assignment      *)
(* points at a path that is not stored (RowsReferToPaths); and a new       *)
(* assignment of a live circuit does not replace one only if the rows of a *)
(* live circuit are active (ActiveWhileLive).                              *)
(***************************************************************************)
EXTENDS CircuitAssignment, TLAPS

(***************************************************************************)
(* The operators.                                                          *)
(***************************************************************************)

Fits(row, path) == row.verdict = "ok" <=> row.hops = path.hops /\ ~path.defective

\* One judgement: it fits the path, and moves the assignment only by using up an
\* authorization, between the same end strands.
LEMMA VerdictFits ==
    ASSUME NEW row \in Assignment, NEW path \in StoredPath, NEW authorized \in BOOLEAN
    PROVE  LET v == Verdict(row, path, authorized) IN
           /\ v \in Assignment
           /\ v.active = row.active
           /\ Exists(v)
           /\ Fits(v, path)
           /\ v.hops # row.hops => authorized /\ Reroutable(row, path) /\ v.hops = path.hops
<1> DEFINE v == Verdict(row, path, authorized)
<1>0. /\ row.active \in BOOLEAN /\ row.hops \in Hops /\ row.verdict \in Broken \cup {"ok", "none"}
      /\ path.hops \in Hops /\ path.defective \in BOOLEAN
  BY DEF Assignment, StoredPath
<1>1. CASE path.defective
  <2>1. v = [row EXCEPT !.verdict = "faulted"]
    BY <1>1 DEF Verdict, Reroutable
  <2> QED BY <1>0, <1>1, <2>1 DEF Assignment, Exists, Fits, Broken
<1>2. CASE ~path.defective /\ path.hops = row.hops
  <2>1. v = Accept(row, path)
    BY <1>2 DEF Verdict
  <2> QED BY <1>0, <1>2, <2>1 DEF Accept, Assignment, Exists, Fits
<1>3. CASE ~path.defective /\ path.hops # row.hops /\ authorized /\ Reroutable(row, path)
  <2>1. v = Accept(row, path)
    BY <1>3 DEF Verdict
  <2> QED BY <1>0, <1>3, <2>1 DEF Accept, Assignment, Exists, Fits
<1>4. CASE ~path.defective /\ path.hops # row.hops /\ ~(authorized /\ Reroutable(row, path))
  <2>1. v = [row EXCEPT !.verdict = IF path.hops = Cut THEN "path_lost" ELSE "hops_changed"]
    BY <1>4 DEF Verdict
  <2> QED BY <1>0, <1>4, <2>1 DEF Assignment, Exists, Fits, Broken
<1> QED BY <1>1, <1>2, <1>3, <1>4

\* j is a judgement of rows: those judged fit, the others stay, and none is moved
\* without using up the authorization.
JudgesWell(rows, scope, paths, authorized, j) ==
    /\ j \in [Path -> Assignment]
    /\ \A p \in Path :
         /\ j[p].active = rows[p].active
         /\ Exists(rows[p]) => Exists(j[p])
         /\ Exists(j[p]) => Exists(rows[p]) \/ rows[p].active
         /\ p \in scope /\ rows[p].active => Fits(j[p], paths[p])
         /\ ~(p \in scope /\ rows[p].active) => j[p] = rows[p]
         /\ j[p].hops # rows[p].hops =>
              /\ Consumes(rows, scope, paths, authorized)
              /\ EndStrands[j[p].hops] = EndStrands[rows[p].hops]

LEMMA JudgedFits ==
    ASSUME NEW rows \in [Path -> Assignment], NEW scope \in SUBSET Path,
           NEW paths \in [Path -> StoredPath], NEW authorized \in BOOLEAN
    PROVE  JudgesWell(rows, scope, paths, authorized, Judged(rows, scope, paths, authorized))
<1> DEFINE j == Judged(rows, scope, paths, authorized)
<1>1. ASSUME NEW p \in Path
      PROVE  /\ j[p] \in Assignment
             /\ j[p].active = rows[p].active
             /\ Exists(rows[p]) => Exists(j[p])
             /\ Exists(j[p]) => Exists(rows[p]) \/ rows[p].active
             /\ p \in scope /\ rows[p].active => Fits(j[p], paths[p])
             /\ ~(p \in scope /\ rows[p].active) => j[p] = rows[p]
             /\ j[p].hops # rows[p].hops =>
                  /\ Consumes(rows, scope, paths, authorized)
                  /\ EndStrands[j[p].hops] = EndStrands[rows[p].hops]
  <2>1. rows[p] \in Assignment /\ paths[p] \in StoredPath
    OBVIOUS
  <2>2. CASE p \in scope /\ rows[p].active
    <3>1. j[p] = Verdict(rows[p], paths[p], authorized)
      BY <2>2 DEF Judged
    <3>2. /\ j[p] \in Assignment /\ j[p].active = rows[p].active
          /\ Exists(j[p]) /\ Fits(j[p], paths[p])
          /\ j[p].hops # rows[p].hops =>
               authorized /\ Reroutable(rows[p], paths[p]) /\ j[p].hops = paths[p].hops
      BY <2>1, <3>1, VerdictFits
    <3>3. j[p].hops # rows[p].hops =>
             /\ Consumes(rows, scope, paths, authorized)
             /\ EndStrands[j[p].hops] = EndStrands[rows[p].hops]
      BY <2>2, <3>2 DEF Consumes, Reroutable
    <3> QED BY <2>2, <3>2, <3>3
  <2>3. CASE ~(p \in scope /\ rows[p].active)
    <3>1. j[p] = rows[p]
      BY <2>3 DEF Judged
    <3> QED BY <2>1, <2>3, <3>1
  <2> QED BY <2>2, <2>3
<1>2. j = [p \in Path |-> j[p]]
  BY DEF Judged
<1> HIDE DEF j
<1>3. j \in [Path -> Assignment]
  BY <1>1, <1>2
<1> QED BY <1>1, <1>3 DEF j, JudgesWell

\* A circuit is a record of these fields.
LEMMA CircuitFields ==
    ASSUME NEW cs \in CircuitState
    PROVE  /\ cs.status \in {Live, Decommissioned} /\ cs.broken \in BOOLEAN
           /\ cs.rows \in [Path -> Assignment] /\ cs.authorized \in BOOLEAN
BY DEF CircuitState

\* What is sound about a circuit beside the paths as they are stored.
Sound(cs, paths) ==
    /\ \A p \in Path : Exists(cs.rows[p]) => (cs.rows[p].active <=> cs.status = Live)
    /\ \A p \in Path : cs.rows[p].active => Exists(cs.rows[p])
    /\ \A p \in Path : cs.rows[p].active /\ paths[p].fresh => Fits(cs.rows[p], paths[p])
    /\ HasBroken(cs.rows) => cs.broken

\* FiberCircuit.save by an object that holds the flag as it is stored: a sound
\* circuit stays sound, keeps the paths it refers to, and moves to other hops only
\* by using up its authorization.
LEMMA SaveFits ==
    ASSUME NEW cs \in CircuitState, NEW status \in {Live, Decommissioned},
           NEW broken \in BOOLEAN, NEW paths \in [Path -> StoredPath]
    PROVE  LET after == Save(cs, status, broken, paths) IN
           /\ after \in CircuitState
           /\ Sound(cs, paths) /\ broken = cs.broken => Sound(after, paths)
           /\ \A p \in Path : Exists(after.rows[p]) <=> Exists(cs.rows[p])
           /\ \A p \in Path : after.rows[p].hops # cs.rows[p].hops =>
                 /\ cs.authorized /\ ~after.authorized
                 /\ EndStrands[after.rows[p].hops] = EndStrands[cs.rows[p].hops]
<1> DEFINE after == Save(cs, status, broken, paths)
<1>1. /\ cs.status \in {Live, Decommissioned} /\ cs.broken \in BOOLEAN
      /\ cs.rows \in [Path -> Assignment] /\ cs.authorized \in BOOLEAN
  BY CircuitFields
<1>2. CASE status = cs.status
  <2>1. after = [cs EXCEPT !.broken = broken]
    BY <1>2 DEF Save
  <2>2. after \in CircuitState
    BY <2>1 DEF CircuitState
  <2>3. after.rows = cs.rows /\ after.status = cs.status /\ after.broken = broken
    BY <2>1 DEF CircuitState
  <2> QED BY <2>2, <2>3 DEF Sound
<1>3. CASE status # cs.status /\ status = Decommissioned
  <2>1. after = [cs EXCEPT !.status = status, !.broken = broken, !.rows = Deactivated(@)]
    BY <1>3 DEF Save
  <2>2. /\ after.rows = Deactivated(cs.rows) /\ after.status = Decommissioned
        /\ after.broken = broken /\ after.authorized = cs.authorized
    BY <1>3, <2>1 DEF CircuitState
  <2>3. Deactivated(cs.rows) \in [Path -> Assignment]
    BY <1>1 DEF Deactivated, Assignment
  <2>4. after \in CircuitState
    BY <1>3, <2>1, <2>3 DEF CircuitState
  <2>5. \A p \in Path : /\ ~after.rows[p].active
                        /\ after.rows[p].verdict = cs.rows[p].verdict
                        /\ after.rows[p].hops = cs.rows[p].hops
    BY <1>1, <2>2 DEF Deactivated, Assignment
  <2> QED BY <2>2, <2>4, <2>5 DEF Sound, HasBroken, Exists, Live, Decommissioned
<1>4. CASE status # cs.status /\ status # Decommissioned
  <2> DEFINE back == Activated(cs.rows)
             rows == Judged(back, Path, paths, cs.authorized)
             used == Consumes(back, Path, paths, cs.authorized)
  <2>1. after = Reactivate(cs, broken, paths)
    BY <1>4 DEF Save
  <2>2. /\ after.rows = rows /\ after.status = Live
        /\ after.broken = (IF \E p \in Path : Exists(back[p]) THEN HasBroken(rows) ELSE broken)
        /\ after.authorized = (cs.authorized /\ ~used)
    BY <2>1 DEF Reactivate
  <2>3. back \in [Path -> Assignment]
    BY <1>1 DEF Activated, Assignment, Exists
  <2>4. \A p \in Path : /\ back[p].active = Exists(cs.rows[p])
                        /\ back[p].verdict = cs.rows[p].verdict
                        /\ back[p].hops = cs.rows[p].hops
    BY <1>1 DEF Activated, Assignment
  <2> HIDE DEF back
  <2>5. /\ rows \in [Path -> Assignment]
        /\ \A p \in Path :
             /\ rows[p].active = back[p].active
             /\ Exists(back[p]) => Exists(rows[p])
             /\ Exists(rows[p]) => Exists(back[p]) \/ back[p].active
             /\ back[p].active => Fits(rows[p], paths[p])
             /\ rows[p].hops # back[p].hops =>
                  used /\ EndStrands[rows[p].hops] = EndStrands[back[p].hops]
    <3>1. Path \in SUBSET Path /\ cs.authorized \in BOOLEAN
      BY <1>1
    <3>2. JudgesWell(back, Path, paths, cs.authorized, rows)
      BY <2>3, <3>1, JudgedFits
    <3> HIDE DEF rows, used
    <3> QED BY <3>2 DEF JudgesWell, used
  <2>6. used => cs.authorized
    BY DEF Consumes
  <2> HIDE DEF rows, used
  <2>7. HasBroken(rows) \in BOOLEAN
    BY DEF HasBroken
  <2>8. after \in CircuitState
    <3>1. after = [status |-> after.status, broken |-> after.broken,
                   rows |-> after.rows, authorized |-> after.authorized]
      BY <2>1 DEF Reactivate
    <3>2. after.broken \in BOOLEAN
      BY <2>2, <2>7
    <3> HIDE DEF after
    <3> QED BY <1>1, <2>2, <2>5, <3>1, <3>2 DEF CircuitState
  <2>9. \A p \in Path : Exists(after.rows[p]) <=> Exists(cs.rows[p])
    BY <2>2, <2>4, <2>5 DEF Exists
  <2>10. HasBroken(rows) => \E p \in Path : Exists(back[p])
    BY <2>4, <2>5 DEF HasBroken, Exists
  <2>11. Sound(after, paths)
    BY <2>2, <2>4, <2>5, <2>7, <2>9, <2>10 DEF Sound
  <2>12. \A p \in Path : after.rows[p].hops # cs.rows[p].hops =>
            /\ cs.authorized /\ ~after.authorized
            /\ EndStrands[after.rows[p].hops] = EndStrands[cs.rows[p].hops]
    BY <2>2, <2>4, <2>5, <2>6
  <2> QED BY <2>8, <2>9, <2>11, <2>12
<1> QED BY <1>1, <1>2, <1>3, <1>4

\* sync_circuit_broken keeps the type; by an object that holds the status and the
\* flag as they are stored, it sets the flag and nothing else.
LEMMA SyncFits ==
    ASSUME NEW cs \in CircuitState, NEW loaded \in CircuitState,
           NEW paths \in [Path -> StoredPath]
    PROVE  LET after == SyncBroken(cs, loaded, paths) IN
           /\ after \in CircuitState
           /\ loaded.status = cs.status /\ loaded.broken = cs.broken =>
                after = [cs EXCEPT !.broken = HasBroken(cs.rows)]
<1> DEFINE after == SyncBroken(cs, loaded, paths)
           flag == HasBroken(cs.rows)
<1>1. /\ cs.status \in {Live, Decommissioned} /\ cs.broken \in BOOLEAN
      /\ loaded.status \in {Live, Decommissioned} /\ loaded.broken \in BOOLEAN
  BY CircuitFields
<1>2. flag \in BOOLEAN
  BY DEF HasBroken
<1>3. CASE flag = loaded.broken
  <2>1. after = cs
    BY <1>3 DEF SyncBroken
  <2>2. loaded.broken = cs.broken => cs = [cs EXCEPT !.broken = flag]
    BY <1>3 DEF CircuitState
  <2> QED BY <2>1, <2>2
<1>4. CASE flag # loaded.broken
  <2>1. after = Save(cs, loaded.status, flag, paths)
    BY <1>4 DEF SyncBroken
  <2>2. after \in CircuitState
    BY <1>1, <1>2, <2>1, SaveFits
  <2>3. loaded.status = cs.status => after = [cs EXCEPT !.broken = flag]
    BY <2>1 DEF Save
  <2> QED BY <2>2, <2>3
<1> QED BY <1>3, <1>4

(***************************************************************************)
(* Types.                                                                  *)
(***************************************************************************)

\* What a run carries in each of its steps.
LEMMA RunFields ==
    ASSUME TypeOK
    PROVE  /\ run.phase = "walked" =>
                run.region \in SUBSET Path /\ run.walk \in [Path -> Walked]
           /\ run.phase = "evaluated" =>
                /\ run.region \in SUBSET Path /\ run.scope \in SUBSET Path
                /\ run.written \in [Path -> StoredPath] /\ run.loaded \in [Circuit -> CircuitState]
BY DEF TypeOK, RunState, NoRun

\* What a handler has loaded, by operation.
LEMMA RequestFields ==
    ASSUME TypeOK, NEW r \in Request
    PROVE  LET q == req[r] IN
           /\ q.op = "edit" => /\ q.circuit \in Circuit /\ q.loaded \in CircuitState
                               /\ q.status \in {Live, Decommissioned}
           /\ q.op = "acknowledge" => /\ q.circuit \in Circuit /\ q.loaded \in CircuitState
                                      /\ q.seen \in [Path -> StoredPath]
           /\ q.op = "assign" => /\ q.circuit \in Circuit /\ q.path \in Path
                                 /\ q.defective \in BOOLEAN
<1>1. req[r] \in Busy \cup {Idle}
  BY DEF TypeOK
<1> QED BY <1>1 DEF Busy, Idle

\* Accepting the hops of a path.
LEMMA AcceptFits ==
    ASSUME NEW row \in Assignment, NEW path \in StoredPath
    PROVE  /\ Accept(row, path) \in Assignment
           /\ Accept(row, path).active = row.active
           /\ Accept(row, path).hops = path.hops
           /\ Accept(row, path).verdict = "ok"
BY DEF Accept, Assignment, StoredPath

LEMMA WrittenTyped ==
    ASSUME TypeOK, run.phase = "walked"
    PROVE  Written \in [Path -> StoredPath]
<1>1. run.walk \in [Path -> Walked] /\ stored \in [Path -> StoredPath]
  BY RunFields DEF TypeOK
<1>2. \A p \in Path : Dropped(p) \in StoredPath /\ AsStored(run.walk[p]) \in StoredPath
  BY <1>1 DEF Dropped, AsStored, StoredPath, Walked, Hops
<1> QED BY <1>1, <1>2 DEF Written

LEMMA AfterRunTyped ==
    ASSUME TypeOK, run.phase = "evaluated", NEW c \in Circuit
    PROVE  AfterRun(c) \in CircuitState
<1> DEFINE loaded == run.loaded[c]
           judged == Judged(loaded.rows, run.scope, run.written, loaded.authorized)
           rows == [p \in Path |-> IF judged[p] # loaded.rows[p] THEN judged[p]
                                   ELSE circuit[c].rows[p]]
           used == Consumes(loaded.rows, run.scope, run.written, loaded.authorized)
           cs == [circuit[c] EXCEPT !.rows = rows, !.authorized = @ /\ ~used]
<1>1. /\ loaded \in CircuitState /\ circuit[c] \in CircuitState
      /\ run.scope \in SUBSET Path /\ run.written \in [Path -> StoredPath]
  BY RunFields DEF TypeOK
<1>2. /\ loaded.rows \in [Path -> Assignment] /\ loaded.authorized \in BOOLEAN
      /\ circuit[c].rows \in [Path -> Assignment] /\ circuit[c].authorized \in BOOLEAN
  BY <1>1, CircuitFields
<1>3. JudgesWell(loaded.rows, run.scope, run.written, loaded.authorized, judged)
  BY <1>1, <1>2, JudgedFits
<1>4. judged \in [Path -> Assignment]
  BY <1>3 DEF JudgesWell
<1>5. rows \in [Path -> Assignment]
  <2> HIDE DEF judged
  <2> QED BY <1>2, <1>4
<1>6. cs \in CircuitState
  <2>1. (circuit[c].authorized /\ ~used) \in BOOLEAN
    OBVIOUS
  <2> HIDE DEF rows, used
  <2> QED BY <1>1, <1>5, <2>1 DEF CircuitState
<1>7. SyncBroken(cs, loaded, run.written) \in CircuitState
  <2> HIDE DEF cs
  <2> QED BY <1>1, <1>6, SyncFits
<1> QED BY <1>1, <1>7 DEF AfterRun

\* A handler that answers is idle afterwards, and its circuit is as it wrote it or
\* as it was.
LEMMA WriteTyped ==
    ASSUME TypeOK, NEW r \in Request, NEW c \in Circuit, NEW after \in CircuitState,
           Write(r, c, after)
    PROVE  TypeOK'
<1>1. [circuit EXCEPT ![c] = after] \in [Circuit -> CircuitState]
  BY DEF TypeOK
<1>2. circuit' \in [Circuit -> CircuitState]
  BY <1>1 DEF Write, TypeOK
<1>3. req' \in [Request -> Busy \cup {Idle}]
  BY DEF Write, TypeOK
<1> QED BY <1>2, <1>3 DEF Write, TypeOK

\* A write changes its own circuit, or none.
LEMMA WriteChanges ==
    ASSUME TypeOK, NEW r \in Request, NEW c \in Circuit, NEW after, Write(r, c, after)
    PROVE  \A d \in Circuit : circuit'[d] = circuit[d] \/ (d = c /\ circuit'[d] = after)
<1> DEFINE written == [circuit EXCEPT ![c] = after]
<1>1. circuit' = IF OneActive(written) THEN written ELSE circuit
  BY DEF Write
<1>2. \A d \in Circuit : written[d] = IF d = c THEN after ELSE circuit[d]
  BY DEF TypeOK
<1> HIDE DEF written
<1> QED BY <1>1, <1>2

LEMMA AfterAcknowledgeTyped ==
    ASSUME TypeOK, NEW r \in Request, req[r].op = "acknowledge"
    PROVE  AfterAcknowledge(req[r]) \in CircuitState
<1> DEFINE q == req[r]
           rows == [p \in Path |-> IF p \in Acknowledgeable(q)
                                   THEN Accept(q.loaded.rows[p], q.seen[p])
                                   ELSE circuit[q.circuit].rows[p]]
<1>1. q.circuit \in Circuit /\ q.loaded \in CircuitState /\ q.seen \in [Path -> StoredPath]
  BY RequestFields
<1>2. circuit[q.circuit] \in CircuitState
  BY <1>1 DEF TypeOK
<1>3. q.loaded.rows \in [Path -> Assignment] /\ circuit[q.circuit].rows \in [Path -> Assignment]
  BY <1>1, <1>2, CircuitFields
<1>4. \A p \in Path : Accept(q.loaded.rows[p], q.seen[p]) \in Assignment
  BY <1>1, <1>3, AcceptFits
<1>5. rows \in [Path -> Assignment]
  BY <1>3, <1>4
<1>6. [circuit[q.circuit] EXCEPT !.rows = rows] \in CircuitState
  <2> HIDE DEF rows, q
  <2> QED BY <1>2, <1>5 DEF CircuitState
<1>7. stored \in [Path -> StoredPath]
  BY DEF TypeOK
<1>8. SyncBroken([circuit[q.circuit] EXCEPT !.rows = rows], q.loaded, stored) \in CircuitState
  <2> HIDE DEF rows, q
  <2> QED BY <1>1, <1>6, <1>7, SyncFits
<1> QED BY <1>8 DEF AfterAcknowledge

LEMMA InitTyped == CircuitAssumption /\ Init => TypeOK
<1> SUFFICES ASSUME CircuitAssumption, Init PROVE TypeOK
  OBVIOUS
<1>1. plant \in [Path -> Walked]
  BY DEF Init
<1>2. stored \in [Path -> StoredPath]
  BY <1>1 DEF Init, Unborn, AsStored, StoredPath, Walked, Hops
<1>3. circuit \in [Circuit -> CircuitState]
  BY DEF Init, CircuitState, NoRow, Assignment, Hops
<1> QED BY <1>1, <1>2, <1>3 DEF Init, TypeOK

LEMMA NextTyped == TypeOK /\ [Next]_vars => TypeOK'
<1> SUFFICES ASSUME TypeOK, [Next]_vars PROVE TypeOK'
  OBVIOUS
<1> USE DEF TypeOK
<1>1. CASE UNCHANGED vars
  BY <1>1 DEF vars
<1>2. ASSUME NEW p \in Path, PlantStep(p) PROVE TypeOK'
  <2> PICK walked \in {w \in Walked : w.hops = Cut => ~w.fault} :
        \/ PlantChanges(p, walked)
        \/ \E rest \in Hops : CableDeleted(p, rest, walked) \/ SlackLoopInserted(p, rest, walked)
    BY <1>2 DEF PlantStep
  <2>1. CASE PlantChanges(p, walked)
    BY <2>1 DEF PlantChanges, Change
  <2>2. ASSUME NEW rest \in Hops, LoseHops(p, rest, walked)
        PROVE  stored' \in [Path -> StoredPath] /\ plant' \in [Path -> Walked] /\ changes' \in Nat
    <3> DEFINE row == [stored[p] EXCEPT !.hops = rest, !.fresh = FALSE]
    <3>1. row \in StoredPath
      BY DEF StoredPath
    <3>2. stored' = [stored EXCEPT ![p] = row]
      BY <2>2 DEF LoseHops
    <3>3. stored' \in [Path -> StoredPath]
      BY <3>1, <3>2
    <3> QED BY <2>2, <3>3 DEF LoseHops, Change
  <2>3. ASSUME NEW rest \in Hops, CableDeleted(p, rest, walked) PROVE TypeOK'
    BY <2>2, <2>3 DEF CableDeleted
  <2>4. ASSUME NEW rest \in Hops, SlackLoopInserted(p, rest, walked) PROVE TypeOK'
    <3>1. circuit' \in [Circuit -> CircuitState]
      BY <2>4 DEF SlackLoopInserted, CircuitState
    <3> QED BY <2>2, <2>4, <3>1 DEF SlackLoopInserted
  <2> QED BY <2>1, <2>3, <2>4
<1>3. ASSUME NEW region \in SUBSET Path, RunWalk(region) PROVE TypeOK'
  <2>1. [p \in Path |-> IF p \in region THEN plant[p] ELSE NoFiber] \in [Path -> Walked]
    BY DEF NoFiber, Walked, Hops
  <2>2. run' \in RunState
    BY <1>3, <2>1 DEF RunWalk, RunState
  <2> QED BY <1>3, <2>2 DEF RunWalk
<1>4. CASE RunEvaluate
  <2>1. run.region \in SUBSET Path /\ Written \in [Path -> StoredPath]
    BY <1>4, RunFields, WrittenTyped DEF RunEvaluate
  <2>2. Evaluated \in SUBSET Path
    BY <2>1 DEF Evaluated
  <2>3. run' \in RunState
    BY <1>4, <2>1, <2>2 DEF RunEvaluate, RunState
  <2> QED BY <1>4, <2>3 DEF RunEvaluate
<1>5. ASSUME NEW expired \in SUBSET Circuit, RunCommit(expired) PROVE TypeOK'
  <2> DEFINE after == [c \in Circuit |-> IF c \in expired
                                         THEN [AfterRun(c) EXCEPT !.authorized = FALSE]
                                         ELSE AfterRun(c)]
  <2>1. run.phase = "evaluated" /\ run.written \in [Path -> StoredPath]
    BY <1>5, RunFields DEF RunCommit
  <2>2. \A c \in Circuit : AfterRun(c) \in CircuitState
    BY <2>1, AfterRunTyped
  <2>3. after \in [Circuit -> CircuitState]
    BY <2>2 DEF CircuitState
  <2>4. /\ stored' \in [Path -> StoredPath] /\ circuit' \in [Circuit -> CircuitState]
        /\ run' = NoRun
    <3> HIDE DEF after
    <3>1. /\ stored' = IF OneActive(after) THEN run.written ELSE stored
          /\ circuit' = IF OneActive(after) THEN after ELSE circuit
          /\ run' = NoRun
      BY <1>5 DEF RunCommit, after
    <3> QED BY <2>1, <2>3, <3>1
  <2> QED BY <1>5, <2>4 DEF RunCommit
<1>6. ASSUME NEW r \in Request, NEW c \in Circuit, Arrive(r, c) PROVE TypeOK'
  <2>1. ASSUME NEW q \in Busy, Load(r, q) PROVE TypeOK'
    BY <2>1 DEF Load
  <2>2. ASSUME NEW status \in {Live, Decommissioned}, RequestEdit(r, c, status) PROVE TypeOK'
    BY <2>1, <2>2 DEF RequestEdit, Busy
  <2>3. CASE RequestAcknowledge(r, c)
    BY <2>1, <2>3 DEF RequestAcknowledge, Busy
  <2>4. ASSUME NEW p \in Path, RequestAssign(r, c, p) PROVE TypeOK'
    <3>1. stored[p].defective \in BOOLEAN
      BY DEF StoredPath
    <3> QED BY <2>1, <2>4, <3>1 DEF RequestAssign, Busy
  <2> QED BY <1>6, <2>2, <2>3, <2>4 DEF Arrive
<1>7. ASSUME NEW r \in Request, Answer(r) PROVE TypeOK'
  <2>1. CASE Edit(r)
    <3>1. req[r].circuit \in Circuit /\ req[r].loaded \in CircuitState
          /\ req[r].status \in {Live, Decommissioned}
      BY <2>1, RequestFields DEF Edit
    <3>2. req[r].loaded.broken \in BOOLEAN
      BY <3>1, CircuitFields
    <3>3. AfterEdit(req[r]) \in CircuitState
      BY <3>1, <3>2, SaveFits DEF AfterEdit
    <3> QED BY <2>1, <3>1, <3>3, WriteTyped DEF Edit
  <2>2. CASE Acknowledge(r)
    BY <2>2, RequestFields, AfterAcknowledgeTyped, WriteTyped DEF Acknowledge
  <2>3. CASE Assign(r)
    <3> DEFINE q == req[r]
               row == [active |-> TRUE, hops |-> stored[q.path].hops, verdict |-> "ok"]
    <3>1. q.circuit \in Circuit /\ q.path \in Path
      BY <2>3, RequestFields DEF Assign
    <3>2. row \in Assignment
      BY <3>1 DEF Assignment, StoredPath
    <3>3. [circuit[q.circuit] EXCEPT !.rows[q.path] = row] \in CircuitState
      BY <3>1, <3>2 DEF CircuitState
    <3> QED BY <2>3, <3>1, <3>3, WriteTyped DEF Assign
  <2>4. CASE AssignRefused(r)
    BY <2>4 DEF AssignRefused
  <2> QED BY <1>7, <2>1, <2>2, <2>3, <2>4 DEF Answer
<1>8. ASSUME NEW c \in Circuit, NEW p \in Path, Unassign(c, p) PROVE TypeOK'
  <2>1. NoRow \in Assignment
    BY DEF NoRow, Assignment, Hops
  <2>2. circuit' \in [Circuit -> CircuitState]
    BY <1>8, <2>1 DEF Unassign, CircuitState
  <2> QED BY <1>8, <2>2 DEF Unassign
<1> QED BY <1>1, <1>2, <1>3, <1>4, <1>5, <1>6, <1>7, <1>8 DEF Next, RunStep

\* The variables keep their types, for any number of circuits, paths and handlers,
\* overlapping or not.
THEOREM TypeCorrect == Spec => []TypeOK
<1> USE CircuitAssumption
<1> QED BY InitTyped, NextTyped, PTL DEF Spec

(***************************************************************************)
(* Serial analysis and requests: the inductive invariant.                  *)
(***************************************************************************)

Alone ==
    /\ run # NoRun => \A r \in Request : req[r] = Idle
    /\ \A r, s \in Request : req[r] # Idle /\ req[s] # Idle => r = s

RowsReferToPaths ==
    \A c \in Circuit, p \in Path : Exists(circuit[c].rows[p]) => stored[p].state = "stored"

\* ActiveWhileLive, VerdictStands and BrokenReported, circuit by circuit.
AllSound == \A c \in Circuit : Sound(circuit[c], stored)

\* A run that is about to commit has loaded what is stored, judges every stored path
\* it rewrites, and keeps the paths that assignments refer to.
RunFresh ==
    run.phase = "evaluated" =>
        /\ run.loaded = circuit
        /\ \A p \in Path : stored[p].state = "stored" /\ p \notin run.scope
                           => run.written[p] = stored[p]
        /\ \A p \in Path : Referenced(p) => run.written[p].state = "stored"

\* A request that is about to write has loaded what is stored.
ReqFresh ==
    \A r \in Request :
        LET q == req[r] IN
        /\ q.op \in {"edit", "acknowledge"} => q.loaded = circuit[q.circuit]
        /\ q.op = "acknowledge" => q.seen = stored
        /\ q.op = "assign" => q.defective = stored[q.path].defective

IInv == TypeOK /\ Alone /\ RowsReferToPaths /\ AllSound /\ RunFresh /\ ReqFresh

LEMMA SoundImplies == AllSound => VerdictStands /\ BrokenReported /\ ActiveWhileLive
BY DEF AllSound, Sound, Fits, VerdictStands, BrokenReported, ActiveWhileLive

\* The circuit a run leaves: sound beside the paths it writes, with the same
\* assignments, moved only by consent.
LEMMA AfterRunFits ==
    ASSUME IInv, run.phase = "evaluated", NEW c \in Circuit
    PROVE  LET a == AfterRun(c) IN
           /\ Sound(a, run.written)
           /\ \A p \in Path : Exists(a.rows[p]) <=> Exists(circuit[c].rows[p])
           /\ \A p \in Path : a.rows[p].hops # circuit[c].rows[p].hops =>
                 /\ circuit[c].authorized /\ ~a.authorized
                 /\ EndStrands[a.rows[p].hops] = EndStrands[circuit[c].rows[p].hops]
<1> DEFINE cc == circuit[c]
           judged == Judged(cc.rows, run.scope, run.written, cc.authorized)
           rows == [p \in Path |-> IF judged[p] # cc.rows[p] THEN judged[p] ELSE cc.rows[p]]
           used == Consumes(cc.rows, run.scope, run.written, cc.authorized)
           cs == [cc EXCEPT !.rows = rows, !.authorized = @ /\ ~used]
           judges == \E p \in run.scope : cc.rows[p].active
           a == IF judges THEN SyncBroken(cs, cc, run.written) ELSE cc
<1>1. /\ cc \in CircuitState /\ run.scope \in SUBSET Path
      /\ run.written \in [Path -> StoredPath] /\ run.loaded[c] = cc
  BY RunFields DEF IInv, TypeOK, RunFresh
<1>2. AfterRun(c) = a
  BY <1>1 DEF AfterRun
<1>3. /\ cc.rows \in [Path -> Assignment] /\ cc.authorized \in BOOLEAN
      /\ cc.status \in {Live, Decommissioned} /\ cc.broken \in BOOLEAN
  BY <1>1, CircuitFields
<1>4. JudgesWell(cc.rows, run.scope, run.written, cc.authorized, judged)
  BY <1>1, <1>3, JudgedFits
<1>5. /\ judged \in [Path -> Assignment]
      /\ \A p \in Path :
           /\ judged[p].active = cc.rows[p].active
           /\ Exists(cc.rows[p]) => Exists(judged[p])
           /\ Exists(judged[p]) => Exists(cc.rows[p]) \/ cc.rows[p].active
           /\ p \in run.scope /\ cc.rows[p].active => Fits(judged[p], run.written[p])
           /\ ~(p \in run.scope /\ cc.rows[p].active) => judged[p] = cc.rows[p]
           /\ judged[p].hops # cc.rows[p].hops =>
                used /\ EndStrands[judged[p].hops] = EndStrands[cc.rows[p].hops]
  <2> HIDE DEF judged, cc
  <2> QED BY <1>4 DEF JudgesWell
<1>6. rows = judged
  <2> HIDE DEF judged, cc
  <2> QED BY <1>5
<1>7. Sound(cc, stored) /\ \A p \in Path : Exists(cc.rows[p]) => stored[p].state = "stored"
  BY DEF IInv, AllSound, RowsReferToPaths
<1>8. \A p \in Path : Exists(judged[p]) <=> Exists(cc.rows[p])
  <2> HIDE DEF judged, cc
  <2> QED BY <1>5, <1>7 DEF Sound
\* A path of an active assignment that is not judged is as it was stored.
<1>9. \A p \in Path : cc.rows[p].active /\ run.written[p].fresh => Fits(judged[p], run.written[p])
  <2> SUFFICES ASSUME NEW p \in Path, cc.rows[p].active, run.written[p].fresh, p \notin run.scope
               PROVE  Fits(judged[p], run.written[p])
    BY <1>5
  <2>1. stored[p].state = "stored"
    BY <1>7 DEF Sound
  <2>2. run.written[p] = stored[p]
    BY <2>1 DEF IInv, RunFresh
  <2>3. Fits(cc.rows[p], stored[p])
    BY <1>7, <2>2 DEF Sound
  <2> QED BY <1>5, <2>2, <2>3
<1>10. CASE judges
  <2>1. /\ cs \in CircuitState
        /\ cs.rows = judged /\ cs.status = cc.status /\ cs.broken = cc.broken
        /\ cs.authorized = (cc.authorized /\ ~used)
    <3>1. (cc.authorized /\ ~used) \in BOOLEAN
      OBVIOUS
    <3> HIDE DEF rows, used, judged, cc
    <3> QED BY <1>1, <1>5, <1>6, <3>1 DEF CircuitState
  <2>2. a = [cs EXCEPT !.broken = HasBroken(cs.rows)]
    <3> HIDE DEF cs, cc
    <3> QED BY <1>1, <1>10, <2>1, SyncFits
  <2>3. /\ a.rows = judged /\ a.status = cc.status /\ a.broken = HasBroken(judged)
        /\ a.authorized = (cc.authorized /\ ~used)
    <3> HIDE DEF cs, cc, a, judged, used
    <3> QED BY <2>1, <2>2 DEF CircuitState
  <2>4. used => cc.authorized
    BY DEF Consumes
  <2> HIDE DEF a, cc, judged, used, cs, rows
  <2>5. Sound(a, run.written)
    BY <1>5, <1>7, <1>8, <1>9, <2>3 DEF Sound
  <2>6. /\ \A p \in Path : Exists(a.rows[p]) <=> Exists(cc.rows[p])
        /\ \A p \in Path : a.rows[p].hops # cc.rows[p].hops =>
              /\ cc.authorized /\ ~a.authorized
              /\ EndStrands[a.rows[p].hops] = EndStrands[cc.rows[p].hops]
    BY <1>5, <1>8, <2>3, <2>4
  <2> QED BY <1>2, <2>5, <2>6 DEF cc
<1>11. CASE ~judges
  <2>1. judged = cc.rows
    <3> HIDE DEF judged, cc
    <3> QED BY <1>3, <1>5, <1>11
  <2>2. a = cc
    BY <1>11
  <2> HIDE DEF a, cc, judged
  <2>3. Sound(cc, run.written)
    BY <1>7, <1>9, <2>1 DEF Sound
  <2> QED BY <1>2, <2>2, <2>3 DEF cc
<1> QED BY <1>10, <1>11

\* The circuit an acknowledgement leaves.
LEMMA AfterAcknowledgeFits ==
    ASSUME IInv, NEW r \in Request, req[r].op = "acknowledge"
    PROVE  LET a == AfterAcknowledge(req[r])
               c == req[r].circuit IN
           /\ Sound(a, stored)
           /\ \A p \in Path : Exists(a.rows[p]) => Exists(circuit[c].rows[p])
<1> DEFINE c == req[r].circuit
           cc == circuit[c]
           taken == Acknowledgeable(req[r])
           rows == [p \in Path |-> IF p \in taken THEN Accept(cc.rows[p], stored[p]) ELSE cc.rows[p]]
           cs == [cc EXCEPT !.rows = rows]
           a == SyncBroken(cs, cc, stored)
<1>1. /\ c \in Circuit /\ cc \in CircuitState /\ stored \in [Path -> StoredPath]
      /\ req[r].loaded = cc /\ req[r].seen = stored
  BY RequestFields DEF IInv, TypeOK, ReqFresh
<1>2. AfterAcknowledge(req[r]) = a
  BY <1>1 DEF AfterAcknowledge
<1>3. \A p \in taken : cc.rows[p].active /\ ~stored[p].defective /\ p \in Path
  BY <1>1 DEF Acknowledgeable
<1>4. cc.rows \in [Path -> Assignment]
  BY <1>1, CircuitFields
<1>5. Sound(cc, stored)
  BY <1>1 DEF IInv, AllSound
<1> HIDE DEF taken, cc
<1>6. \A p \in Path : Accept(cc.rows[p], stored[p]) \in Assignment
  BY <1>1, <1>4, AcceptFits
<1>7. rows \in [Path -> Assignment]
  BY <1>4, <1>6
<1>8. \A p \in Path :
        /\ rows[p].active = cc.rows[p].active
        /\ Exists(rows[p]) <=> Exists(cc.rows[p])
        /\ p \in taken => Fits(rows[p], stored[p])
        /\ p \notin taken => rows[p] = cc.rows[p]
  <2> SUFFICES ASSUME NEW p \in Path
               PROVE  /\ rows[p].active = cc.rows[p].active
                      /\ Exists(rows[p]) <=> Exists(cc.rows[p])
                      /\ p \in taken => Fits(rows[p], stored[p])
                      /\ p \notin taken => rows[p] = cc.rows[p]
    OBVIOUS
  <2>1. cc.rows[p] \in Assignment /\ stored[p] \in StoredPath
    BY <1>1, <1>4
  <2>2. CASE p \in taken
    <3>1. rows[p] = Accept(cc.rows[p], stored[p])
      BY <2>2
    <3>2. Exists(cc.rows[p])
      BY <1>3, <1>5, <2>2 DEF Sound
    <3> HIDE DEF rows
    <3> QED BY <1>3, <2>1, <2>2, <3>1, <3>2, AcceptFits DEF Fits, Exists
  <2>3. CASE p \notin taken
    BY <2>3
  <2> QED BY <2>2, <2>3
<1> HIDE DEF rows
<1>9. /\ cs \in CircuitState /\ cs.rows = rows
      /\ cs.status = cc.status /\ cs.broken = cc.broken
  BY <1>1, <1>7 DEF CircuitState
<1>10. a = [cs EXCEPT !.broken = HasBroken(cs.rows)]
  <2> HIDE DEF cs
  <2> QED BY <1>1, <1>9, SyncFits
<1>11. a.rows = rows /\ a.status = cc.status /\ a.broken = HasBroken(rows)
  <2> HIDE DEF cs, a
  <2> QED BY <1>9, <1>10 DEF CircuitState
<1> HIDE DEF a, cs
<1>12. Sound(a, stored)
  BY <1>5, <1>8, <1>11 DEF Sound
<1> QED BY <1>2, <1>8, <1>11, <1>12 DEF cc

LEMMA InitInv == CircuitAssumption /\ Init => IInv
<1> SUFFICES ASSUME CircuitAssumption, Init PROVE IInv
  OBVIOUS
<1>1. \A c \in Circuit : /\ circuit[c].status = Live
                         /\ \A p \in Path : ~circuit[c].rows[p].active /\ ~Exists(circuit[c].rows[p])
  BY DEF Init, NoRow, Exists
<1>2. AllSound /\ RowsReferToPaths
  BY <1>1 DEF AllSound, Sound, RowsReferToPaths, HasBroken
<1>3. run.phase = "idle" /\ \A r \in Request : req[r] = Idle
  BY DEF Init, NoRun
<1>4. Alone /\ RunFresh /\ ReqFresh
  BY <1>3 DEF Init, Alone, RunFresh, ReqFresh, Idle
<1> QED BY <1>2, <1>4, InitTyped DEF IInv

\* With nothing under way but handler r, a write that leaves its circuit sound keeps
\* the invariant.
LEMMA WriteKeeps ==
    ASSUME IInv, NEW r \in Request, req[r] # Idle, NEW c \in Circuit, NEW after,
           Write(r, c, after), TypeOK',
           Sound(after, stored),
           \A p \in Path : Exists(after.rows[p]) => stored[p].state = "stored"
    PROVE  IInv'
<1>1. run = NoRun /\ \A s \in Request : s # r => req[s] = Idle
  BY DEF IInv, Alone
<1>2. \A s \in Request : req'[s] = Idle
  BY <1>1 DEF IInv, TypeOK, Write
<1>3. UNCHANGED <<stored, run>>
  BY DEF Write
<1>4. Alone' /\ RunFresh' /\ ReqFresh'
  BY <1>1, <1>2, <1>3 DEF Alone, RunFresh, ReqFresh, NoRun, Idle
<1>5. \A d \in Circuit : circuit'[d] = circuit[d] \/ (d = c /\ circuit'[d] = after)
  BY WriteChanges DEF IInv
<1>6. AllSound'
  <2> SUFFICES ASSUME NEW d \in Circuit PROVE Sound(circuit'[d], stored')
    BY DEF AllSound
  <2> QED BY <1>3, <1>5 DEF IInv, AllSound
<1>7. RowsReferToPaths'
  <2> SUFFICES ASSUME NEW d \in Circuit, NEW p \in Path, Exists(circuit'[d].rows[p])
               PROVE  stored'[p].state = "stored"
    BY DEF RowsReferToPaths, Exists
  <2> QED BY <1>3, <1>5 DEF IInv, RowsReferToPaths
<1> QED BY <1>4, <1>6, <1>7 DEF IInv

LEMMA PlantKeeps ==
    ASSUME Serial, IInv, NEW p \in Path, PlantStep(p), TypeOK'
    PROVE  IInv'
<1> PICK walked \in {w \in Walked : w.hops = Cut => ~w.fault} :
      \/ PlantChanges(p, walked)
      \/ \E rest \in Hops : CableDeleted(p, rest, walked) \/ SlackLoopInserted(p, rest, walked)
  BY DEF PlantStep
<1>1. CASE PlantChanges(p, walked)
  BY <1>1 DEF PlantChanges, IInv, Alone, RowsReferToPaths, AllSound, RunFresh, ReqFresh,
              Sound, Referenced
\* The path stays stored and is not fresh; nothing is under way.
<1>2. ASSUME NEW rest \in Hops, LoseHops(p, rest, walked), UNCHANGED <<run, req>>,
             \A c \in Circuit : /\ circuit'[c].rows = circuit[c].rows
                                /\ circuit'[c].status = circuit[c].status
                                /\ circuit'[c].broken = circuit[c].broken
      PROVE  IInv'
  <2>1. run = NoRun /\ \A r \in Request : req[r] = Idle
    BY <1>2 DEF LoseHops, MayStart
  <2>2. Alone' /\ RunFresh' /\ ReqFresh'
    BY <1>2, <2>1 DEF Alone, RunFresh, ReqFresh, NoRun, Idle
  <2>3. \A q \in Path : /\ stored'[q].state = stored[q].state
                        /\ stored'[q].fresh => stored'[q] = stored[q]
    <3>1. stored' = [stored EXCEPT ![p].hops = rest, ![p].fresh = FALSE]
      BY <1>2 DEF LoseHops
    <3>2. stored \in [Path -> StoredPath]
      BY DEF IInv, TypeOK
    <3>3. stored'[p].state = stored[p].state /\ stored'[p].fresh = FALSE
      BY <3>1, <3>2 DEF StoredPath
    <3>4. \A q \in Path \ {p} : stored'[q] = stored[q]
      BY <3>1, <3>2
    <3> QED BY <3>3, <3>4
  <2>4. RowsReferToPaths'
    BY <1>2, <2>3 DEF IInv, RowsReferToPaths, Exists
  <2>5. AllSound'
    <3> SUFFICES ASSUME NEW c \in Circuit PROVE Sound(circuit'[c], stored')
      BY DEF AllSound
    <3>1. Sound(circuit[c], stored)
      BY DEF IInv, AllSound
    <3> QED BY <1>2, <2>3, <3>1 DEF Sound
  <2> QED BY <2>2, <2>4, <2>5 DEF IInv
<1>3. ASSUME NEW rest \in Hops, CableDeleted(p, rest, walked) PROVE IInv'
  BY <1>2, <1>3 DEF CableDeleted
<1>4. ASSUME NEW rest \in Hops, SlackLoopInserted(p, rest, walked) PROVE IInv'
  <2>1. circuit \in [Circuit -> CircuitState]
    BY DEF IInv, TypeOK
  <2>2. \A c \in Circuit : /\ circuit'[c].rows = circuit[c].rows
                           /\ circuit'[c].status = circuit[c].status
                           /\ circuit'[c].broken = circuit[c].broken
    BY <1>4, <2>1 DEF SlackLoopInserted, CircuitState
  <2> QED BY <1>2, <1>4, <2>2 DEF SlackLoopInserted
<1> QED BY <1>1, <1>3, <1>4

LEMMA RunKeeps ==
    ASSUME Serial, IInv, RunStep, TypeOK'
    PROVE  IInv'
<1>1. ASSUME NEW region \in SUBSET Path, RunWalk(region) PROVE IInv'
  <2>1. \A r \in Request : req[r] = Idle
    BY <1>1 DEF RunWalk, MayStart
  <2>2. run'.phase = "walked" /\ UNCHANGED <<stored, circuit, req>>
    BY <1>1 DEF RunWalk
  <2> QED BY <2>1, <2>2 DEF IInv, Alone, RowsReferToPaths, AllSound, RunFresh, ReqFresh, Sound, Idle
<1>2. CASE RunEvaluate
  <2>1. run # NoRun /\ run.phase = "walked"
    BY <1>2 DEF RunEvaluate, NoRun
  <2>2. \A r \in Request : req[r] = Idle
    BY <2>1 DEF IInv, Alone
  <2>3. /\ run'.phase = "evaluated" /\ run'.written = Written /\ run'.scope = Evaluated
        /\ run'.loaded = circuit /\ UNCHANGED <<stored, circuit, req>>
    BY <1>2 DEF RunEvaluate
  <2>4. ASSUME NEW p \in Path
        PROVE  /\ stored[p].state = "stored" /\ p \notin Evaluated => Written[p] = stored[p]
               /\ Referenced(p) => Written[p].state = "stored"
    <3>1. Referenced(p) => stored[p].state = "stored"
      BY DEF IInv, RowsReferToPaths, Referenced
    <3>2. CASE p \notin run.region
      BY <3>1, <3>2 DEF Written
    <3>3. CASE p \in run.region /\ p \in LostPaths
      <4>1. Written[p] = Dropped(p) /\ (stored[p].state = "stored" => p \in Evaluated)
        BY <3>3 DEF Written, Evaluated
      <4> QED BY <4>1 DEF Dropped
    <3>4. CASE p \in run.region /\ p \notin LostPaths
      <4>1. stored[p].state = "stored" => p \in Evaluated \/ Written[p] = stored[p]
        BY <3>4 DEF Evaluated
      <4>2. stored[p].state = "stored" => run.walk[p].hops # Cut
        BY <3>4 DEF LostPaths
      <4>3. stored[p].state = "stored" => Written[p] = AsStored(run.walk[p])
        BY <3>4, <4>2 DEF Written
      <4> QED BY <3>1, <4>1, <4>3 DEF AsStored
    <3> QED BY <3>2, <3>3, <3>4
  <2>5. RunFresh'
    BY <2>3, <2>4 DEF RunFresh, Referenced, Exists
  <2>6. Alone' /\ ReqFresh'
    BY <2>2, <2>3 DEF Alone, ReqFresh, Idle
  <2>7. RowsReferToPaths' /\ AllSound'
    BY <2>3 DEF IInv, RowsReferToPaths, AllSound, Sound
  <2> QED BY <2>5, <2>6, <2>7 DEF IInv
<1>3. ASSUME NEW expired \in SUBSET Circuit, RunCommit(expired) PROVE IInv'
  <2> DEFINE after == [c \in Circuit |-> IF c \in expired
                                         THEN [AfterRun(c) EXCEPT !.authorized = FALSE]
                                         ELSE AfterRun(c)]
  <2>1. run # NoRun /\ run.phase = "evaluated"
    BY <1>3 DEF RunCommit, NoRun
  <2>2. \A r \in Request : req[r] = Idle
    BY <2>1 DEF IInv, Alone
  <2>3. run' = NoRun /\ req' = req
    BY <1>3 DEF RunCommit
  <2>4. Alone' /\ RunFresh' /\ ReqFresh'
    BY <2>2, <2>3 DEF Alone, RunFresh, ReqFresh, NoRun, Idle
  <2>5. ASSUME NEW c \in Circuit
        PROVE  /\ Sound(after[c], run.written)
               /\ \A p \in Path : Exists(after[c].rows[p]) => run.written[p].state = "stored"
    <3>1. AfterRun(c) \in CircuitState
      BY <2>1, AfterRunTyped DEF IInv
    <3>2. /\ Sound(AfterRun(c), run.written)
          /\ \A p \in Path : Exists(AfterRun(c).rows[p]) => Exists(circuit[c].rows[p])
      BY <2>1, AfterRunFits
    <3>3. /\ after[c].rows = AfterRun(c).rows /\ after[c].status = AfterRun(c).status
          /\ after[c].broken = AfterRun(c).broken
      BY <3>1 DEF CircuitState
    <3>4. \A p \in Path : Exists(circuit[c].rows[p]) => run.written[p].state = "stored"
      BY <2>1 DEF IInv, RunFresh, Referenced
    <3> HIDE DEF after
    <3> QED BY <3>2, <3>3, <3>4 DEF Sound
  <2>6. AllSound' /\ RowsReferToPaths'
    <3> HIDE DEF after
    <3>1. CASE OneActive(after)
      <4>1. stored' = run.written /\ circuit' = after
        BY <1>3, <3>1 DEF RunCommit, after
      <4> QED BY <2>5, <4>1 DEF AllSound, RowsReferToPaths, Sound, Exists
    <3>2. CASE ~OneActive(after)
      <4>1. stored' = stored /\ circuit' = circuit
        BY <1>3, <3>2 DEF RunCommit, after
      <4> QED BY <4>1 DEF IInv, AllSound, RowsReferToPaths, Sound
    <3> QED BY <3>1, <3>2
  <2> QED BY <2>4, <2>6 DEF IInv
<1> QED BY <1>1, <1>2, <1>3 DEF RunStep

LEMMA ArriveKeeps ==
    ASSUME Serial, IInv, NEW r \in Request, NEW c \in Circuit, Arrive(r, c), TypeOK'
    PROVE  IInv'
<1>1. ASSUME NEW q, Load(r, q),
             /\ q.op \in {"edit", "acknowledge"} => q.loaded = circuit[q.circuit]
             /\ q.op = "acknowledge" => q.seen = stored
             /\ q.op = "assign" => q.defective = stored[q.path].defective
      PROVE  IInv'
  <2>1. run = NoRun /\ \A s \in Request : req[s] = Idle
    BY <1>1 DEF Load, MayStart
  <2>2. req' = [req EXCEPT ![r] = q] /\ UNCHANGED <<stored, circuit, run>>
    BY <1>1 DEF Load
  <2>3. \A s \in Request : req'[s] = IF s = r THEN q ELSE Idle
    BY <2>1, <2>2 DEF IInv, TypeOK
  <2>4. Alone' /\ ReqFresh' /\ RunFresh'
    BY <1>1, <2>1, <2>2, <2>3 DEF Alone, ReqFresh, RunFresh, NoRun, Idle
  <2>5. RowsReferToPaths' /\ AllSound'
    BY <2>2 DEF IInv, RowsReferToPaths, AllSound, Sound
  <2> QED BY <2>4, <2>5 DEF IInv
<1>2. ASSUME NEW status \in {Live, Decommissioned}, RequestEdit(r, c, status) PROVE IInv'
  BY <1>1, <1>2 DEF RequestEdit
<1>3. CASE RequestAcknowledge(r, c)
  BY <1>1, <1>3 DEF RequestAcknowledge
<1>4. ASSUME NEW p \in Path, RequestAssign(r, c, p) PROVE IInv'
  BY <1>1, <1>4 DEF RequestAssign
<1> QED BY <1>2, <1>3, <1>4 DEF Arrive

LEMMA AnswerKeeps ==
    ASSUME Serial, IInv, NEW r \in Request, Answer(r), TypeOK'
    PROVE  IInv'
<1> DEFINE q == req[r]
           c == q.circuit
<1>0. /\ circuit \in [Circuit -> CircuitState] /\ stored \in [Path -> StoredPath]
      /\ AllSound /\ RowsReferToPaths
  BY DEF IInv, TypeOK
<1>1. CASE Edit(r)
  <2>1. /\ q # Idle /\ c \in Circuit /\ circuit[c] \in CircuitState
        /\ q.status \in {Live, Decommissioned} /\ q.loaded = circuit[c]
    BY <1>1, RequestFields DEF Edit, Idle, IInv, TypeOK, ReqFresh
  <2>2. circuit[c].broken \in BOOLEAN /\ Sound(circuit[c], stored)
    BY <1>0, <2>1, CircuitFields DEF AllSound
  <2>3. AfterEdit(q) = Save(circuit[c], q.status, circuit[c].broken, stored)
    BY <2>1 DEF AfterEdit
  <2>4. /\ Sound(AfterEdit(q), stored)
        /\ \A p \in Path : Exists(AfterEdit(q).rows[p]) => Exists(circuit[c].rows[p])
    BY <1>0, <2>1, <2>2, <2>3, SaveFits
  <2>5. \A p \in Path : Exists(AfterEdit(q).rows[p]) => stored[p].state = "stored"
    BY <1>0, <2>1, <2>4 DEF RowsReferToPaths
  <2> QED BY <1>1, <2>1, <2>4, <2>5, WriteKeeps DEF Edit
<1>2. CASE Acknowledge(r)
  <2>1. q # Idle /\ c \in Circuit /\ q.op = "acknowledge"
    BY <1>2, RequestFields DEF Acknowledge, Idle, IInv
  <2>2. /\ Sound(AfterAcknowledge(q), stored)
        /\ \A p \in Path : Exists(AfterAcknowledge(q).rows[p]) => Exists(circuit[c].rows[p])
    BY <2>1, AfterAcknowledgeFits
  <2>3. \A p \in Path : Exists(AfterAcknowledge(q).rows[p]) => stored[p].state = "stored"
    BY <1>0, <2>1, <2>2 DEF RowsReferToPaths
  <2> QED BY <1>2, <2>1, <2>2, <2>3, WriteKeeps DEF Acknowledge
<1>3. CASE Assign(r)
  <2> DEFINE row == [active |-> TRUE, hops |-> stored[q.path].hops, verdict |-> "ok"]
             after == [circuit[c] EXCEPT !.rows[q.path] = row]
  <2>1. q # Idle /\ c \in Circuit /\ q.path \in Path /\ circuit[c] \in CircuitState
    BY <1>3, RequestFields DEF Assign, Idle, IInv, TypeOK
  <2>2. /\ stored[q.path].state = "stored" /\ circuit[c].status = Live
        /\ ~stored[q.path].defective
    BY <1>3, <2>1, CircuitFields DEF Assign, MayAssign, IInv, ReqFresh
  <2>3. Sound(circuit[c], stored)
    BY <1>0, <2>1 DEF AllSound
  <2>4. /\ after.status = circuit[c].status /\ after.broken = circuit[c].broken
        /\ \A p \in Path : after.rows[p] = IF p = q.path THEN row ELSE circuit[c].rows[p]
    BY <2>1 DEF CircuitState
  <2>5. /\ row.active /\ Exists(row) /\ Fits(row, stored[q.path]) /\ row.verdict \notin Broken
    BY <2>2 DEF Exists, Fits, Broken
  <2> HIDE DEF row, after
  <2>6. Sound(after, stored)
    <3>1. HasBroken(after.rows) => HasBroken(circuit[c].rows)
      BY <2>4, <2>5 DEF HasBroken
    <3> QED BY <2>2, <2>3, <2>4, <2>5, <3>1 DEF Sound
  <2>7. \A p \in Path : Exists(after.rows[p]) => stored[p].state = "stored"
    BY <1>0, <2>1, <2>2, <2>4 DEF RowsReferToPaths
  <2>8. Write(r, c, after)
    BY <1>3 DEF Assign, after, row
  <2> QED BY <2>1, <2>6, <2>7, <2>8, WriteKeeps
<1>4. CASE AssignRefused(r)
  <2>1. req' = [req EXCEPT ![r] = Idle] /\ UNCHANGED <<stored, circuit, run>>
    BY <1>4 DEF AssignRefused
  <2>2. \A s \in Request : req'[s] = Idle \/ req'[s] = req[s]
    BY <2>1 DEF IInv, TypeOK
  <2>3. Alone' /\ ReqFresh'
    BY <2>1, <2>2 DEF IInv, Alone, ReqFresh, Idle
  <2> QED BY <2>1, <2>3 DEF IInv, RowsReferToPaths, AllSound, Sound, RunFresh, Referenced
<1> QED BY <1>1, <1>2, <1>3, <1>4 DEF Answer

LEMMA UnassignKeeps ==
    ASSUME Serial, IInv, NEW c \in Circuit, NEW p \in Path, Unassign(c, p), TypeOK'
    PROVE  IInv'
<1>1. run = NoRun /\ (\A r \in Request : req[r] = Idle) /\ UNCHANGED <<stored, run, req>>
  BY DEF Unassign, MayStart
<1>2. Alone' /\ RunFresh' /\ ReqFresh'
  BY <1>1 DEF Alone, RunFresh, ReqFresh, NoRun, Idle
<1>3. /\ circuit \in [Circuit -> CircuitState]
      /\ circuit' = [circuit EXCEPT ![c].rows[p] = NoRow]
  BY DEF IInv, TypeOK, Unassign
<1>4. ASSUME NEW d \in Circuit
      PROVE  /\ circuit'[d].status = circuit[d].status /\ circuit'[d].broken = circuit[d].broken
             /\ \A t \in Path : circuit'[d].rows[t] = circuit[d].rows[t] \/ circuit'[d].rows[t] = NoRow
  <2>1. circuit[d] \in CircuitState /\ circuit[d].rows \in [Path -> Assignment]
    BY <1>3, CircuitFields
  <2> QED BY <1>3, <2>1 DEF CircuitState
<1>5. ~NoRow.active /\ ~Exists(NoRow)
  BY DEF NoRow, Exists
<1>6. AllSound'
  <2> SUFFICES ASSUME NEW d \in Circuit PROVE Sound(circuit'[d], stored')
    BY DEF AllSound
  <2>1. Sound(circuit[d], stored)
    BY DEF IInv, AllSound
  <2>2. HasBroken(circuit'[d].rows) => HasBroken(circuit[d].rows)
    BY <1>4, <1>5 DEF HasBroken
  <2> QED BY <1>1, <1>4, <1>5, <2>1, <2>2 DEF Sound
<1>7. RowsReferToPaths'
  <2> SUFFICES ASSUME NEW d \in Circuit, NEW t \in Path, Exists(circuit'[d].rows[t])
               PROVE  stored'[t].state = "stored"
    BY DEF RowsReferToPaths, Exists
  <2> QED BY <1>1, <1>4, <1>5 DEF IInv, RowsReferToPaths
<1> QED BY <1>2, <1>6, <1>7 DEF IInv

LEMMA StepKeeps == ASSUME Serial, IInv, [Next]_vars PROVE IInv'
<1>1. TypeOK'
  BY NextTyped DEF IInv
<1>2. CASE UNCHANGED vars
  BY <1>1, <1>2 DEF vars, IInv, Alone, RowsReferToPaths, AllSound, Sound, RunFresh, ReqFresh, Referenced
<1>3. CASE Next
  BY <1>1, <1>3, PlantKeeps, RunKeeps, ArriveKeeps, AnswerKeeps, UnassignKeeps DEF Next
<1> QED BY <1>2, <1>3

THEOREM SerialInductive ==
    ASSUME Serial
    PROVE  Spec => []IInv
<1> USE CircuitAssumption
<1>1. Init => IInv
  BY InitInv
<1>2. IInv /\ [Next]_vars => IInv'
  BY StepKeeps
<1> QED BY <1>1, <1>2, PTL DEF Spec

\* However circuits, runs, faults and requests follow each other, a verdict stands
\* for what is stored (evaluate_assignments, FiberCircuit.save, acknowledge_route).
THEOREM SerialVerdicts ==
    ASSUME Serial
    PROVE  Spec => []VerdictStands
<1>1. IInv => VerdictStands
  BY SoundImplies DEF IInv
<1> QED BY <1>1, SerialInductive, PTL

\* ...and a broken service is reported by its circuit (sync_circuit_broken).
THEOREM SerialBroken ==
    ASSUME Serial
    PROVE  Spec => []BrokenReported
<1>1. IInv => BrokenReported
  BY SoundImplies DEF IInv
<1> QED BY <1>1, SerialInductive, PTL

\* An assignment moves to other hops only by an acknowledgement of its circuit, or by
\* using up an authorization between the same end strands; an edit that reactivates
\* and a run both judge, an assign never replaces a row
\* (evaluate_assignments, acknowledge_route, _assignment_errors).
THEOREM SerialConsent ==
    ASSUME Serial
    PROVE  Spec => ConsentedRoute
<1> DEFINE Consented(c, p) ==
             LET before == circuit[c].rows[p]
                 after == circuit'[c].rows[p] IN
             Exists(before) /\ Exists(after) /\ before.hops # after.hops =>
                 \/ \E r \in Request : Acknowledge(r) /\ req[r].circuit = c
                 \/ /\ circuit[c].authorized /\ ~circuit'[c].authorized
                    /\ EndStrands[before.hops] = EndStrands[after.hops]
           Moved == \A c \in Circuit, p \in Path : Consented(c, p)
<1>1. IInv /\ [Next]_vars => [Moved]_vars
  <2> SUFFICES ASSUME IInv, Next, NEW c \in Circuit, NEW p \in Path
               PROVE  Consented(c, p)
    OBVIOUS
  <2>0. /\ TypeOK /\ circuit \in [Circuit -> CircuitState] /\ circuit[c].rows \in [Path -> Assignment]
        /\ stored \in [Path -> StoredPath]
    BY CircuitFields DEF IInv, TypeOK
  <2>1. CASE circuit'[c].rows[p] \in {circuit[c].rows[p], NoRow}
    BY <2>1 DEF NoRow, Exists
  <2>2. ASSUME NEW t \in Path, PlantStep(t) PROVE circuit'[c].rows = circuit[c].rows
    BY <2>0, <2>2 DEF PlantStep, PlantChanges, CableDeleted, SlackLoopInserted, CircuitState
  <2>3. CASE RunStep
    <3>1. CASE circuit' = circuit
      BY <2>1, <3>1
    <3>2. ASSUME NEW expired \in SUBSET Circuit, RunCommit(expired), circuit' # circuit
          PROVE  Consented(c, p)
      <4> DEFINE after == [d \in Circuit |-> IF d \in expired
                                             THEN [AfterRun(d) EXCEPT !.authorized = FALSE]
                                             ELSE AfterRun(d)]
      <4>1. run.phase = "evaluated" /\ circuit' = after
        BY <3>2 DEF RunCommit
      <4>2. AfterRun(c) \in CircuitState
        BY <2>0, <4>1, AfterRunTyped
      <4>3. circuit'[c].rows = AfterRun(c).rows /\ (circuit'[c].authorized => AfterRun(c).authorized)
        BY <4>1, <4>2 DEF CircuitState
      <4>4. AfterRun(c).rows[p].hops # circuit[c].rows[p].hops =>
              /\ circuit[c].authorized /\ ~AfterRun(c).authorized
              /\ EndStrands[AfterRun(c).rows[p].hops] = EndStrands[circuit[c].rows[p].hops]
        BY <4>1, AfterRunFits
      <4> QED BY <4>3, <4>4
    <3> QED BY <2>3, <3>1, <3>2 DEF RunStep, RunWalk, RunEvaluate
  <2>4. ASSUME NEW r \in Request, NEW d \in Circuit, Arrive(r, d) PROVE circuit' = circuit
    BY <2>4 DEF Arrive, RequestEdit, RequestAcknowledge, RequestAssign, Load
  <2>5. ASSUME NEW r \in Request, Answer(r) PROVE Consented(c, p)
    <3> DEFINE q == req[r]
    <3>1. CASE Edit(r)
      <4>1. /\ q.circuit \in Circuit /\ circuit[q.circuit] \in CircuitState
            /\ q.status \in {Live, Decommissioned} /\ q.loaded = circuit[q.circuit]
        BY <2>0, <3>1, RequestFields DEF Edit, IInv, ReqFresh
      <4>2. circuit[q.circuit].broken \in BOOLEAN
        BY <4>1, CircuitFields
      <4>3. AfterEdit(q).rows[p].hops # circuit[q.circuit].rows[p].hops =>
              /\ circuit[q.circuit].authorized /\ ~AfterEdit(q).authorized
              /\ EndStrands[AfterEdit(q).rows[p].hops] = EndStrands[circuit[q.circuit].rows[p].hops]
        BY <2>0, <4>1, <4>2, SaveFits DEF AfterEdit
      <4>4. circuit'[c] = circuit[c] \/ (c = q.circuit /\ circuit'[c] = AfterEdit(q))
        BY <2>0, <3>1, <4>1, WriteChanges DEF Edit
      <4> QED BY <4>3, <4>4
    <3>2. CASE Acknowledge(r)
      <4>1. q.circuit \in Circuit
        BY <2>0, <3>2, RequestFields DEF Acknowledge
      <4>2. circuit'[c] = circuit[c] \/ c = q.circuit
        BY <2>0, <3>2, <4>1, WriteChanges DEF Acknowledge
      <4> QED BY <3>2, <4>2
    <3>3. CASE Assign(r)
      <4> DEFINE row == [active |-> TRUE, hops |-> stored[q.path].hops, verdict |-> "ok"]
                 after == [circuit[q.circuit] EXCEPT !.rows[q.path] = row]
      <4>1. q.circuit \in Circuit /\ q.path \in Path /\ circuit[q.circuit] \in CircuitState
        BY <2>0, <3>3, RequestFields DEF Assign
      <4>2. circuit[q.circuit].status = Live /\ ~circuit[q.circuit].rows[q.path].active
        BY <3>3, <4>1, CircuitFields DEF Assign, MayAssign, ActiveOn
      <4>3. ~Exists(circuit[q.circuit].rows[q.path])
        BY <4>1, <4>2 DEF IInv, AllSound, Sound
      <4>4. \A t \in Path \ {q.path} : after.rows[t] = circuit[q.circuit].rows[t]
        BY <4>1 DEF CircuitState
      <4>5. circuit'[c] = circuit[c] \/ (c = q.circuit /\ circuit'[c] = after)
        BY <2>0, <3>3, <4>1, WriteChanges DEF Assign
      <4> HIDE DEF after
      <4> QED BY <4>3, <4>4, <4>5
    <3>4. CASE AssignRefused(r)
      BY <2>1, <3>4 DEF AssignRefused
    <3> QED BY <2>5, <3>1, <3>2, <3>3, <3>4 DEF Answer
  <2>6. ASSUME NEW d \in Circuit, NEW t \in Path, Unassign(d, t)
        PROVE  circuit'[c].rows[p] \in {circuit[c].rows[p], NoRow}
    BY <2>0, <2>6 DEF Unassign, CircuitState
  <2> HIDE DEF Consented
  <2> QED BY <2>1, <2>2, <2>3, <2>4, <2>5, <2>6 DEF Next
<1> QED BY <1>1, SerialInductive, PTL DEF Spec, ConsentedRoute
=============================================================================
