-------------------------- MODULE ClosureTrays_proofs --------------------------
(***************************************************************************)
(* Ports follow their tube, for any closure, cables, trays and users,      *)
(* however the checks of some edits and the writes of others interleave.   *)
(*                                                                         *)
(* What makes it inductive: no two rows of the closure hold one tube, and  *)
(* an edit or a deletion under way names rows there are, or were.          *)
(***************************************************************************)
EXTENDS ClosureTrays, TLAPS

IsRow(row) == row \in Row \cup {Gone}

\* unique_together of closure and tube.
RowsRight(all) ==
    /\ all \in Seq(Row \cup {Gone})
    /\ \A i, j \in DOMAIN all :
        i # j => all[i] = Gone \/ all[j] = Gone \/ all[i].tube # all[j].tube

\* A request that will write a row names a tube and a tray, and a row; one that will
\* delete rows holds them as they were.
RequestRight(req, all) ==
    /\ req.op \in {"assign", "edit"} => req.tube \in Tube /\ req.tray \in Tray
    /\ req.op = "edit" => req.row \in DOMAIN all
    /\ req.op = "delete" => \A i \in DOMAIN req.loaded : i \in DOMAIN all /\ req.loaded[i] \in Row

\* Row i of them is the assignment of tube t.
Holds(all, i, t) == i \in DOMAIN all /\ all[i] # Gone /\ all[i].tube = t

\* A port in its place: at is where the port of strand s sits.
Settled(s, all, at) ==
    \/ at = NoPort
    \/ \E i \in DOMAIN all : Holds(all, i, TubeWith(s)) /\ at = all[i].tray
    \/ (\A i \in DOMAIN all : ~Holds(all, i, TubeWith(s))) /\ at = Device

IInv ==
    /\ RowsRight(rows)
    /\ module \in [Strand -> Tray \cup {Device, NoPort}]
    /\ request = [u \in User |-> request[u]]
    /\ \A u \in User : RequestRight(request[u], rows)
    /\ \A s \in Strand \ strayed : Settled(s, rows, module[s])

(***************************************************************************)
(* Strands and rows.                                                       *)
(***************************************************************************)

LEMMA TubeOfStrand ==
    /\ \A s \in Strand : TubeWith(s) \in Tube /\ s \in StrandsOf[TubeWith(s)]
    /\ \A t \in Tube : StrandsOf[t] \subseteq Strand
    /\ \A t \in Tube : \A s \in StrandsOf[t] : TubeWith(s) = t
<1>1. \A s \in Strand : \E t \in Tube : s \in StrandsOf[t]
  BY ClosureTraysAssumption DEF Strand, Range
<1>2. \A s \in Strand : TubeWith(s) \in Tube /\ s \in StrandsOf[TubeWith(s)]
  BY <1>1 DEF TubeWith
<1>3. \A t \in Tube : StrandsOf[t] \subseteq Strand
  BY ClosureTraysAssumption DEF Strand, Range
<1>4. ASSUME NEW t \in Tube, NEW s \in StrandsOf[t]
      PROVE  TubeWith(s) = t
  BY <1>2, <1>3, <1>4, ClosureTraysAssumption
<1> QED BY <1>2, <1>3, <1>4

LEMMA TraysAreModules == \A m \in Tray : m # Device /\ m # NoPort
BY ClosureTraysAssumption DEF Device, NoPort

LEMMA FollowsAsSettled ==
    PortsFollowTube <=> \A s \in Strand \ strayed : Settled(s, rows, module[s])
<1>1. \A t : Assigned(rows, t) <=> \E i \in DOMAIN rows : Holds(rows, i, t)
  BY DEF Assigned, Live, Holds
<1>2. ASSUME NEW s
      PROVE  (\E row \in Live(rows) : row.tube = TubeWith(s) /\ module[s] = row.tray)
             <=> \E i \in DOMAIN rows : Holds(rows, i, TubeWith(s)) /\ module[s] = rows[i].tray
  BY DEF Live, Holds
<1> QED BY <1>1, <1>2 DEF PortsFollowTube, Settled

\* The ports of a tube.
LEMMA PortsFacts ==
    ASSUME NEW t \in Tube, NEW s \in Strand
    PROVE  s \in PortsOf(t) <=> TubeWith(s) = t /\ module[s] # NoPort
BY TubeOfStrand DEF PortsOf

LEMMA InitIInv == Init => IInv
<1> SUFFICES ASSUME Init PROVE IInv
  OBVIOUS
<1>1. RowsRight(rows)
  BY DEF Init, RowsRight
<1>2. module \in [Strand -> Tray \cup {Device, NoPort}]
  BY DEF Init
<1>3. request = [u \in User |-> request[u]] /\ \A u \in User : request[u] = Idle
  BY DEF Init
<1>4. \A u \in User : RequestRight(request[u], rows)
  BY <1>3 DEF RequestRight, Idle
<1>5. \A s \in Strand \ strayed : Settled(s, rows, module[s])
  BY DEF Init, Settled
<1> QED BY <1>1, <1>2, <1>3, <1>4, <1>5 DEF IInv

(***************************************************************************)
(* Requests: one more is asked for, or one is answered.                    *)
(***************************************************************************)

LEMMA AskKeeps ==
    ASSUME IInv, NEW u \in User, NEW req, RequestRight(req, rows), Ask(u, req)
    PROVE  IInv'
<1>1. /\ request' = [request EXCEPT ![u] = req]
      /\ rows' = rows /\ module' = module /\ strayed' = strayed
  BY DEF Ask
<1>2. /\ request' = [v \in User |-> request'[v]]
      /\ \A v \in User : RequestRight(request'[v], rows)
  BY <1>1 DEF IInv
<1> QED BY <1>1, <1>2 DEF IInv

\* What is loaded are rows.
LEMMA LoadRowsKeeps ==
    ASSUME IInv, NEW u \in User, NEW gone \in SUBSET {i \in DOMAIN rows : rows[i] # Gone},
           NEW leaving, LoadRows(u, gone, leaving)
    PROVE  IInv'
<1> PICK loaded : loaded = [i \in gone |-> rows[i]]
  OBVIOUS
<1> PICK req : req = [op |-> "delete", leaving |-> leaving, loaded |-> loaded]
  OBVIOUS
<1>1. /\ request' = [request EXCEPT ![u] = req]
      /\ rows' = rows /\ module' = module /\ strayed' = strayed
  BY DEF LoadRows
<1>2. \A i \in DOMAIN rows : rows[i] \in Row \cup {Gone}
  BY DEF IInv, RowsRight
<1>3. DOMAIN loaded = gone /\ \A i \in gone : i \in DOMAIN rows /\ loaded[i] \in Row
  BY <1>2
<1>4. req.op = "delete" /\ req.loaded = loaded
  OBVIOUS
<1>5. RequestRight(req, rows)
  BY <1>3, <1>4 DEF RequestRight
<1>6. /\ request' = [v \in User |-> request'[v]]
      /\ \A v \in User : RequestRight(request'[v], rows)
  BY <1>1, <1>5 DEF IInv
<1> QED BY <1>1, <1>6 DEF IInv

\* Rows are added or emptied, never taken away.
LEMMA AnswerKeeps ==
    ASSUME IInv, NEW u \in User, Answer(u), DOMAIN rows \subseteq DOMAIN rows'
    PROVE  /\ request' = [v \in User |-> request'[v]]
           /\ \A v \in User : RequestRight(request'[v], rows')
<1>1. request' = [request EXCEPT ![u] = Idle]
  BY DEF Answer
<1>2. RequestRight(Idle, rows')
  BY DEF RequestRight, Idle
<1>3. \A v \in User : RequestRight(request[v], rows')
  BY DEF IInv, RequestRight
<1> QED BY <1>1, <1>2, <1>3 DEF IInv

LEMMA RequestsKept ==
    ASSUME IInv, request' = request, DOMAIN rows \subseteq DOMAIN rows'
    PROVE  /\ request' = [v \in User |-> request'[v]]
           /\ \A v \in User : RequestRight(request'[v], rows')
BY DEF IInv, RequestRight

(***************************************************************************)
(* Writes.                                                                 *)
(***************************************************************************)

LEMMA WriteAssignKeeps ==
    ASSUME IInv, NEW u \in User, WriteAssign(u)
    PROVE  IInv'
<1> DEFINE t == request[u].tube
           m == request[u].tray
<1>1. t \in Tube /\ m \in Tray
  BY DEF WriteAssign, IInv, RequestRight
<1> PICK row : row = [tube |-> t, tray |-> m]
  OBVIOUS
<1>2. /\ row \in Row /\ row.tube = t /\ row.tray = m
      /\ UniqueRows(rows, 0, t)
      /\ rows' = Append(rows, row)
      /\ module' = Synced(module, row)
      /\ strayed' = strayed \ StrandsOf[t]
      /\ Answer(u)
  BY <1>1 DEF WriteAssign, Row
<1>3. rows \in Seq(Row \cup {Gone})
  BY DEF IInv, RowsRight
<1>4. /\ rows' \in Seq(Row \cup {Gone})
      /\ DOMAIN rows' = DOMAIN rows \cup {Len(rows) + 1}
      /\ Len(rows) + 1 \notin DOMAIN rows
      /\ rows'[Len(rows) + 1] = row
      /\ \A i \in DOMAIN rows : rows'[i] = rows[i]
  BY <1>2, <1>3
<1>5. \A i \in DOMAIN rows : rows[i] = Gone \/ rows[i].tube # t
  <2>1. 0 \notin DOMAIN rows
    BY <1>3
  <2> QED BY <1>2, <2>1 DEF UniqueRows
<1>6. RowsRight(rows')
  BY <1>2, <1>4, <1>5 DEF RowsRight, IInv
<1>7. /\ module' \in [Strand -> Tray \cup {Device, NoPort}]
      /\ \A s \in Strand : module'[s] = IF s \in PortsOf(t) THEN m ELSE module[s]
  BY <1>1, <1>2 DEF Synced, IInv
<1>8. ASSUME NEW s \in Strand \ strayed'
      PROVE  Settled(s, rows', module'[s])
  <2>1. CASE TubeWith(s) = t
    <3>1. CASE module[s] = NoPort
      BY <1>1, <1>7, <2>1, <3>1, PortsFacts DEF Settled
    <3>2. CASE module[s] # NoPort
      <4>1. module'[s] = m
        BY <1>1, <1>7, <2>1, <3>2, PortsFacts
      <4>2. row # Gone
        BY <1>2, <1>1 DEF Row, Gone
      <4> QED BY <1>2, <1>4, <2>1, <4>1, <4>2 DEF Settled, Holds
    <3> QED BY <3>1, <3>2
  <2>2. CASE TubeWith(s) # t
    <3>1. module'[s] = module[s]
      BY <1>1, <1>7, <2>2, PortsFacts
    <3>2. s \notin strayed
      BY <1>1, <1>2, <2>2, TubeOfStrand
    <3>3. Settled(s, rows, module[s])
      BY <3>2 DEF IInv
    <3> QED BY <1>2, <1>4, <2>2, <3>1, <3>3 DEF Settled, Holds
  <2> QED BY <2>1, <2>2
<1>9. DOMAIN rows \subseteq DOMAIN rows'
  BY <1>4
<1> QED BY <1>2, <1>6, <1>7, <1>8, <1>9, AnswerKeeps DEF IInv

\* The row that is rewritten, or inserted again, lets go of one tube and takes another.
LEMMA WriteEditKeeps ==
    ASSUME IInv, NEW u \in User, WriteEdit(u)
    PROVE  IInv'
<1> DEFINE t == request[u].tube
           m == request[u].tray
<1> PICK i : i = request[u].row
  OBVIOUS
<1>1. t \in Tube /\ m \in Tray /\ i \in DOMAIN rows
  BY DEF WriteEdit, IInv, RequestRight
<1> PICK row : row = [tube |-> t, tray |-> m]
  OBVIOUS
<1> PICK at : at = IF rows[i] # Gone /\ Moved(rows[i], row) THEN Cleared(Released(rows[i])) ELSE module
  OBVIOUS
<1>2. /\ row \in Row /\ row.tube = t /\ row.tray = m /\ row # Gone
      /\ UniqueRows(rows, i, t)
      /\ rows' = [rows EXCEPT ![i] = row]
      /\ module' = Synced(at, row)
      /\ strayed' = strayed \ StrandsOf[t]
      /\ Answer(u)
  BY <1>1 DEF WriteEdit, Row, Gone
<1>3. rows \in Seq(Row \cup {Gone})
  BY DEF IInv, RowsRight
<1>4. /\ rows' \in Seq(Row \cup {Gone})
      /\ DOMAIN rows' = DOMAIN rows
      /\ rows'[i] = row
      /\ \A j \in DOMAIN rows \ {i} : rows'[j] = rows[j]
  BY <1>1, <1>2, <1>3
<1>5. \A j \in DOMAIN rows \ {i} : rows[j] = Gone \/ rows[j].tube # t
  BY <1>2 DEF UniqueRows
<1>6. RowsRight(rows')
  BY <1>2, <1>4, <1>5 DEF RowsRight, IInv
<1>7. /\ at \in [Strand -> Tray \cup {Device, NoPort}]
      /\ \A s \in Strand : at[s] = IF /\ rows[i] # Gone /\ Moved(rows[i], row)
                                      /\ s \in Released(rows[i])
                                   THEN Device ELSE module[s]
  BY DEF Cleared, IInv
<1>8. /\ module' \in [Strand -> Tray \cup {Device, NoPort}]
      /\ \A s \in Strand : module'[s] = IF s \in PortsOf(t) THEN m ELSE at[s]
  BY <1>1, <1>2, <1>7 DEF Synced
<1>9. ASSUME NEW s \in Strand \ strayed'
      PROVE  Settled(s, rows', module'[s])
  <2>1. CASE TubeWith(s) = t
    <3>1. CASE module[s] = NoPort
      <4>1. module'[s] = at[s] /\ s \notin PortsOf(t)
        BY <1>1, <1>8, <2>1, <3>1, PortsFacts
      <4>2. ~(rows[i] # Gone /\ s \in Released(rows[i]))
        <5>1. rows[i] # Gone => rows[i].tray # NoPort
          BY <1>1, <1>3, TraysAreModules DEF Row
        <5> QED BY <3>1, <5>1 DEF Released
      <4> QED BY <1>7, <3>1, <4>1, <4>2 DEF Settled
    <3>2. CASE module[s] # NoPort
      BY <1>1, <1>2, <1>4, <1>8, <2>1, <3>2, PortsFacts DEF Settled, Holds
    <3> QED BY <3>1, <3>2
  <2>2. CASE TubeWith(s) # t
    <3>1. module'[s] = at[s]
      BY <1>1, <1>8, <2>2, PortsFacts
    <3>2. s \notin strayed
      BY <1>1, <1>2, <2>2, TubeOfStrand
    <3>3. Settled(s, rows, module[s])
      BY <3>2 DEF IInv
    <3>4. CASE Holds(rows, i, TubeWith(s))
      <4>1. rows[i] # Gone /\ rows[i].tube = TubeWith(s) /\ Moved(rows[i], row)
        BY <1>2, <2>2, <3>4 DEF Holds, Moved
      <4>2. \A j \in DOMAIN rows \ {i} : ~Holds(rows, j, TubeWith(s))
        BY <1>1, <4>1 DEF Holds, IInv, RowsRight
      <4>3. \A j \in DOMAIN rows' : ~Holds(rows', j, TubeWith(s))
        BY <1>2, <1>4, <2>2, <4>2 DEF Holds
      <4>4. module[s] = NoPort \/ module[s] = rows[i].tray
        BY <1>1, <3>3, <3>4, <4>2 DEF Settled
      <4>5. rows[i].tray # NoPort /\ rows[i].tube \in Tube
        BY <1>1, <1>3, <4>1, TraysAreModules DEF Row
      <4>6. s \in Released(rows[i]) <=> module[s] # NoPort
        BY <4>1, <4>4, <4>5, PortsFacts DEF Released
      <4>7. module'[s] = IF module[s] = NoPort THEN NoPort ELSE Device
        BY <1>7, <3>1, <4>1, <4>6
      <4> QED BY <4>3, <4>7 DEF Settled
    <3>5. CASE ~Holds(rows, i, TubeWith(s))
      <4>1. \A j \in DOMAIN rows' : Holds(rows', j, TubeWith(s)) <=> Holds(rows, j, TubeWith(s))
        BY <1>2, <1>4, <2>2, <3>5 DEF Holds
      <4>2. \A j \in DOMAIN rows' : Holds(rows, j, TubeWith(s)) => rows'[j] = rows[j]
        BY <1>4, <3>5
      <4>3. module'[s] = module[s]
        <5>1. rows[i] # Gone => rows[i].tube \in Tube /\ rows[i].tube # TubeWith(s)
          BY <1>1, <1>3, <3>5 DEF Holds, Row
        <5>2. rows[i] # Gone => s \notin Released(rows[i])
          BY <5>1, PortsFacts DEF Released
        <5> QED BY <1>7, <3>1, <5>2
      <4> QED BY <1>4, <3>3, <4>1, <4>2, <4>3 DEF Settled
    <3> QED BY <3>4, <3>5
  <2> QED BY <2>1, <2>2
<1>10. DOMAIN rows \subseteq DOMAIN rows'
  BY <1>4
<1> QED BY <1>2, <1>6, <1>8, <1>9, <1>10, AnswerKeeps DEF IInv

\* Every row the check let through holds a tube no other does.
LEMMA WriteAutoKeeps ==
    ASSUME IInv, NEW u \in User, WriteAuto(u)
    PROVE  IInv'
<1> PICK placed : placed = request[u].placed
  OBVIOUS
<1>1. /\ Placeable(placed)
      /\ rows' = rows \o placed
      /\ module' = SyncedAll(module, placed)
      /\ strayed' = strayed \ UNION {StrandsOf[placed[k].tube] : k \in DOMAIN placed}
      /\ Answer(u)
  BY DEF WriteAuto
<1>2. rows \in Seq(Row \cup {Gone}) /\ placed \in Seq(Row)
  BY <1>1 DEF IInv, RowsRight, Placeable, Placement
<1>3. /\ rows' \in Seq(Row \cup {Gone})
      /\ DOMAIN rows' = 1 .. Len(rows) + Len(placed)
      /\ \A i \in DOMAIN rows : i \in DOMAIN rows' /\ rows'[i] = rows[i]
      /\ \A i \in DOMAIN rows' \ DOMAIN rows :
            i - Len(rows) \in DOMAIN placed /\ rows'[i] = placed[i - Len(rows)]
      /\ \A k \in DOMAIN placed : Len(rows) + k \in DOMAIN rows' /\ rows'[Len(rows) + k] = placed[k]
  BY <1>1, <1>2
<1>4. \A k \in DOMAIN placed : placed[k].tube \in Tube /\ placed[k].tray \in Tray /\ placed[k] # Gone
  <2>1. \A k \in DOMAIN placed : placed[k] \in Row
    BY <1>2
  <2>2. \A row \in Row : row.tube \in Tube /\ row.tray \in Tray /\ row # Gone
    BY DEF Row, Gone
  <2> QED BY <2>1, <2>2
<1>5. \A k \in DOMAIN placed, i \in DOMAIN rows : rows[i] = Gone \/ rows[i].tube # placed[k].tube
  BY <1>1 DEF Placeable, Assigned, Live
<1>6. \A k, l \in DOMAIN placed : k # l => placed[k].tube # placed[l].tube
  BY <1>1 DEF Placeable
<1>7. RowsRight(rows')
  <2> SUFFICES ASSUME NEW i \in DOMAIN rows', NEW j \in DOMAIN rows', i # j
               PROVE  rows'[i] = Gone \/ rows'[j] = Gone \/ rows'[i].tube # rows'[j].tube
    BY <1>3 DEF RowsRight
  <2>1. CASE i \in DOMAIN rows /\ j \in DOMAIN rows
    BY <1>3, <2>1 DEF IInv, RowsRight
  <2>2. CASE i \in DOMAIN rows /\ j \notin DOMAIN rows
    BY <1>3, <1>5, <2>2
  <2>3. CASE i \notin DOMAIN rows /\ j \in DOMAIN rows
    BY <1>3, <1>5, <2>3
  <2>4. CASE i \notin DOMAIN rows /\ j \notin DOMAIN rows
    <3>1. i - Len(rows) # j - Len(rows)
      BY <1>2, <1>3
    <3> QED BY <1>3, <1>6, <2>4, <3>1
  <2> QED BY <2>1, <2>2, <2>3, <2>4
<1> DEFINE of(s) == {k \in DOMAIN placed : s \in PortsOf(placed[k].tube)}
<1>8. /\ module' = [s \in Strand |-> IF of(s) = {} THEN module[s] ELSE placed[CHOOSE k \in of(s) : TRUE].tray]
  BY <1>1 DEF SyncedAll
<1>9. ASSUME NEW s \in Strand
      PROVE  \/ of(s) = {} /\ module'[s] = module[s]
             \/ \E k \in DOMAIN placed : s \in PortsOf(placed[k].tube) /\ module'[s] = placed[k].tray
  <2>1. CASE of(s) = {}
    BY <1>8, <2>1
  <2>2. CASE of(s) # {}
    <3>1. (CHOOSE k \in of(s) : TRUE) \in of(s)
      BY <2>2
    <3>2. module'[s] = placed[CHOOSE k \in of(s) : TRUE].tray
      BY <1>8, <2>2
    <3> QED BY <3>1, <3>2
  <2> QED BY <2>1, <2>2
<1>10. module' \in [Strand -> Tray \cup {Device, NoPort}]
  <2>1. \A s \in Strand : module'[s] \in Tray \cup {Device, NoPort}
    BY <1>4, <1>9 DEF IInv
  <2>2. module' = [s \in Strand |-> module'[s]]
    BY <1>8
  <2> HIDE DEF of
  <2> QED BY <2>1, <2>2
<1>11. ASSUME NEW s \in Strand \ strayed'
       PROVE  Settled(s, rows', module'[s])
  <2>1. CASE \E k \in DOMAIN placed : s \in PortsOf(placed[k].tube) /\ module'[s] = placed[k].tray
    <3>1. PICK k \in DOMAIN placed : s \in PortsOf(placed[k].tube) /\ module'[s] = placed[k].tray
      BY <2>1
    <3>2. TubeWith(s) = placed[k].tube
      BY <1>4, <3>1, PortsFacts
    <3>3. Holds(rows', Len(rows) + k, TubeWith(s)) /\ rows'[Len(rows) + k] = placed[k]
      BY <1>3, <1>4, <3>2 DEF Holds
    <3> QED BY <1>3, <3>1, <3>3 DEF Settled
  <2>2. CASE of(s) = {} /\ module'[s] = module[s]
    <3>1. CASE module[s] = NoPort
      BY <2>2, <3>1 DEF Settled
    <3>2. CASE module[s] # NoPort
      <4>1. \A k \in DOMAIN placed : placed[k].tube # TubeWith(s)
        BY <1>4, <2>2, <3>2, PortsFacts
      <4>2. s \notin strayed
        BY <1>1, <1>4, <4>1, TubeOfStrand
      <4>3. Settled(s, rows, module[s])
        BY <4>2 DEF IInv
      <4>4. \A i \in DOMAIN rows' : Holds(rows', i, TubeWith(s)) => i \in DOMAIN rows
        BY <1>3, <4>1 DEF Holds
      <4>5. \A i \in DOMAIN rows : /\ Holds(rows', i, TubeWith(s)) <=> Holds(rows, i, TubeWith(s))
                                   /\ rows'[i] = rows[i] /\ i \in DOMAIN rows'
        BY <1>3 DEF Holds
      <4> QED BY <2>2, <4>3, <4>4, <4>5 DEF Settled
    <3> QED BY <3>1, <3>2
  <2> QED BY <1>9, <2>1, <2>2
<1>12. DOMAIN rows \subseteq DOMAIN rows'
  BY <1>3
<1> QED BY <1>1, <1>7, <1>10, <1>11, <1>12, AnswerKeeps DEF IInv

(***************************************************************************)
(* Rows deleted, cables linked, ports moved by hand.                       *)
(***************************************************************************)

\* Of a tube that does not stray, a row is deleted as it was loaded; and with it go all
\* the rows of its tube.
LEMMA DeleteRowsKeeps ==
    ASSUME IInv, NEW u \in User, DeleteRows(u)
    PROVE  IInv'
<1> PICK loaded : loaded = request[u].loaded
  OBVIOUS
<1> PICK gone : gone = DOMAIN loaded
  OBVIOUS
<1>1. /\ rows' = [i \in DOMAIN rows |-> IF i \in gone THEN Gone ELSE rows[i]]
      /\ module' = Cleared(UNION {Released(loaded[i]) : i \in gone})
      /\ strayed' = strayed \cup Straying(loaded)
      /\ Answer(u)
  BY DEF DeleteRows
<1>2. rows \in Seq(Row \cup {Gone})
  BY DEF IInv, RowsRight
<1>3. /\ rows' \in Seq(Row \cup {Gone})
      /\ DOMAIN rows' = DOMAIN rows
      /\ \A i \in DOMAIN rows : rows'[i] = IF i \in gone THEN Gone ELSE rows[i]
  <2>1. /\ DOMAIN rows' = 1 .. Len(rows) /\ Len(rows) \in Nat
        /\ \A i \in DOMAIN rows : rows'[i] = IF i \in gone THEN Gone ELSE rows[i]
    BY <1>1, <1>2
  <2>2. \A i \in 1 .. Len(rows) : rows'[i] \in Row \cup {Gone}
    BY <1>2, <2>1
  <2>3. rows' = [i \in 1 .. Len(rows) |-> rows'[i]]
    BY <1>1, <1>2
  <2>4. rows' \in [1 .. Len(rows) -> Row \cup {Gone}]
    BY <2>2, <2>3
  <2>5. rows' \in Seq(Row \cup {Gone})
    BY <2>1, <2>4
  <2> QED BY <1>2, <2>1, <2>5
<1>4. RowsRight(rows')
  BY <1>3 DEF RowsRight, IInv
<1>5. \A i \in gone : /\ i \in DOMAIN rows /\ loaded[i] # Gone
                      /\ loaded[i].tube \in Tube /\ loaded[i].tray \in Tray
  <2>1. \A i \in gone : i \in DOMAIN rows /\ loaded[i] \in Row
    BY DEF DeleteRows, IInv, RequestRight
  <2>2. \A row \in Row : row.tube \in Tube /\ row.tray \in Tray /\ row # Gone
    BY DEF Row, Gone
  <2> QED BY <2>1, <2>2
<1>6. \A s \in Strand : module'[s] = IF \E i \in gone : s \in Released(loaded[i]) THEN Device ELSE module[s]
  BY <1>1 DEF Cleared
<1>7. module' \in [Strand -> Tray \cup {Device, NoPort}]
  BY <1>1 DEF Cleared, IInv
<1>8. ASSUME NEW s \in Strand \ strayed'
      PROVE  Settled(s, rows', module'[s])
  <2>1. s \notin strayed /\ s \notin Straying(loaded)
    BY <1>1
  <2>2. Settled(s, rows, module[s])
    BY <2>1 DEF IInv
  <2>3. TubeWith(s) \in Tube /\ s \in StrandsOf[TubeWith(s)]
    BY TubeOfStrand
  <2>4. ASSUME NEW i \in gone, loaded[i].tube = TubeWith(s) \/ Holds(rows, i, TubeWith(s))
        PROVE  rows[i] = loaded[i] /\ loaded[i].tube = TubeWith(s) /\ Holds(rows, i, TubeWith(s))
    <3>1. rows[i] = loaded[i]
      <4>1. SUFFICES ASSUME rows[i] # loaded[i] PROVE FALSE
        OBVIOUS
      <4>2. i \in Late(loaded)
        BY <4>1 DEF Late
      <4>3. PICK row \in {loaded[i], rows[i]} \ {Gone} : row.tube = TubeWith(s)
        BY <1>5, <2>4 DEF Holds
      <4>4. s \in UNION {StrandsOf[r.tube] : r \in {loaded[i], rows[i]} \ {Gone}}
        BY <2>3, <4>3
      <4>5. s \in Straying(loaded)
        BY <4>2, <4>4 DEF Straying
      <4> QED BY <2>1, <4>5
    <3> QED BY <1>5, <2>4, <3>1 DEF Holds
  <2>5. \A i \in gone : s \in Released(loaded[i])
                        <=> /\ Holds(rows, i, TubeWith(s))
                            /\ module[s] = rows[i].tray
    <3>1. ASSUME NEW i \in gone
          PROVE  s \in Released(loaded[i]) <=> Holds(rows, i, TubeWith(s)) /\ module[s] = rows[i].tray
      <4>1. s \in PortsOf(loaded[i].tube) <=> TubeWith(s) = loaded[i].tube /\ module[s] # NoPort
        BY <1>5, PortsFacts
      <4>2. loaded[i].tray # NoPort
        BY <1>5, TraysAreModules
      <4>3. s \in Released(loaded[i]) <=> loaded[i].tube = TubeWith(s) /\ module[s] = loaded[i].tray
        BY <4>1, <4>2 DEF Released
      <4> QED BY <2>4, <4>3
    <3> QED BY <3>1
  <2>6. CASE module[s] = NoPort
    <3>1. module'[s] = NoPort
      <4>1. \A i \in gone : s \notin Released(loaded[i])
        BY <2>6 DEF Released, PortsOf
      <4> QED BY <1>6, <2>6, <4>1
    <3> QED BY <3>1 DEF Settled
  <2>7. CASE \E i \in DOMAIN rows : Holds(rows, i, TubeWith(s)) /\ module[s] = rows[i].tray
    <3>1. PICK i \in DOMAIN rows : Holds(rows, i, TubeWith(s)) /\ module[s] = rows[i].tray
      BY <2>7
    <3>2. \A j \in DOMAIN rows \ {i} : ~Holds(rows, j, TubeWith(s))
      BY <3>1 DEF Holds, IInv, RowsRight
    <3>3. CASE i \in gone
      <4>1. module'[s] = Device
        BY <1>6, <2>5, <3>1, <3>3
      <4>2. \A j \in DOMAIN rows' : ~Holds(rows', j, TubeWith(s))
        BY <1>3, <3>2, <3>3 DEF Holds
      <4> QED BY <4>1, <4>2 DEF Settled
    <3>4. CASE i \notin gone
      <4>1. \A j \in gone : s \notin Released(loaded[j])
        BY <2>5, <3>2, <3>4 DEF Holds
      <4>2. module'[s] = rows'[i].tray
        BY <1>3, <1>6, <3>1, <3>4, <4>1
      <4>3. Holds(rows', i, TubeWith(s))
        BY <1>3, <3>1, <3>4 DEF Holds
      <4> QED BY <1>3, <4>2, <4>3 DEF Settled
    <3> QED BY <3>3, <3>4
  <2>8. CASE (\A i \in DOMAIN rows : ~Holds(rows, i, TubeWith(s))) /\ module[s] = Device
    <3>1. module'[s] = Device
      BY <1>6, <2>8
    <3>2. \A i \in DOMAIN rows' : ~Holds(rows', i, TubeWith(s))
      BY <1>3, <2>8 DEF Holds
    <3> QED BY <3>1, <3>2 DEF Settled
  <2> QED BY <2>2, <2>6, <2>7, <2>8 DEF Settled
<1>9. DOMAIN rows \subseteq DOMAIN rows'
  BY <1>3
<1> QED BY <1>1, <1>4, <1>7, <1>8, <1>9, AnswerKeeps DEF IInv

\* Ports that are new to the closure are at device level; those of a tube that is
\* assigned already stray.
LEMMA LinkCableKeeps ==
    ASSUME IInv, NEW c \in Cable, LinkCable(c)
    PROVE  IInv'
<1> PICK new : new = UNION {StrandsOf[t] : t \in {v \in Tube : CableOf[v] = c}}
  OBVIOUS
<1>1. /\ module' = [s \in Strand |-> IF s \in new THEN Device ELSE module[s]]
      /\ strayed' = strayed \cup {s \in new : Assigned(rows, TubeWith(s))}
      /\ rows' = rows /\ request' = request
  BY DEF LinkCable
<1>2. module' \in [Strand -> Tray \cup {Device, NoPort}]
  BY <1>1 DEF IInv
<1>3. ASSUME NEW s \in Strand \ strayed'
      PROVE  Settled(s, rows', module'[s])
  <2>1. s \notin strayed
    BY <1>1
  <2>2. CASE s \in new
    <3>1. ~Assigned(rows, TubeWith(s))
      BY <1>1, <2>2
    <3>2. \A i \in DOMAIN rows : ~Holds(rows, i, TubeWith(s))
      BY <3>1 DEF Assigned, Live, Holds
    <3> QED BY <1>1, <2>2, <3>2 DEF Settled
  <2>3. CASE s \notin new
    BY <1>1, <2>1, <2>3 DEF IInv
  <2> QED BY <2>2, <2>3
<1> QED BY <1>1, <1>2, <1>3, RequestsKept DEF IInv

LEMMA MoveByHandKeeps ==
    ASSUME IInv, NEW s \in Strand, NEW m \in Tray \cup {Device}, MoveByHand(s, m)
    PROVE  IInv'
<1>1. /\ module' = [module EXCEPT ![s] = m]
      /\ strayed' = strayed \cup {s}
      /\ rows' = rows /\ request' = request
  BY DEF MoveByHand
<1>2. module' \in [Strand -> Tray \cup {Device, NoPort}]
  BY <1>1 DEF IInv
<1>3. \A p \in Strand \ strayed' : Settled(p, rows', module'[p])
  BY <1>1 DEF IInv
<1> QED BY <1>1, <1>2, <1>3, RequestsKept DEF IInv

\* Steps that leave rows and ports alone.
LEMMA RestKeeps ==
    ASSUME IInv, rows' = rows, module' = module, strayed' = strayed,
           request' = request \/ \E u \in User : Answer(u)
    PROVE  IInv'
BY AnswerKeeps, RequestsKept DEF IInv

(***************************************************************************)
(* Every step.                                                             *)
(***************************************************************************)

LEMMA StepIInv == IInv /\ [Next]_vars => IInv'
<1> SUFFICES ASSUME IInv, [Next]_vars PROVE IInv'
  OBVIOUS
<1>1. CASE UNCHANGED vars
  BY <1>1, RestKeeps DEF vars
<1>2. ASSUME NEW u \in User, NEW t \in Tube, NEW m \in Tray, CheckAssign(u, t, m)
      PROVE  IInv'
  <2> DEFINE req == [op |-> "assign", tube |-> t, tray |-> m, confirmed |-> Conflicting(t, {m})]
  <2>1. RequestRight(req, rows)
    BY DEF RequestRight
  <2>2. Ask(u, req)
    BY <1>2 DEF CheckAssign
  <2> QED BY <2>1, <2>2, AskKeeps
<1>3. ASSUME NEW u \in User, NEW t \in Tube, NEW m \in Tray,
             NEW i \in DOMAIN rows, CheckEdit(u, i, t, m)
      PROVE  IInv'
  <2> DEFINE req == [op |-> "edit", row |-> i, tube |-> t, tray |-> m,
                   confirmed |-> Conflicting(t, {m, rows[i].tray})]
  <2>1. RequestRight(req, rows)
    BY DEF RequestRight
  <2>2. Ask(u, req)
    BY <1>3 DEF CheckEdit
  <2> QED BY <2>1, <2>2, AskKeeps
<1>4. ASSUME NEW u \in User, NEW y \in TrayType, NEW r \in Role \ {"none"}, CheckProfile(u, y, r)
      PROVE  IInv'
  <2> DEFINE req == [op |-> "profile", type |-> y, role |-> r]
  <2>1. RequestRight(req, rows)
    BY DEF RequestRight
  <2>2. Ask(u, req)
    BY <1>4 DEF CheckProfile
  <2> QED BY <2>1, <2>2, AskKeeps
<1>5. ASSUME NEW u \in User, PlanAuto(u)
      PROVE  IInv'
  <2> PICK req : req = [op |-> "auto", placed |-> Placed]
    OBVIOUS
  <2>1. RequestRight(req, rows)
    BY DEF RequestRight
  <2>2. Ask(u, req)
    BY <1>5 DEF PlanAuto
  <2> QED BY <2>1, <2>2, AskKeeps
<1>6. ASSUME NEW u \in User, WriteProfile(u) \/ WriteFails(u) \/ AutoFails(u)
      PROVE  IInv'
  BY <1>6, RestKeeps DEF WriteProfile, WriteFails, AutoFails
<1>7. ASSUME NEW u \in User, NEW t \in Tube, Unassign(u, t)
      PROVE  IInv'
  BY <1>7, LoadRowsKeeps DEF Unassign
<1>8. ASSUME NEW u \in User, NEW c \in Cable, LeaveCable(u, c)
      PROVE  IInv'
  BY <1>8, LoadRowsKeeps DEF LeaveCable
<1>9. ASSUME NEW y \in TrayType, DeleteProfile(y)
      PROVE  IInv'
  BY <1>9, RestKeeps DEF DeleteProfile
<1>10. ASSUME NEW c \in Cable, NEW d \in Cable, EnterCable(c) \/ RepointEntry(c, d)
       PROVE  IInv'
  BY <1>10, RestKeeps DEF EnterCable, RepointEntry
<1> QED BY <1>1, <1>2, <1>3, <1>4, <1>5, <1>6, <1>7, <1>8, <1>9, <1>10,
           WriteAssignKeeps, WriteEditKeeps, WriteAutoKeeps, DeleteRowsKeeps, LinkCableKeeps, MoveByHandKeeps DEF Next

\* A port that nobody moved by hand, and that was there when its tube was
\* assigned, sits on the tube's tray while the tube is assigned and at device
\* level when it is not, for any number of users: what the signals of
\* TubeAssignment (pre_save, post_save, post_delete) and assign_tubes keep
\* together when an edit is checked against rows that others then re-point,
\* delete or fill (sync_tube_assignment_ports, clear_tube_assignment_ports).
\* A deletion keeps it for every tube but those of a row that was written or
\* deleted after the deletion had loaded it: post_delete releases the ports of
\* the row as loaded, so those tubes stray until they are assigned anew.
THEOREM PortsFollow == Spec => []PortsFollowTube
<1>1. IInv => PortsFollowTube
  BY FollowsAsSettled DEF IInv
<1> QED BY <1>1, InitIInv, StepIInv, PTL DEF Spec
===============================================================================
