----------------------------- MODULE FaultRecord ------------------------------
(***************************************************************************)
(* One FiberFault row: its evidence, where it is said to be and how firmly *)
(* that is known, edited through forms, the REST API and the two location  *)
(* actions while cables are measured again and devices deleted.            *)
(*                                                                         *)
(* Every edit reads the row, changes its copy and writes the whole row, in *)
(* its own database calls.  What the estimator computes is a constant; how *)
(* is in FaultShot.  Closures and distances are taken as fitting the       *)
(* cable.                                                                  *)
(***************************************************************************)
EXTENDS Integers, FiniteSets

CONSTANTS
    User,
    Cable,
    Network,     \* states of the records an estimate is computed from
    Distance,
    Closure,
    EstimateOf,  \* EstimateOf[e][c][n]: distance from evidence e on cable c, or Unset
    Unset,
    Entered,     \* bound: the combinations of evidence entered
    MaxEdit      \* bound: edits submitted

VARIABLES
    row,      \* the stored fault
    page,     \* page[u]: the location the form user u has open shows, or Closed
    request,  \* request[u]: u's edit between its read and its write, or Idle
    net,      \* the cables as recorded now
    deleted,  \* which of the records the evidence refers to were deleted
    edits     \* edits submitted so far, for the bound

recordVars == <<row, page, request, net, deleted, edits>>

\* Evidence is the set of the fields filled in; origin and strand refer to records.
Evidence == SUBSET {"mark", "origin", "distance", "strand"}
Reference == {"origin", "strand"}
Status == {"none", "estimated", "confirmed"}
NoBasis == <<>>
Location == {<<Unset, Unset>>} \cup (Closure \X {Unset}) \cup ({Unset} \X Distance)

ASSUME FaultRecordAssumption ==
    /\ EstimateOf \in [Evidence -> [Cable -> [Network -> Distance \cup {Unset}]]]
    /\ Entered \subseteq Evidence
    /\ MaxEdit \in Nat

\* The last two fields are history: what the location was estimated from, and
\* whether a person picked or accepted it.
Fault ==
    [cable : Cable, evidence : Evidence, at : Location, status : Status, note : BOOLEAN,
     basis : {NoBasis} \cup (Evidence \X Cable \X Network), accepted : BOOLEAN]

Closed == <<>>
Idle == [idle |-> TRUE]
Nowhere == <<Unset, Unset>>

RecordTypeOK ==
    /\ row \in Fault
    /\ \A u \in User : page[u] = Closed \/ page[u] \in Location
    /\ \A u \in User : request[u] = Idle \/ request[u] \in [old : Fault, new : Fault]
    /\ net \in Network /\ deleted \subseteq Reference /\ edits \in 0 .. MaxEdit

(***************************************************************************)
(* The location rules.                                                     *)
(***************************************************************************)

\* Mutant: the status is left as it was.
KeepStatus(f) == [f EXCEPT !.at = Nowhere, !.note = FALSE, !.accepted = FALSE, !.basis = NoBasis]

\* clear_located_at
ClearLocatedAt(f) ==
    [f EXCEPT !.at = Nowhere, !.status = "none", !.note = FALSE, !.accepted = FALSE, !.basis = NoBasis]

\* confirm_located_at
ConfirmLocatedAt(f, accepted) ==
    [f EXCEPT !.status = "confirmed", !.note = FALSE, !.accepted = accepted]

\* Mutant: a confirmed location is estimated again.
NeverFixed(f) == FALSE

Fixed(f) == f.status = "confirmed"

\* apply_estimate: a note in place of a distance that cannot be estimated.
ApplyEstimate(f) ==
    LET d == EstimateOf[f.evidence][f.cable][net]
        clear == ClearLocatedAt(f)
    IN  IF Fixed(f) THEN f
        ELSE IF f.evidence \cap {"mark", "distance"} = {} THEN clear
        ELSE IF d = Unset THEN [clear EXCEPT !.note = TRUE]
        ELSE [clear EXCEPT !.at = <<Unset, d>>, !.status = "estimated", !.basis = <<f.evidence, f.cable, net>>]

\* apply_user_located_at
ApplyUserLocatedAt(f, at, picked) ==
    IF at = f.at THEN f
    ELSE IF at = Nowhere THEN ClearLocatedAt(f)
    ELSE ConfirmLocatedAt([f EXCEPT !.at = at], picked)

\* Mutant: an edit never re-estimates.
SameEvidence(stored, f) == TRUE

EvidenceKept(stored, f) == stored.evidence = f.evidence

\* save
Saved(stored, f) == IF EvidenceKept(stored, f) THEN f ELSE ApplyEstimate(f)

(***************************************************************************)
(* Edits.                                                                  *)
(***************************************************************************)

Open(u) ==
    /\ page[u] = Closed /\ request[u] = Idle
    /\ page' = [page EXCEPT ![u] = row.at]
    /\ UNCHANGED <<row, request, net, deleted, edits>>

Submit(u, new) ==
    /\ request[u] = Idle
    /\ edits < MaxEdit /\ edits' = edits + 1
    /\ request' = [request EXCEPT ![u] = [old |-> row, new |-> new]]
    /\ UNCHANGED <<row, net, deleted>>

\* clean(): an origin and a distance go together, and records referred to exist.
Cleaned(e) == ("origin" \in e <=> "distance" \in e) /\ e \cap deleted = {}

\* The form submits every field, those left alone as the page shows them: any
\* cable and evidence, and a location that is picked if it is not the page's.
Post(u, c, e, at) ==
    /\ page[u] # Closed
    /\ Cleaned(e)
    /\ Submit(u, ApplyUserLocatedAt([row EXCEPT !.cable = c, !.evidence = e], at, at # page[u]))
    /\ page' = [page EXCEPT ![u] = Closed]

\* Mutant: both are accepted.
Both(at) == TRUE

\* _clean_location: a closure or a distance, not both.
OneLocation(at) == Unset \in {at[1], at[2]}

\* A PATCH submits the evidence, the closure (1) or the distance (2).
PatchEvidence(u, e) ==
    /\ Cleaned(e)
    /\ Submit(u, [row EXCEPT !.evidence = e])
    /\ UNCHANGED page

PatchLocation(u, field, value) ==
    LET at == [row.at EXCEPT ![field] = value] IN
    /\ Cleaned(row.evidence)
    /\ OneLocation(at)
    /\ Submit(u, ApplyUserLocatedAt(row, at, TRUE))
    /\ UNCHANGED page

\* confirm_estimate
ConfirmEstimate(u) ==
    /\ row.status = "estimated"
    /\ Submit(u, ConfirmLocatedAt(row, TRUE))
    /\ UNCHANGED page

\* reestimate
Reestimate(u) ==
    /\ row.status # "confirmed"
    /\ Submit(u, ApplyEstimate(row))
    /\ UNCHANGED page

\* The foreign key of a deleted record fails the write.  History: a copy that
\* is no longer the row brings its location, and its evidence may not be
\* what the location came from.
Write(u) ==
    LET new == request[u].new IN
    /\ request[u] # Idle
    /\ new.evidence \cap deleted = {}
    /\ row' = IF EvidenceKept(row, new) /\ request[u].old # row
              THEN [new EXCEPT !.basis = NoBasis] ELSE Saved(row, new)
    /\ request' = [request EXCEPT ![u] = Idle]
    /\ UNCHANGED <<page, net, deleted, edits>>

WriteFails(u) ==
    /\ request[u] # Idle
    /\ request[u].new.evidence \cap deleted # {}
    /\ request' = [request EXCEPT ![u] = Idle]
    /\ UNCHANGED <<row, page, net, deleted, edits>>

\* Cables are measured, paths analysed again.
Remeasure(n) ==
    /\ net # n /\ net' = n
    /\ UNCHANGED <<row, page, request, deleted, edits>>

\* The device or the strand of the shot is deleted: its column is nulled in the
\* database, without save().
DeleteReference(field) ==
    /\ field \notin deleted /\ deleted' = deleted \cup {field}
    /\ row' = [row EXCEPT !.evidence = @ \ {field}]
    /\ UNCHANGED <<page, request, net, edits>>

\* A fault reported without evidence or location.
RecordInit ==
    /\ \E c \in Cable :
        row = [cable |-> c, evidence |-> {}, at |-> Nowhere, status |-> "none", note |-> FALSE,
               basis |-> NoBasis, accepted |-> FALSE]
    /\ page = [u \in User |-> Closed]
    /\ request = [u \in User |-> Idle]
    /\ net \in Network /\ deleted = {} /\ edits = 0

RecordNext ==
    \/ \E u \in User :
        \/ Open(u)
        \/ \E c \in Cable, e \in Entered, at \in Location : Post(u, c, e, at)
        \/ \E e \in Entered : PatchEvidence(u, e)
        \/ \E field \in {1, 2}, value \in Closure \cup Distance \cup {Unset} :
            /\ value \in {Unset} \cup (IF field = 1 THEN Closure ELSE Distance)
            /\ PatchLocation(u, field, value)
        \/ ConfirmEstimate(u) \/ Reestimate(u)
        \/ Write(u) \/ WriteFails(u)
    \/ \E n \in Network : Remeasure(n)
    \/ \E field \in Reference : DeleteReference(field)

RecordSpec == RecordInit /\ [][RecordNext]_recordVars

(***************************************************************************)
(* Properties.                                                             *)
(***************************************************************************)

\* The status tells what the row holds, whatever edits overlap: a location
\* exactly when there is a status, only a distance when estimated, and a note
\* only where an estimate could not be made (models.py:1334, 1339).
StatusTellsLocation ==
    /\ row.status = "none" <=> row.at = Nowhere
    /\ row.status = "estimated" => row.at[2] # Unset
    /\ row.note => row.status = "none"

\* An estimated distance is what the estimator made of the evidence the row
\* holds, through edits of the evidence, re-estimates and moves of the row from
\* stale pages, but for two cases.  Deleting the device or the strand of the shot
\* takes it from the evidence and re-estimates nothing: the estimate is then that
\* of the evidence with the deleted record, and of nothing else.  And a save
\* over another edit may bring any (models.py:1399: the evidence is compared
\* with the row as saved, the location is the one that was read).
EstimateFollowsEvidence ==
    row.status = "estimated" /\ row.basis # NoBasis =>
        LET e == row.basis[1] IN
        /\ row.at[2] = EstimateOf[e][row.basis[2]][row.basis[3]]
        /\ row.evidence = e \ deleted

\* "Editing the evidence afterwards does not change a confirmed location"
\* (docs/user-guide/fiber-faults.md): it changes by an edit that submits
\* another location, or by one that read the row before it was confirmed.  A row read
\* while another location was confirmed counts as the former: its save brings that back.
ConfirmedKept ==
    [][row.status = "confirmed" /\ <<row'.at, row'.status>> # <<row.at, row.status>>
        => \E u \in User :
            /\ request[u] # Idle /\ request'[u] = Idle
            /\ \/ request[u].new.at # row.at
               \/ request[u].old.status # "confirmed"]_recordVars

\* "Confirmed means a person picked it or accepted the estimate"
\* (docs/user-guide/fiber-faults.md): a location no user entered or confirmed is
\* not confirmed.
ConfirmedByPerson == row.status = "confirmed" => row.accepted
===============================================================================
