-------------------------- MODULE ChangeBatch_proofs --------------------------
(***************************************************************************)
(* The callbacks of path_queue.py keep the promise of ChangeQueue.  What   *)
(* a list of callbacks names at each savepoint level is counted by the     *)
(* positions of its callbacks with rows; the flushes of a list are in an   *)
(* order that leaves the newest after all rows.                            *)
(***************************************************************************)
EXTENDS ChangeBatch, FiniteSetTheorems, TLAPS

\* A set of numbers has a least one.
LEMMA NatMin ==
    ASSUME NEW T \in SUBSET Nat, T # {}
    PROVE  \E n \in T : \A m \in T : n <= m
<1>1. PICK R : R = {ss \in Nat \X Nat : ss[1] < ss[2]}
  OBVIOUS
<1>2. IsWellFoundedOn(R, Nat)
  BY <1>1, NatLessThanWellFounded DEF OpToRel
<1>3. PICK n \in T : \A m \in T : ~(<<m, n>> \in R)
  BY <1>2, WFMin
<1>4. ASSUME NEW m \in T, ~(n <= m) PROVE FALSE
  <2>1. m < n /\ m \in Nat /\ n \in Nat
    BY <1>4
  <2>2. <<m, n>> \in R
    BY <2>1, <1>1
  <2> QED BY <2>2, <1>3
<1> QED BY <1>4

\* A bounded set of numbers has a greatest one.
LEMMA MaxOf ==
    ASSUME NEW T \in SUBSET Nat, T # {}, NEW b \in Nat, \A m \in T : m <= b
    PROVE  \E n \in T : \A m \in T : m <= n
<1>1. PICK D : D = {b - m : m \in T}
  OBVIOUS
<1>2. D \in SUBSET Nat /\ D # {}
  <2>1. ASSUME NEW m \in T PROVE b - m \in Nat
    BY m \in Nat, m <= b
  <2>2. D # {}
    BY <1>1
  <2> QED BY <1>1, <2>1, <2>2
<1>3. PICK d \in D : \A e \in D : d <= e
  BY <1>2, NatMin
<1>4. PICK n \in T : d = b - n
  BY <1>1
<1>5. ASSUME NEW m \in T PROVE m <= n
  <2>1. b - m \in D
    BY <1>1
  <2>2. d <= b - m
    BY <2>1, <1>3
  <2> QED BY <2>2, <1>4
<1> QED BY <1>5

\* The members of a finite set of numbers can be counted off.
Nth(I, k) == CHOOSE i \in I : Cardinality({j \in I : j <= i}) = k

\* The k-th of a set of positions is one of them and has k of them up to it.
LEMMA NthIs ==
    ASSUME NEW b \in Nat, NEW I \in SUBSET (1 .. b), NEW k \in 1 .. Cardinality(I)
    PROVE  /\ Nth(I, k) \in I
           /\ Cardinality({j \in I : j <= Nth(I, k)}) = k
<1> DEFINE Upto(i) == {j \in I : j <= i}
<1>0. IsFiniteSet(I) /\ I \in SUBSET Nat
  <2>1. IsFiniteSet(1 .. b)
    <3>1. 1 \in Int /\ b \in Int
      OBVIOUS
    <3> QED BY <3>1, FS_Interval
  <2>2. IsFiniteSet(I)
    BY <2>1, FS_Subset
  <2> QED BY <2>2
<1>1. \A i : IsFiniteSet(Upto(i)) /\ Cardinality(Upto(i)) \in Nat
  BY <1>0, FS_Subset, FS_CardinalityType
<1>2. Cardinality(I) \in Nat
  BY <1>0, FS_CardinalityType
<1>3. \E i \in I : k <= Cardinality(Upto(i))
  <2>3. PICK n \in I : \A m \in I : m <= n
    <3>1. I # {}
      BY <1>0, <1>2, FS_EmptySet
    <3>2. \A m \in I : m <= b
      OBVIOUS
    <3> QED BY <3>1, <3>2, <1>0, MaxOf
  <2>4. Upto(n) = I
    BY <2>3
  <2> QED BY <2>4, <1>2
<1>4. PICK i \in I : /\ k <= Cardinality(Upto(i))
                     /\ \A j \in I : k <= Cardinality(Upto(j)) => i <= j
  <2>1. PICK T : T = {i \in I : k <= Cardinality(Upto(i))}
    OBVIOUS
  <2>2. PICK i \in T : \A j \in T : i <= j
    <3>1. T \in SUBSET Nat /\ T # {}
      BY <2>1, <1>3, <1>0
    <3> QED BY <3>1, NatMin
  <2> QED BY <2>1, <2>2
<1>5. Cardinality(Upto(i)) = k
  <2>1. SUFFICES ASSUME k < Cardinality(Upto(i))
                 PROVE  FALSE
    BY <1>4, <1>1, <1>2
  <2>2. PICK S : S = Upto(i) \ {i}
    OBVIOUS
  <2>3. Cardinality(S) = Cardinality(Upto(i)) - 1
    <3>1. IsFiniteSet(Upto(i)) /\ i \in Upto(i)
      BY <1>1
    <3> HIDE DEF Upto
    <3> QED BY <3>1, <2>2, FS_RemoveElement
  <2>4. k <= Cardinality(S)
    BY <2>3, <2>1, <1>1, <1>2
  <2>5. S # {}
    BY <2>4, FS_EmptySet, <1>2
  <2>6. \A m \in S : m <= i
    BY <2>2
  <2>7. PICK n \in S : \A m \in S : m <= n
    BY <2>5, <2>6, <2>2, MaxOf
  <2>8. S = Upto(n)
    <3>1. n \in I /\ n < i
      BY <2>7, <2>2
    <3>2. ASSUME NEW m \in Upto(n) PROVE m \in S
      BY <3>1, <2>2
    <3>3. ASSUME NEW m \in S PROVE m \in Upto(n)
      BY <2>7, <2>2
    <3> QED BY <3>2, <3>3
  <2>9. i <= n
    BY <2>8, <2>4, <1>4, <2>2
  <2> QED BY <2>9, <2>2
<1> QED BY <1>5 DEF Nth

\* Sets of positions of a list are finite.
LEMMA PlacesFinite ==
    ASSUME NEW list, NEW T, list \in Seq(T), NEW I \in SUBSET DOMAIN list
    PROVE  /\ IsFiniteSet(I) /\ Cardinality(I) \in Nat
           /\ I \in SUBSET (1 .. Len(list)) /\ Len(list) \in Nat
<1>1. Len(list) \in Nat /\ DOMAIN list = 1 .. Len(list)
  OBVIOUS
<1>2. IsFiniteSet(1 .. Len(list))
  <2>1. 1 \in Int /\ Len(list) \in Int
    BY <1>1
  <2> QED BY <2>1, FS_Interval
<1> QED BY <1>1, <1>2, FS_Subset, FS_CardinalityType

\* f counts the positions I of a list off, in order.
Filters(f, I, n) ==
    /\ f \in [1 .. n -> I]
    /\ \A k, l \in 1 .. n : k < l => f[k] < f[l]
    /\ \A i \in I : \E k \in 1 .. n : f[k] = i

Picks(f, list, sid, out) ==
    /\ Filters(f, {i \in DOMAIN list : sid \notin list[i].sids}, Len(out))
    /\ \A k \in 1 .. Len(out) : out[k] = list[f[k]]

\* What a rollback keeps of a list.
LEMMA KeptIs ==
    ASSUME NEW T, NEW list \in Seq(T), NEW sid
    PROVE  /\ Kept(list, sid) \in Seq(T)
           /\ \E f : Picks(f, list, sid, Kept(list, sid))
<1>1. PICK I : I = {i \in DOMAIN list : sid \notin list[i].sids}
  OBVIOUS
<1>2. IsFiniteSet(I) /\ Cardinality(I) \in Nat /\ I \in SUBSET (1 .. Len(list)) /\ Len(list) \in Nat
  BY <1>1, PlacesFinite
<1>15. \A i \in I : i \in Nat /\ i \in DOMAIN list
  BY <1>1, <1>2
<1>3. PICK n : n = Cardinality(I)
  OBVIOUS
<1>4. PICK f : f = [k \in 1 .. n |-> Nth(I, k)]
  OBVIOUS
<1> DEFINE Upto(i) == {j \in I : j <= i}
<1>5. \A k \in 1 .. n : f[k] \in I /\ Cardinality(Upto(f[k])) = k
  BY <1>2, <1>3, <1>4, NthIs
<1>6. \A i : IsFiniteSet(Upto(i)) /\ Cardinality(Upto(i)) \in Nat /\ Cardinality(Upto(i)) <= n
  BY <1>2, <1>3, FS_Subset, FS_CardinalityType
<1>7. ASSUME NEW i \in I, NEW j \in I, i < j
      PROVE  Cardinality(Upto(i)) < Cardinality(Upto(j))
  <2>1. Upto(i) \in SUBSET Upto(j) /\ j \in Upto(j) /\ j \notin Upto(i)
    BY <1>15, <1>7
  <2>2. /\ Cardinality(Upto(i)) <= Cardinality(Upto(j))
        /\ Cardinality(Upto(j)) = Cardinality(Upto(i)) => Upto(j) = Upto(i)
    <3> HIDE DEF Upto
    <3> QED BY <2>1, <1>6, FS_Subset
  <2> HIDE DEF Upto
  <2> QED BY <2>1, <2>2, <1>6
<1>8. \A i \in I : Cardinality(Upto(i)) >= 1
  <2>1. ASSUME NEW i \in I PROVE Cardinality(Upto(i)) # 0
    <3>1. Upto(i) # {}
      BY <1>2
    <3> HIDE DEF Upto
    <3> QED BY <3>1, <1>6, FS_EmptySet
  <2> HIDE DEF Upto
  <2> QED BY <2>1, <1>6
<1> HIDE DEF Upto
<1>9. \A i \in I : \E k \in 1 .. n : f[k] = i
  <2>1. SUFFICES ASSUME NEW i \in I
                 PROVE  \E k \in 1 .. n : f[k] = i
    OBVIOUS
  <2>2. PICK k \in 1 .. n : k = Cardinality(Upto(i))
    BY <1>2, <1>3, <1>6, <1>8
  <2>3. f[k] \in I /\ Cardinality(Upto(f[k])) = k
    BY <1>5
  <2>4. ~ f[k] < i /\ ~ i < f[k]
    BY <2>2, <2>3, <1>7
  <2>5. f[k] = i
    BY <2>3, <2>4, <1>15
  <2> QED BY <2>5
<1>10. \A k, l \in 1 .. n : k < l => f[k] < f[l]
  <2>1. SUFFICES ASSUME NEW k \in 1 .. n, NEW l \in 1 .. n, k < l
                 PROVE  f[k] < f[l]
    OBVIOUS
  <2>2. /\ f[k] \in I /\ Cardinality(Upto(f[k])) = k
        /\ f[l] \in I /\ Cardinality(Upto(f[l])) = l
    BY <1>5
  <2>3. k \in Nat /\ l \in Nat
    BY <1>2, <1>3
  <2>4. f[k] # f[l]
    BY <2>1, <2>2, <2>3
  <2>5. ~ f[l] < f[k]
    <3>1. SUFFICES ASSUME f[l] < f[k] PROVE FALSE
      OBVIOUS
    <3>2. Cardinality(Upto(f[l])) < Cardinality(Upto(f[k]))
      BY <2>2, <3>1, <1>7
    <3> QED BY <2>1, <2>2, <2>3, <3>2
  <2> QED BY <2>2, <2>4, <2>5, <1>15
<1>11. f \in [1 .. n -> I]
  BY <1>4, <1>5
<1>12. PICK out : out = Kept(list, sid)
  OBVIOUS
<1>13. out = [k \in 1 .. n |-> list[f[k]]]
  <2>1. out = [k \in 1 .. n |-> list[Nth(I, k)]]
    BY <1>1, <1>3, <1>12 DEF Kept, Nth
  <2> QED BY <2>1, <1>4
<1>14. out \in Seq(T) /\ Len(out) = n
  <2>1. \A k \in 1 .. n : list[f[k]] \in T
    BY <1>5, <1>15
  <2> QED BY <2>1, <1>13, <1>2, <1>3
<1>16. Filters(f, I, n)
  BY <1>9, <1>10, <1>11 DEF Filters
<1>17. \A k \in 1 .. n : out[k] = list[f[k]]
  BY <1>13
<1>18. Picks(f, list, sid, out)
  BY <1>1, <1>14, <1>16, <1>17 DEF Picks
<1> QED BY <1>12, <1>14, <1>18

\* A function that names every member of B once from A shows they count the same.
LEMMA Counted ==
    ASSUME NEW A, IsFiniteSet(A), NEW B, NEW f, \A a \in A : f[a] \in B,
           \A a, c \in A : f[a] = f[c] => a = c, \A b \in B : \E a \in A : f[a] = b
    PROVE  Cardinality(A) = Cardinality(B)
<1>1. PICK g : g = [a \in A |-> f[a]]
  OBVIOUS
<1>2. g \in [A -> B] /\ \A a \in A : g[a] = f[a]
  BY <1>1
<1>3. IsInjective(g)
  BY <1>1 DEF IsInjective
<1>4. g \in Injection(A, B)
  BY <1>2, <1>3 DEF Injection
<1>5. g \in Surjection(A, B)
  BY <1>2 DEF Surjection
<1>6. ExistsBijection(A, B)
  BY <1>4, <1>5 DEF ExistsBijection, Bijection
<1> QED BY <1>6, FS_Bijection

(***************************************************************************)
(* Savepoint levels.                                                       *)
(***************************************************************************)

Level(h, op) == Cardinality(h.sids \cap Range(op))

\* Savepoints are open in the order of their ids, and a callback registered in one
\* was registered in those around it.
Ascending(op) == op \in Seq(Nat) /\ \A i, j \in 1 .. Len(op) : i < j => op[i] < op[j]
Nested(h, op) == \A i, j \in 1 .. Len(op) : i < j /\ op[j] \in h.sids => op[i] \in h.sids

\* The level of a callback is the number of open savepoints it was registered in.
LEMMA LevelIs ==
    ASSUME NEW h, NEW op, Ascending(op), Nested(h, op)
    PROVE  /\ Level(h, op) \in 0 .. Len(op)
           /\ \A i \in 1 .. Len(op) : (op[i] \in h.sids) <=> (i <= Level(h, op))
<1>1. Len(op) \in Nat /\ DOMAIN op = 1 .. Len(op) /\ \A i \in 1 .. Len(op) : op[i] \in Nat
  BY DEF Ascending
<1>2. PICK n \in 0 .. Len(op) : \A i \in 1 .. Len(op) : (op[i] \in h.sids) <=> (i <= n)
  <2>1. PICK out : out = {i \in 1 .. Len(op) + 1 : i = Len(op) + 1 \/ op[i] \notin h.sids}
    OBVIOUS
  <2>2. out \in SUBSET Nat /\ Len(op) + 1 \in out
    BY <2>1, <1>1
  <2>3. PICK m \in out : \A i \in out : m <= i
    BY <2>2, NatMin
  <2>4. m \in 1 .. Len(op) + 1 /\ m - 1 \in 0 .. Len(op)
    BY <2>1, <1>1
  <2>5. ASSUME NEW i \in 1 .. Len(op) PROVE (op[i] \in h.sids) <=> (i <= m - 1)
    <3>1. i \in Nat /\ m \in Nat
      BY <1>1, <2>4
    <3>2. CASE i < m
      <4>1. i \notin out
        BY <2>3, <3>1, <3>2
      <4> QED BY <4>1, <2>1, <3>1, <3>2, <1>1
    <3>3. CASE m <= i
      <4>1. m # Len(op) + 1 /\ m \in 1 .. Len(op)
        BY <3>1, <3>3, <2>4, <1>1
      <4>2. op[m] \notin h.sids
        BY <2>1, <4>1
      <4>3. op[i] \notin h.sids
        BY <4>1, <4>2, <3>1, <3>3 DEF Nested
      <4> QED BY <4>3, <3>1, <3>3
    <3> QED BY <3>1, <3>2, <3>3
  <2> QED BY <2>4, <2>5
<1>3. PICK S : S = h.sids \cap Range(op)
  OBVIOUS
<1>4. IsFiniteSet(1 .. n) /\ Cardinality(1 .. n) = n
  <2>1. 1 \in Int /\ n \in Int
    BY <1>1
  <2>2. IsFiniteSet(1 .. n) /\ Cardinality(1 .. n) = IF 1 > n THEN 0 ELSE n - 1 + 1
    BY <2>1, FS_Interval
  <2> QED BY <2>2, <1>1
<1>5. \A i \in 1 .. n : i \in 1 .. Len(op) /\ op[i] \in S
  BY <1>1, <1>2, <1>3 DEF Range
<1>6. \A i, j \in 1 .. n : op[i] = op[j] => i = j
  <2>1. SUFFICES ASSUME NEW i \in 1 .. n, NEW j \in 1 .. n, op[i] = op[j], i # j
                 PROVE  FALSE
    OBVIOUS
  <2>2. i \in 1 .. Len(op) /\ j \in 1 .. Len(op)
    BY <1>5
  <2>3. op[i] \in Nat /\ i \in Nat /\ j \in Nat
    BY <2>2, <1>1
  <2>4. i < j \/ j < i
    BY <2>1, <2>3
  <2>5. op[i] < op[j] \/ op[j] < op[i]
    BY <2>2, <2>4 DEF Ascending
  <2> QED BY <2>1, <2>3, <2>5
<1>7. \A s \in S : \E i \in 1 .. n : op[i] = s
  <2>1. SUFFICES ASSUME NEW s \in S
                 PROVE  \E i \in 1 .. n : op[i] = s
    OBVIOUS
  <2>2. PICK i \in 1 .. Len(op) : op[i] = s
    BY <1>1, <1>3 DEF Range
  <2>3. i <= n
    BY <2>2, <1>2, <1>3
  <2> QED BY <2>2, <2>3, <1>1
<1>8. Cardinality(S) = n
  BY <1>4, <1>5, <1>6, <1>7, Counted
<1> QED BY <1>2, <1>3, <1>8 DEF Level

(***************************************************************************)
(* What each level names.                                                  *)
(***************************************************************************)

RowsAt(hs, op, n, d) ==
    {i \in DOMAIN hs : hs[i].kind = "rows" /\ Level(hs[i], op) = n /\ d \in hs[i].devs}

Tallies(hs, op) ==
    [n \in 1 .. Len(op) + 1 |-> [d \in Device |-> Cardinality(RowsAt(hs, op, n - 1, d))]]

\* What the levels name, by the positions in the list.
LEMMA LevelsAre ==
    ASSUME NEW hs, NEW op
    PROVE  [n \in 1 .. Len(op) + 1 |->
              Named(hs, {h \in Range(hs) : Cardinality(h.sids \cap Range(op)) = n - 1})]
             = Tallies(hs, op)
<1> DEFINE At(n) == {h \in Range(hs) : Cardinality(h.sids \cap Range(op)) = n - 1}
<1>1. ASSUME NEW n \in 1 .. Len(op) + 1, NEW d \in Device
      PROVE  {i \in DOMAIN hs : /\ hs[i].kind = "rows"
                                /\ hs[i] \in At(n)
                                /\ d \in hs[i].devs} = RowsAt(hs, op, n - 1, d)
  BY DEF RowsAt, Level, Range
<1>2. ASSUME NEW n \in 1 .. Len(op) + 1
      PROVE  Named(hs, At(n)) = [d \in Device |-> Cardinality(RowsAt(hs, op, n - 1, d))]
  BY <1>1 DEF Named
<1> QED BY <1>2 DEF Tallies

\* All but the last element of a sequence, and the last.
LEMMA FrontIs ==
    ASSUME NEW T, NEW s \in Seq(T), s # <<>>
    PROVE  /\ Front(s) \in Seq(T) /\ Len(s) \in Nat /\ Len(s) >= 1
           /\ Len(Front(s)) = Len(s) - 1
           /\ \A i \in 1 .. Len(s) - 1 : Front(s)[i] = s[i]
           /\ Last(s) = s[Len(s)] /\ Last(s) \in T
<1>1. Len(s) \in Nat /\ Len(s) >= 1
  OBVIOUS
<1>2. PICK n : n = Len(s) - 1
  OBVIOUS
<1>3. n \in Nat /\ n <= Len(s)
  BY <1>1, <1>2
<1>4. Front(s) = [i \in 1 .. n |-> s[i]]
  BY <1>1, <1>2 DEF Front
<1>5. Front(s) \in Seq(T) /\ Len(Front(s)) = n
  <2>1. \A i \in 1 .. n : s[i] \in T
    BY <1>1, <1>3
  <2> QED BY <2>1, <1>3, <1>4
<1> QED BY <1>1, <1>2, <1>4, <1>5 DEF Last

\* Sequences equal place by place are equal.
LEMMA SameSeq ==
    ASSUME NEW T, NEW s \in Seq(T), NEW t \in Seq(T), Len(s) = Len(t),
           \A i \in 1 .. Len(s) : s[i] = t[i]
    PROVE  s = t
OBVIOUS

\* The callbacks of a transaction in which u savepoints have been made.
Fitting(hs, op, u) ==
    /\ hs \in Seq(Hook) /\ Ascending(op) /\ u \in Nat
    /\ \A i \in 1 .. Len(op) : op[i] <= u
    /\ \A i \in DOMAIN hs : /\ \A s \in hs[i].sids : s <= u
                            /\ Nested(hs[i], op)
                            /\ hs[i].kind = "flush" => hs[i].sids = {}

\* Savepoint ids are numbers.
LEMMA SidsAreNat ==
    ASSUME NEW hs \in Seq(Hook), NEW i \in DOMAIN hs
    PROVE  hs[i].sids \in SUBSET Nat
<1>1. hs[i] \in Hook
  OBVIOUS
<1>2. hs[i].sids \in SUBSET (1 .. MaxSavepoint)
  BY <1>1 DEF Hook
<1>3. \A s \in 1 .. MaxSavepoint : s \in Nat
  BY ChangeBatchAssumption
<1> QED BY <1>2, <1>3

\* What the mapping counts at each level: the callbacks with rows of that level.
LEMMA TalliesAre ==
    ASSUME NEW hs \in Seq(Hook), NEW op \in Seq(Nat)
    PROVE  /\ Tallies(hs, op) \in Seq(Tally)
           /\ Len(Tallies(hs, op)) = Len(op) + 1 /\ Len(op) \in Nat
           /\ \A n \in 1 .. Len(op) + 1 : \A d \in Device :
                 Tallies(hs, op)[n][d] = Cardinality(RowsAt(hs, op, n - 1, d))
<1>1. ASSUME NEW n, NEW d PROVE Cardinality(RowsAt(hs, op, n, d)) \in Nat
  <2>1. RowsAt(hs, op, n, d) \in SUBSET DOMAIN hs
    BY DEF RowsAt
  <2> QED BY <2>1, PlacesFinite
<1>2. Len(op) \in Nat
  OBVIOUS
<1>3. \A n \in 1 .. Len(op) + 1 : [d \in Device |-> Cardinality(RowsAt(hs, op, n - 1, d))] \in Tally
  BY <1>1 DEF Tally
<1>4. PICK T : T = Tallies(hs, op)
  OBVIOUS
<1>5. T \in Seq(Tally) /\ Len(T) = Len(op) + 1
  <2>1. PICK m : m = Len(op) + 1
    OBVIOUS
  <2>2. m \in Nat
    BY <1>2, <2>1
  <2>3. PICK f : f = [n \in 1 .. m |-> [d \in Device |-> Cardinality(RowsAt(hs, op, n - 1, d))]]
    OBVIOUS
  <2>4. \A n \in 1 .. m : f[n] \in Tally
    BY <1>3, <2>1, <2>3
  <2>5. T = f
    BY <1>4, <2>1, <2>3 DEF Tallies
  <2>6. f \in Seq(Tally) /\ Len(f) = m
    <3> HIDE DEF Tally
    <3>1. f \in [1 .. m -> Tally]
      BY <2>3, <2>4
    <3> QED BY <3>1, <2>2
  <2> QED BY <2>1, <2>5, <2>6
<1>6. \A n \in 1 .. Len(op) + 1 : \A d \in Device :
         Tallies(hs, op)[n][d] = Cardinality(RowsAt(hs, op, n - 1, d))
  BY DEF Tallies
<1> QED BY <1>2, <1>4, <1>5, <1>6

\* Tallies that agree everywhere are the same.
LEMMA SameTallies ==
    ASSUME NEW s \in Seq(Tally), NEW t \in Seq(Tally), Len(s) = Len(t),
           \A n \in 1 .. Len(s) : \A d \in Device : s[n][d] = t[n][d]
    PROVE  s = t
<1>1. \A n \in 1 .. Len(s) : s[n] = t[n]
  <2>1. ASSUME NEW n \in 1 .. Len(s) PROVE s[n] = t[n]
    <3>1. s[n] \in Tally /\ t[n] \in Tally
      OBVIOUS
    <3>2. \A d \in Device : s[n][d] = t[n][d]
      OBVIOUS
    <3> QED BY <3>1, <3>2 DEF Tally
  <2> QED BY <2>1
<1> QED BY <1>1, SameSeq

\* A new savepoint names nothing yet.
LEMMA SavepointLevels ==
    ASSUME NEW hs, NEW op, NEW u, Fitting(hs, op, u)
    PROVE  /\ Tallies(hs, Append(op, u + 1)) = Append(Tallies(hs, op), None)
           /\ Fitting(hs, Append(op, u + 1), u + 1)
<1>1. hs \in Seq(Hook) /\ op \in Seq(Nat) /\ u \in Nat /\ Len(op) \in Nat
  BY DEF Fitting, Ascending
<1>2. PICK up : up = Append(op, u + 1)
  OBVIOUS
<1>3. /\ up \in Seq(Nat) /\ Len(up) = Len(op) + 1
      /\ \A i \in 1 .. Len(op) : up[i] = op[i]
      /\ up[Len(op) + 1] = u + 1
  BY <1>1, <1>2
<1>4. Ascending(up) /\ \A i \in 1 .. Len(up) : up[i] <= u + 1
  <2>1. \A i \in 1 .. Len(op) : op[i] <= u /\ op[i] \in Nat
    BY <1>1 DEF Fitting
  <2>2. ASSUME NEW i \in 1 .. Len(up) PROVE up[i] <= u + 1
    <3>1. CASE i = Len(op) + 1
      <4>1. up[i] = u + 1
        BY <3>1, <1>3
      <4> QED BY <4>1, <1>1
    <3>2. CASE i \in 1 .. Len(op)
      <4>1. up[i] = op[i] /\ op[i] <= u /\ op[i] \in Nat
        BY <3>2, <2>1, <1>3
      <4> QED BY <4>1, <1>1
    <3> QED BY <3>1, <3>2, <1>1, <1>3
  <2>3. ASSUME NEW i \in 1 .. Len(up), NEW j \in 1 .. Len(up), i < j PROVE up[i] < up[j]
    <3>1. i \in 1 .. Len(op)
      BY <2>3, <1>1, <1>3
    <3>2. CASE j = Len(op) + 1
      <4>1. up[i] = op[i] /\ op[i] <= u /\ op[i] \in Nat
        BY <3>1, <2>1, <1>3
      <4>2. up[j] = u + 1
        BY <3>2, <1>3
      <4> QED BY <4>1, <4>2, <1>1
    <3>3. CASE j \in 1 .. Len(op)
      <4>1. op[i] < op[j]
        BY <3>1, <3>3, <2>3 DEF Fitting, Ascending
      <4> QED BY <4>1, <3>1, <3>3, <1>3
    <3> QED BY <3>2, <3>3, <1>1, <1>3
  <2> QED BY <2>2, <2>3, <1>3 DEF Ascending
<1>5. ASSUME NEW i \in DOMAIN hs
      PROVE  /\ Level(hs[i], up) = Level(hs[i], op) /\ Level(hs[i], op) \in 0 .. Len(op)
             /\ Nested(hs[i], up)
  <2>1. hs[i].sids \in SUBSET Nat /\ u + 1 \notin hs[i].sids
    <3>1. hs[i].sids \in SUBSET Nat
      BY <1>1, SidsAreNat
    <3>2. \A s \in hs[i].sids : s <= u
      BY DEF Fitting
    <3> QED BY <3>1, <3>2, <1>1
  <2>2. Range(up) = Range(op) \cup {u + 1}
    <3>1. DOMAIN up = 1 .. Len(op) + 1 /\ DOMAIN op = 1 .. Len(op)
      BY <1>1, <1>3
    <3>2. ASSUME NEW s \in Range(up) PROVE s \in Range(op) \cup {u + 1}
      <4>1. PICK j \in 1 .. Len(op) + 1 : up[j] = s
        BY <3>1 DEF Range
      <4>2. j \in 1 .. Len(op) \/ j = Len(op) + 1
        BY <1>1
      <4> QED BY <4>1, <4>2, <3>1, <1>3 DEF Range
    <3>3. ASSUME NEW s \in Range(op) PROVE s \in Range(up)
      <4>1. PICK j \in 1 .. Len(op) : op[j] = s
        BY <3>1 DEF Range
      <4> QED BY <4>1, <3>1, <1>1, <1>3 DEF Range
    <3>4. u + 1 \in Range(up)
      <4>1. Len(op) + 1 \in 1 .. Len(op) + 1
        BY <1>1
      <4> QED BY <4>1, <3>1, <1>3 DEF Range
    <3> QED BY <3>2, <3>3, <3>4
  <2>3. Level(hs[i], up) = Level(hs[i], op)
    BY <2>1, <2>2 DEF Level
  <2>4. Level(hs[i], op) \in 0 .. Len(op)
    BY LevelIs DEF Fitting
  <2>5. Nested(hs[i], up)
    <3>1. Nested(hs[i], op)
      BY DEF Fitting
    <3>2. ASSUME NEW j \in 1 .. Len(up), NEW k \in 1 .. Len(up), j < k, up[k] \in hs[i].sids
          PROVE  up[j] \in hs[i].sids
      <4>1. k # Len(op) + 1
        BY <3>2, <2>1, <1>3
      <4>2. k \in 1 .. Len(op) /\ j \in 1 .. Len(op)
        <5>1. k \in 1 .. Len(op) + 1 /\ j \in 1 .. Len(op) + 1
          BY <1>3
        <5> QED BY <5>1, <4>1, <3>2, <1>1
      <4> QED BY <4>2, <3>1, <3>2, <1>3 DEF Nested
    <3> QED BY <3>2 DEF Nested
  <2> QED BY <2>3, <2>4, <2>5
<1>6. Fitting(hs, up, u + 1)
  <2>1. \A i \in DOMAIN hs : \A s \in hs[i].sids : s <= u + 1
    <3>1. \A i \in DOMAIN hs : hs[i].sids \in SUBSET Nat
      BY <1>1, SidsAreNat
    <3>2. \A i \in DOMAIN hs : \A s \in hs[i].sids : s <= u
      BY DEF Fitting
    <3> QED BY <3>1, <3>2, <1>1
  <2> QED BY <2>1, <1>1, <1>4, <1>5 DEF Fitting
<1>7. None \in Tally
  BY DEF None, Tally
<1>8. PICK T : T = Tallies(hs, op)
  OBVIOUS
<1>9. T \in Seq(Tally) /\ Len(T) = Len(op) + 1
  BY <1>1, <1>8, TalliesAre
<1>10. /\ Append(T, None) \in Seq(Tally) /\ Len(Append(T, None)) = Len(op) + 2
       /\ \A n \in 1 .. Len(op) + 1 : Append(T, None)[n] = T[n]
       /\ Append(T, None)[Len(op) + 2] = None
  BY <1>1, <1>7, <1>9
<1>11. ASSUME NEW n \in 1 .. Len(op) + 2, NEW d \in Device
       PROVE  Tallies(hs, up)[n][d] = Append(T, None)[n][d]
  <2>1. Tallies(hs, up)[n][d] = Cardinality(RowsAt(hs, up, n - 1, d))
    BY <1>1, <1>3, TalliesAre
  <2>2. RowsAt(hs, up, n - 1, d) = RowsAt(hs, op, n - 1, d)
    BY <1>5 DEF RowsAt
  <2>3. CASE n \in 1 .. Len(op) + 1
    <3>1. Tallies(hs, op)[n][d] = Cardinality(RowsAt(hs, op, n - 1, d))
      BY <2>3, <1>1, TalliesAre
    <3> QED BY <2>1, <2>2, <2>3, <3>1, <1>8, <1>10
  <2>4. CASE n = Len(op) + 2
    <3>1. n - 1 = Len(op) + 1
      BY <2>4, <1>1
    <3>2. RowsAt(hs, op, n - 1, d) = {}
      BY <1>1, <1>5, <3>1 DEF RowsAt
    <3> QED BY <2>1, <2>2, <2>4, <3>2, <1>10, FS_EmptySet DEF None
  <2>5. n \in 1 .. Len(op) + 1 \/ n = Len(op) + 2
    BY <1>1
  <2> QED BY <2>3, <2>4, <2>5
<1>12. Tallies(hs, up) \in Seq(Tally) /\ Len(Tallies(hs, up)) = Len(op) + 2
  BY <1>1, <1>3, TalliesAre
<1>13. Tallies(hs, up) = Append(T, None)
  BY <1>10, <1>11, <1>12, SameTallies
<1> QED BY <1>2, <1>6, <1>8, <1>13

\* The innermost savepoint goes: what was registered in it is one level up.
LEMMA FrontLevels ==
    ASSUME NEW hs, NEW op, NEW u, Fitting(hs, op, u), op # <<>>
    PROVE  /\ Ascending(Front(op)) /\ \A i \in 1 .. Len(Front(op)) : Front(op)[i] <= u
           /\ \A i \in DOMAIN hs :
                /\ Nested(hs[i], Front(op))
                /\ Level(hs[i], op) \in 0 .. Len(op)
                /\ (Last(op) \in hs[i].sids <=> Level(hs[i], op) = Len(op))
                /\ Level(hs[i], Front(op)) =
                     IF Level(hs[i], op) = Len(op) THEN Len(op) - 1 ELSE Level(hs[i], op)
<1>1. op \in Seq(Nat)
  BY DEF Fitting, Ascending
<1>2. PICK fr : fr = Front(op)
  OBVIOUS
<1>3. /\ fr \in Seq(Nat) /\ Len(op) \in Nat /\ Len(op) >= 1 /\ Len(fr) = Len(op) - 1
      /\ \A i \in 1 .. Len(op) - 1 : fr[i] = op[i]
      /\ Last(op) = op[Len(op)]
  BY <1>1, <1>2, FrontIs
<1>4. Ascending(fr) /\ \A i \in 1 .. Len(fr) : fr[i] <= u
  <2>1. \A i \in 1 .. Len(op) : op[i] <= u
    BY DEF Fitting
  <2>2. \A i \in 1 .. Len(fr) : i \in 1 .. Len(op) /\ fr[i] = op[i]
    BY <1>3
  <2>3. ASSUME NEW i \in 1 .. Len(fr), NEW j \in 1 .. Len(fr), i < j PROVE fr[i] < fr[j]
    BY <2>2, <2>3 DEF Fitting, Ascending
  <2> QED BY <2>1, <2>2, <2>3, <1>3 DEF Ascending
<1>5. ASSUME NEW i \in DOMAIN hs
      PROVE  /\ Nested(hs[i], fr)
             /\ Level(hs[i], op) \in 0 .. Len(op)
             /\ (Last(op) \in hs[i].sids <=> Level(hs[i], op) = Len(op))
             /\ Level(hs[i], fr) = IF Level(hs[i], op) = Len(op) THEN Len(op) - 1 ELSE Level(hs[i], op)
  <2>1. Nested(hs[i], op) /\ Ascending(op)
    BY DEF Fitting
  <2>2. Nested(hs[i], fr)
    BY <2>1, <1>3 DEF Nested
  <2>3. PICK n : n = Level(hs[i], op)
    OBVIOUS
  <2>4. n \in 0 .. Len(op) /\ \A k \in 1 .. Len(op) : (op[k] \in hs[i].sids) <=> (k <= n)
    BY <2>1, <2>3, LevelIs
  <2>5. PICK m : m = Level(hs[i], fr)
    OBVIOUS
  <2>6. m \in 0 .. Len(op) - 1 /\ \A k \in 1 .. Len(op) - 1 : (op[k] \in hs[i].sids) <=> (k <= m)
    BY <2>2, <2>5, <1>3, <1>4, LevelIs
  <2>7. (Last(op) \in hs[i].sids) <=> (n = Len(op))
    BY <2>4, <1>3
  <2>8. \A k \in 1 .. Len(op) - 1 : (k <= n) <=> (k <= m)
    <3>1. \A k \in 1 .. Len(op) - 1 : k \in 1 .. Len(op)
      BY <1>3
    <3> QED BY <3>1, <2>4, <2>6
  <2>9. m = IF n = Len(op) THEN Len(op) - 1 ELSE n
    <3>1. CASE n = Len(op)
      <4>1. m >= Len(op) - 1
        BY <2>4, <2>6, <2>8, <3>1, <1>3
      <4> QED BY <4>1, <2>6, <3>1, <1>3
    <3>2. CASE n # Len(op)
      <4>1. n \in 0 .. Len(op) - 1
        BY <2>4, <3>2, <1>3
      <4>2. ~ m < n
        BY <2>6, <2>8, <4>1, <1>3
      <4>3. ~ n < m
        BY <2>6, <2>8, <4>1, <1>3
      <4> QED BY <4>1, <4>2, <4>3, <2>6, <3>2, <1>3
    <3> QED BY <3>1, <3>2
  <2> QED BY <2>2, <2>3, <2>4, <2>5, <2>7, <2>9
<1> QED BY <1>2, <1>4, <1>5

\* What the innermost savepoint named is named by the level around it.
LEMMA ReleaseLevels ==
    ASSUME NEW hs, NEW op, NEW u, Fitting(hs, op, u), op # <<>>
    PROVE  /\ Fitting(hs, Front(op), u)
           /\ LET T == Tallies(hs, op) IN
              /\ Len(T) > 1
              /\ Tallies(hs, Front(op)) = Append(Front(Front(T)), Last(Front(T)) ++ Last(T))
<1>1. hs \in Seq(Hook) /\ op \in Seq(Nat)
  BY DEF Fitting, Ascending
<1>2. PICK fr : fr = Front(op)
  OBVIOUS
<1>3. fr \in Seq(Nat) /\ Len(op) \in Nat /\ Len(op) >= 1 /\ Len(fr) = Len(op) - 1
  BY <1>1, <1>2, FrontIs
<1>4. Ascending(fr) /\ \A i \in 1 .. Len(fr) : fr[i] <= u
  BY <1>2, FrontLevels
<1>5. \A i \in DOMAIN hs :
        /\ Nested(hs[i], fr)
        /\ Level(hs[i], op) \in 0 .. Len(op)
        /\ Level(hs[i], fr) = IF Level(hs[i], op) = Len(op) THEN Len(op) - 1 ELSE Level(hs[i], op)
  BY <1>2, FrontLevels
<1>6. Fitting(hs, fr, u)
  BY <1>1, <1>4, <1>5 DEF Fitting
<1>7. PICK T : T = Tallies(hs, op)
  OBVIOUS
<1>8. T \in Seq(Tally) /\ Len(T) = Len(op) + 1
  BY <1>1, <1>7, TalliesAre
<1>9. PICK F : F = Front(T)
  OBVIOUS
<1>10. F \in Seq(Tally) /\ Len(F) = Len(op) /\ \A n \in 1 .. Len(op) : F[n] = T[n]
  <2>1. T # <<>>
    BY <1>8, <1>3
  <2>2. F \in Seq(Tally) /\ Len(F) = Len(T) - 1 /\ \A n \in 1 .. Len(T) - 1 : F[n] = T[n]
    BY <2>1, <1>8, <1>9, FrontIs
  <2>3. Len(T) - 1 = Len(op)
    BY <1>3, <1>8
  <2> QED BY <2>2, <2>3
<1>11. Last(T) = T[Len(op) + 1] /\ Last(T) \in Tally
  <2>1. T # <<>>
    BY <1>8, <1>3
  <2> QED BY <2>1, <1>8, FrontIs
<1>12. PICK G : G = Front(F)
  OBVIOUS
<1>13. /\ G \in Seq(Tally) /\ Len(G) = Len(op) - 1 /\ \A n \in 1 .. Len(op) - 1 : G[n] = F[n]
       /\ Last(F) = F[Len(op)] /\ Last(F) \in Tally
  <2>1. F # <<>>
    BY <1>10, <1>3
  <2> QED BY <2>1, <1>3, <1>10, <1>12, FrontIs
<1>14. PICK x : x = Last(F) ++ Last(T)
  OBVIOUS
<1>15. x \in Tally /\ \A d \in Device : x[d] = T[Len(op)][d] + T[Len(op) + 1][d]
  <2>1. \A d \in Device : Last(F)[d] \in Nat /\ Last(T)[d] \in Nat
    BY <1>11, <1>13 DEF Tally
  <2>2. x \in Tally
    BY <2>1, <1>14 DEF Tally, ++
  <2>3. Len(op) \in 1 .. Len(op)
    BY <1>3
  <2>4. Last(F) = T[Len(op)]
    BY <2>3, <1>10, <1>13
  <2> QED BY <2>2, <2>4, <1>11, <1>14 DEF ++
<1>16. PICK A : A = Append(G, x)
  OBVIOUS
<1>17. /\ A \in Seq(Tally) /\ Len(A) = Len(op)
       /\ \A n \in 1 .. Len(op) - 1 : A[n] = G[n]
       /\ A[Len(op)] = x
  <2> HIDE DEF Tally
  <2> QED BY <1>3, <1>13, <1>15, <1>16
<1>18. ASSUME NEW n \in 1 .. Len(op), NEW d \in Device
       PROVE  Tallies(hs, fr)[n][d] = A[n][d]
  <2>1. Tallies(hs, fr)[n][d] = Cardinality(RowsAt(hs, fr, n - 1, d))
    <3>1. n \in 1 .. Len(fr) + 1
      BY <1>3
    <3> QED BY <3>1, <1>1, <1>3, TalliesAre
  <2>2. T[n][d] = Cardinality(RowsAt(hs, op, n - 1, d))
    <3>1. n \in 1 .. Len(op) + 1
      BY <1>3
    <3> QED BY <3>1, <1>1, <1>7, TalliesAre
  <2>3. CASE n < Len(op)
    <3>1. RowsAt(hs, fr, n - 1, d) = RowsAt(hs, op, n - 1, d)
      <4>1. n - 1 \in Nat /\ n - 1 < Len(op) - 1 /\ n \in Nat
        BY <2>3, <1>3
      <4>2. \A i \in DOMAIN hs : Level(hs[i], fr) = n - 1 <=> Level(hs[i], op) = n - 1
        BY <4>1, <1>3, <1>5
      <4> QED BY <4>2 DEF RowsAt
    <3>2. A[n] = T[n]
      <4>1. n \in 1 .. Len(op) - 1
        BY <2>3, <1>3
      <4> QED BY <4>1, <1>10, <1>13, <1>17
    <3> QED BY <2>1, <2>2, <3>1, <3>2
  <2>4. CASE n = Len(op)
    <3>1. T[Len(op) + 1][d] = Cardinality(RowsAt(hs, op, Len(op), d))
      <4>1. PICK k : k = Len(op) + 1
        OBVIOUS
      <4>2. k \in 1 .. Len(op) + 1 /\ k - 1 = Len(op)
        BY <4>1, <1>3
      <4>3. T[k][d] = Cardinality(RowsAt(hs, op, k - 1, d))
        BY <4>2, <1>1, <1>7, TalliesAre
      <4> QED BY <4>1, <4>2, <4>3
    <3>2. PICK P : P = RowsAt(hs, op, n - 1, d)
      OBVIOUS
    <3>3. PICK Q : Q = RowsAt(hs, op, Len(op), d)
      OBVIOUS
    <3>4. RowsAt(hs, fr, n - 1, d) = P \cup Q
      <4>1. \A i \in DOMAIN hs : Level(hs[i], fr) = n - 1
                <=> (Level(hs[i], op) = n - 1 \/ Level(hs[i], op) = Len(op))
        BY <2>4, <1>3, <1>5
      <4> QED BY <4>1, <3>2, <3>3 DEF RowsAt
    <3>5. P \cap Q = {}
      <4>1. n - 1 # Len(op)
        BY <2>4, <1>3
      <4> QED BY <4>1, <3>2, <3>3 DEF RowsAt
    <3>6. /\ IsFiniteSet(P) /\ IsFiniteSet(Q)
          /\ Cardinality(P) \in Nat /\ Cardinality(Q) \in Nat
      <4>1. P \in SUBSET DOMAIN hs /\ Q \in SUBSET DOMAIN hs
        BY <3>2, <3>3 DEF RowsAt
      <4> QED BY <4>1, <1>1, PlacesFinite
    <3>7. Cardinality(P \cup Q) = Cardinality(P) + Cardinality(Q)
      <4>1. Cardinality(P \cup Q) = Cardinality(P) + Cardinality(Q) - Cardinality(P \cap Q)
        BY <3>6, FS_Union
      <4>2. Cardinality(P \cap Q) = 0
        BY <3>5, FS_EmptySet
      <4> QED BY <4>1, <4>2, <3>6
    <3>8. A[n][d] = T[n][d] + T[Len(op) + 1][d]
      BY <2>4, <1>15, <1>17
    <3> QED BY <2>1, <2>2, <3>1, <3>2, <3>3, <3>4, <3>7, <3>8
  <2> QED BY <2>3, <2>4, <1>3
<1>19. Tallies(hs, fr) \in Seq(Tally) /\ Len(Tallies(hs, fr)) = Len(op)
  BY <1>1, <1>3, TalliesAre
<1>20. Tallies(hs, fr) = A
  <2> HIDE DEF Tally
  <2> QED BY <1>17, <1>18, <1>19, SameTallies
<1> QED BY <1>2, <1>3, <1>6, <1>7, <1>8, <1>9, <1>12, <1>14, <1>16, <1>20

\* What the innermost savepoint named is forgotten with it.
LEMMA RollBackLevels ==
    ASSUME NEW hs, NEW op, NEW u, Fitting(hs, op, u), op # <<>>
    PROVE  /\ Fitting(Kept(hs, Last(op)), Front(op), u)
           /\ Tallies(hs, op) # <<>>
           /\ Tallies(Kept(hs, Last(op)), Front(op)) = Front(Tallies(hs, op))
<1>1. hs \in Seq(Hook) /\ op \in Seq(Nat)
  BY DEF Fitting, Ascending
<1>2. PICK fr : fr = Front(op)
  OBVIOUS
<1>3. fr \in Seq(Nat) /\ Len(op) \in Nat /\ Len(op) >= 1 /\ Len(fr) = Len(op) - 1
  BY <1>1, <1>2, FrontIs
<1>4. Ascending(fr) /\ \A i \in 1 .. Len(fr) : fr[i] <= u
  BY <1>2, FrontLevels
<1>5. \A i \in DOMAIN hs :
        /\ Nested(hs[i], fr)
        /\ Level(hs[i], op) \in 0 .. Len(op)
        /\ (Last(op) \in hs[i].sids <=> Level(hs[i], op) = Len(op))
        /\ Level(hs[i], fr) = IF Level(hs[i], op) = Len(op) THEN Len(op) - 1 ELSE Level(hs[i], op)
  BY <1>2, FrontLevels
<1>6. PICK ks : ks = Kept(hs, Last(op))
  OBVIOUS
<1>7. PICK I : I = {i \in DOMAIN hs : Last(op) \notin hs[i].sids}
  OBVIOUS
<1>8. /\ ks \in Seq(Hook)
      /\ \E f : Filters(f, I, Len(ks)) /\ \A k \in 1 .. Len(ks) : ks[k] = hs[f[k]]
  <2>1. PICK sid : sid = Last(op)
    OBVIOUS
  <2>2. Kept(hs, sid) \in Seq(Hook) /\ \E f : Picks(f, hs, sid, Kept(hs, sid))
    BY <1>1, KeptIs
  <2> QED BY <2>1, <2>2, <1>6, <1>7 DEF Picks
<1>9. PICK f : Filters(f, I, Len(ks)) /\ \A k \in 1 .. Len(ks) : ks[k] = hs[f[k]]
  BY <1>8
<1>10. Len(ks) \in Nat /\ DOMAIN ks = 1 .. Len(ks)
  BY <1>8
<1>11. \A k \in 1 .. Len(ks) : f[k] \in I /\ f[k] \in DOMAIN hs /\ ks[k] = hs[f[k]]
  BY <1>7, <1>9 DEF Filters
<1>12. \A i \in I : \E k \in 1 .. Len(ks) : f[k] = i
  BY <1>9 DEF Filters
<1>13. \A k, l \in 1 .. Len(ks) : f[k] = f[l] => k = l
  <2>1. SUFFICES ASSUME NEW k \in 1 .. Len(ks), NEW l \in 1 .. Len(ks), f[k] = f[l], k # l
                 PROVE  FALSE
    OBVIOUS
  <2>2. k < l \/ l < k
    BY <2>1, <1>10
  <2>3. f[k] < f[l] \/ f[l] < f[k]
    BY <2>2, <1>9 DEF Filters
  <2>4. f[k] \in Nat
    BY <1>1, <1>11
  <2> QED BY <2>1, <2>3, <2>4
<1>14. Fitting(ks, fr, u)
  <2>1. \A k \in DOMAIN ks : /\ \A s \in ks[k].sids : s <= u
                             /\ Nested(ks[k], fr)
                             /\ (ks[k].kind = "flush" => ks[k].sids = {})
    <3>1. SUFFICES ASSUME NEW k \in 1 .. Len(ks)
                   PROVE  /\ \A s \in ks[k].sids : s <= u
                          /\ Nested(ks[k], fr)
                          /\ (ks[k].kind = "flush" => ks[k].sids = {})
      BY <1>10
    <3>2. PICK i \in DOMAIN hs : ks[k] = hs[i]
      BY <1>11
    <3>3. /\ \A s \in hs[i].sids : s <= u
          /\ (hs[i].kind = "flush" => hs[i].sids = {})
      BY DEF Fitting
    <3>4. Nested(hs[i], fr)
      BY <1>5
    <3> QED BY <3>2, <3>3, <3>4
  <2>2. u \in Nat
    BY DEF Fitting
  <2> QED BY <2>1, <2>2, <1>4, <1>8 DEF Fitting
<1>15. PICK T : T = Tallies(hs, op)
  OBVIOUS
<1>16. T \in Seq(Tally) /\ Len(T) = Len(op) + 1
  BY <1>1, <1>15, TalliesAre
<1>17. PICK F : F = Front(T)
  OBVIOUS
<1>18. T # <<>> /\ F \in Seq(Tally) /\ Len(F) = Len(op) /\ \A n \in 1 .. Len(op) : F[n] = T[n]
  <2>1. T # <<>>
    BY <1>16, <1>3
  <2>2. F \in Seq(Tally) /\ Len(F) = Len(T) - 1 /\ \A n \in 1 .. Len(T) - 1 : F[n] = T[n]
    BY <2>1, <1>16, <1>17, FrontIs
  <2>3. Len(T) - 1 = Len(op)
    BY <1>3, <1>16
  <2> QED BY <2>1, <2>2, <2>3
<1>19. ASSUME NEW n \in 1 .. Len(op), NEW d \in Device
       PROVE  Tallies(ks, fr)[n][d] = F[n][d]
  <2>1. Tallies(ks, fr)[n][d] = Cardinality(RowsAt(ks, fr, n - 1, d))
    <3>1. n \in 1 .. Len(fr) + 1
      BY <1>3
    <3> QED BY <3>1, <1>3, <1>8, TalliesAre
  <2>2. T[n][d] = Cardinality(RowsAt(hs, op, n - 1, d))
    <3>1. n \in 1 .. Len(op) + 1
      BY <1>3
    <3> QED BY <3>1, <1>1, <1>15, TalliesAre
  <2>3. n - 1 # Len(op)
    BY <1>3
  <2>4. \A k \in 1 .. Len(ks) : Level(ks[k], fr) = Level(hs[f[k]], op)
    <3>1. \A i \in I : Level(hs[i], fr) = Level(hs[i], op)
      BY <1>5, <1>7
    <3> QED BY <3>1, <1>11
  <2>5. \A k \in RowsAt(ks, fr, n - 1, d) : f[k] \in RowsAt(hs, op, n - 1, d)
    BY <2>4, <1>10, <1>11 DEF RowsAt
  <2>6. \A i \in RowsAt(hs, op, n - 1, d) : \E k \in RowsAt(ks, fr, n - 1, d) : f[k] = i
    <3>1. SUFFICES ASSUME NEW i \in RowsAt(hs, op, n - 1, d)
                   PROVE  \E k \in RowsAt(ks, fr, n - 1, d) : f[k] = i
      OBVIOUS
    <3>2. i \in I
      BY <2>3, <1>5, <1>7 DEF RowsAt
    <3>3. PICK k \in 1 .. Len(ks) : f[k] = i
      BY <3>2, <1>12
    <3>4. k \in RowsAt(ks, fr, n - 1, d)
      BY <3>3, <2>4, <1>10, <1>11 DEF RowsAt
    <3> QED BY <3>3, <3>4
  <2>7. PICK A : A = RowsAt(ks, fr, n - 1, d)
    OBVIOUS
  <2>8. PICK B : B = RowsAt(hs, op, n - 1, d)
    OBVIOUS
  <2>9. IsFiniteSet(A) /\ A \in SUBSET (1 .. Len(ks))
    <3>1. A \in SUBSET DOMAIN ks
      BY <2>7 DEF RowsAt
    <3> QED BY <3>1, <1>8, <1>10, PlacesFinite
  <2>10. \A k \in A : f[k] \in B
    BY <2>5, <2>7, <2>8
  <2>11. \A k, l \in A : f[k] = f[l] => k = l
    BY <2>9, <1>13
  <2>12. \A i \in B : \E k \in A : f[k] = i
    BY <2>6, <2>7, <2>8
  <2>13. Cardinality(A) = Cardinality(B)
    BY <2>9, <2>10, <2>11, <2>12, Counted
  <2> QED BY <2>1, <2>2, <2>7, <2>8, <2>13, <1>18
<1>20. Tallies(ks, fr) \in Seq(Tally) /\ Len(Tallies(ks, fr)) = Len(op)
  BY <1>3, <1>8, TalliesAre
<1>21. Tallies(ks, fr) = F
  <2> HIDE DEF Tally
  <2> QED BY <1>18, <1>19, <1>20, SameTallies
<1> QED BY <1>2, <1>6, <1>14, <1>15, <1>17, <1>18, <1>21

\* A callback added now is registered in every open savepoint, or in none.
LEMMA AppendFits ==
    ASSUME NEW hs, NEW op, NEW u, Fitting(hs, op, u), NEW h \in Hook,
           h.sids \in {{}, Range(op)}, h.kind = "flush" => h.sids = {}
    PROVE  /\ Fitting(Append(hs, h), op, u)
           /\ h.sids = Range(op) => Level(h, op) = Len(op)
<1>1. hs \in Seq(Hook) /\ op \in Seq(Nat) /\ Len(op) \in Nat /\ DOMAIN op = 1 .. Len(op)
  BY DEF Fitting, Ascending
<1>2. \A s \in Range(op) : s <= u
  BY <1>1 DEF Fitting, Range
<1>3. Nested(h, op)
  BY <1>1 DEF Nested, Range
<1>4. PICK more : more = Append(hs, h)
  OBVIOUS
<1>5. /\ more \in Seq(Hook) /\ DOMAIN more = DOMAIN hs \cup {Len(hs) + 1}
      /\ \A i \in DOMAIN hs : more[i] = hs[i]
      /\ more[Len(hs) + 1] = h
  BY <1>1, <1>4
<1>6. Fitting(more, op, u)
  <2>1. \A i \in DOMAIN more : /\ \A s \in more[i].sids : s <= u
                               /\ Nested(more[i], op)
                               /\ (more[i].kind = "flush" => more[i].sids = {})
    <3>1. SUFFICES ASSUME NEW i \in DOMAIN more
                   PROVE  /\ \A s \in more[i].sids : s <= u
                          /\ Nested(more[i], op)
                          /\ (more[i].kind = "flush" => more[i].sids = {})
      OBVIOUS
    <3>2. CASE i \in DOMAIN hs
      BY <3>2, <1>5 DEF Fitting
    <3>3. CASE i = Len(hs) + 1
      BY <3>3, <1>2, <1>3, <1>5
    <3> QED BY <3>2, <3>3, <1>5
  <2>2. u \in Nat /\ Ascending(op) /\ \A i \in 1 .. Len(op) : op[i] <= u
    BY DEF Fitting
  <2> QED BY <2>1, <2>2, <1>5 DEF Fitting
<1>7. ASSUME h.sids = Range(op) PROVE Level(h, op) = Len(op)
  <2>1. Ascending(op)
    BY DEF Fitting
  <2>2. /\ Level(h, op) \in 0 .. Len(op)
        /\ \A i \in 1 .. Len(op) : (op[i] \in h.sids) <=> (i <= Level(h, op))
    BY <2>1, <1>3, LevelIs
  <2>3. CASE Len(op) = 0
    BY <2>2, <2>3
  <2>4. CASE Len(op) # 0
    <3>1. Len(op) \in 1 .. Len(op)
      BY <2>4, <1>1
    <3>2. op[Len(op)] \in h.sids
      BY <3>1, <1>1, <1>7 DEF Range
    <3> QED BY <3>1, <3>2, <2>2
  <2> QED BY <2>3, <2>4
<1> QED BY <1>4, <1>6, <1>7

\* Only callbacks with rows name devices.
LEMMA AppendOther ==
    ASSUME NEW hs \in Seq(Hook), NEW op \in Seq(Nat), NEW h \in Hook, h.kind # "rows"
    PROVE  Tallies(Append(hs, h), op) = Tallies(hs, op)
<1>1. PICK more : more = Append(hs, h)
  OBVIOUS
<1>2. /\ more \in Seq(Hook) /\ DOMAIN more = DOMAIN hs \cup {Len(hs) + 1}
      /\ \A i \in DOMAIN hs : more[i] = hs[i]
      /\ more[Len(hs) + 1] = h
  BY <1>1
<1>3. \A n, d : RowsAt(more, op, n, d) = RowsAt(hs, op, n, d)
  BY <1>2 DEF RowsAt
<1> QED BY <1>1, <1>3 DEF Tallies

\* Rows are named by the innermost level.
LEMMA AppendRows ==
    ASSUME NEW hs, NEW op, NEW u, Fitting(hs, op, u), NEW h \in Hook,
           h.kind = "rows", h.sids = Range(op)
    PROVE  /\ Tallies(hs, op) # <<>>
           /\ Tallies(Append(hs, h), op)
                = Append(Front(Tallies(hs, op)), Last(Tallies(hs, op)) ++ Once(h.devs))
<1>1. hs \in Seq(Hook) /\ op \in Seq(Nat) /\ Len(op) \in Nat /\ Len(hs) \in Nat
  BY DEF Fitting, Ascending
<1>2. PICK more : more = Append(hs, h)
  OBVIOUS
<1>3. /\ more \in Seq(Hook) /\ DOMAIN more = DOMAIN hs \cup {Len(hs) + 1}
      /\ Len(hs) + 1 \notin DOMAIN hs
      /\ \A i \in DOMAIN hs : more[i] = hs[i]
      /\ more[Len(hs) + 1] = h
  BY <1>1, <1>2
<1>4. Level(h, op) = Len(op)
  BY AppendFits
<1>5. PICK T : T = Tallies(hs, op)
  OBVIOUS
<1>6. /\ T \in Seq(Tally) /\ Len(T) = Len(op) + 1 /\ T # <<>>
      /\ \A n \in 1 .. Len(op) + 1 : \A d \in Device : T[n][d] = Cardinality(RowsAt(hs, op, n - 1, d))
  <2>1. /\ T \in Seq(Tally) /\ Len(T) = Len(op) + 1
        /\ \A n \in 1 .. Len(op) + 1 : \A d \in Device :
              T[n][d] = Cardinality(RowsAt(hs, op, n - 1, d))
    BY <1>1, <1>5, TalliesAre
  <2> QED BY <2>1, <1>1
<1>7. PICK F : F = Front(T)
  OBVIOUS
<1>8. /\ F \in Seq(Tally) /\ Len(F) = Len(op) /\ \A n \in 1 .. Len(op) : F[n] = T[n]
      /\ Last(T) = T[Len(op) + 1] /\ Last(T) \in Tally
  <2>1. /\ F \in Seq(Tally) /\ Len(F) = Len(T) - 1 /\ \A n \in 1 .. Len(T) - 1 : F[n] = T[n]
        /\ Last(T) = T[Len(T)] /\ Last(T) \in Tally
    BY <1>6, <1>7, FrontIs
  <2>2. Len(T) - 1 = Len(op)
    BY <1>1, <1>6
  <2> QED BY <2>1, <2>2, <1>6
<1>9. PICK x : x = Last(T) ++ Once(h.devs)
  OBVIOUS
<1>10. x \in Tally /\ \A d \in Device : x[d] = T[Len(op) + 1][d] + (IF d \in h.devs THEN 1 ELSE 0)
  <2>1. \A d \in Device : Last(T)[d] \in Nat
    BY <1>8 DEF Tally
  <2>2. x \in Tally
    BY <2>1, <1>9 DEF Tally, ++, Once
  <2> QED BY <2>2, <1>8, <1>9 DEF ++, Once
<1>11. PICK A : A = Append(F, x)
  OBVIOUS
<1>12. /\ A \in Seq(Tally) /\ Len(A) = Len(op) + 1
       /\ \A n \in 1 .. Len(op) : A[n] = T[n]
       /\ A[Len(op) + 1] = x
  <2> HIDE DEF Tally
  <2> QED BY <1>1, <1>8, <1>10, <1>11
<1>13. ASSUME NEW n \in 1 .. Len(op) + 1, NEW d \in Device
       PROVE  Tallies(more, op)[n][d] = A[n][d]
  <2>1. Tallies(more, op)[n][d] = Cardinality(RowsAt(more, op, n - 1, d))
    BY <1>1, <1>3, TalliesAre
  <2>2. T[n][d] = Cardinality(RowsAt(hs, op, n - 1, d))
    BY <1>6
  <2>3. PICK P : P = RowsAt(hs, op, n - 1, d)
    OBVIOUS
  <2>4. IsFiniteSet(P) /\ Cardinality(P) \in Nat /\ Len(hs) + 1 \notin P
    <3>1. P \in SUBSET DOMAIN hs
      BY <2>3 DEF RowsAt
    <3> QED BY <3>1, <1>1, <1>3, PlacesFinite
  <2>5. CASE n = Len(op) + 1 /\ d \in h.devs
    <3>1. n - 1 = Len(op)
      BY <2>5, <1>1
    <3>2. RowsAt(more, op, n - 1, d) = P \cup {Len(hs) + 1}
      BY <3>1, <2>3, <2>5, <1>3, <1>4 DEF RowsAt
    <3>3. Cardinality(P \cup {Len(hs) + 1}) = Cardinality(P) + 1
      BY <2>4, FS_AddElement
    <3> QED BY <2>1, <2>2, <2>3, <2>5, <3>2, <3>3, <1>10, <1>12
  <2>6. CASE ~(n = Len(op) + 1 /\ d \in h.devs)
    <3>1. RowsAt(more, op, n - 1, d) = P
      <4>1. ~(Level(h, op) = n - 1 /\ d \in h.devs)
        BY <2>6, <1>1, <1>4
      <4> QED BY <4>1, <2>3, <1>3 DEF RowsAt
    <3>2. A[n][d] = T[n][d]
      <4>1. CASE n = Len(op) + 1
        <5>1. x[d] = T[n][d] + 0
          BY <4>1, <2>6, <1>10
        <5>2. T[n][d] \in Nat
          BY <2>2, <2>3, <2>4
        <5> QED BY <5>1, <5>2, <4>1, <1>12
      <4>2. CASE n # Len(op) + 1
        <5>1. n \in 1 .. Len(op)
          BY <4>2, <1>1
        <5> QED BY <5>1, <1>12
      <4> QED BY <4>1, <4>2
    <3> QED BY <2>1, <2>2, <2>3, <3>1, <3>2
  <2> QED BY <2>5, <2>6
<1>14. Tallies(more, op) \in Seq(Tally) /\ Len(Tallies(more, op)) = Len(op) + 1
  BY <1>1, <1>3, TalliesAre
<1>15. Tallies(more, op) = A
  <2> HIDE DEF Tally
  <2> QED BY <1>12, <1>13, <1>14, SameTallies
<1> QED BY <1>2, <1>5, <1>6, <1>7, <1>9, <1>11, <1>15

(***************************************************************************)
(* The flushes of a callback list.                                         *)
(***************************************************************************)

Batch == [token : Nat, committed : Tally]

Quiet(list) == \A i \in DOMAIN list : list[i].kind = "other"

\* All of a list belongs to batch b, and nothing of it comes after the flush at j,
\* which alone is the newest.
SealedAt(bs, list, b, j) ==
    /\ b \in DOMAIN bs
    /\ j \in DOMAIN list
    /\ list[j].kind = "flush" /\ list[j].token = bs[b].token
    /\ \A i \in DOMAIN list : list[i].kind # "other" => i <= j /\ list[i].batch = b
    /\ \A i \in DOMAIN list : list[i].kind = "flush" /\ i < j => list[i].token < bs[b].token

Sealed(bs, list) == Quiet(list) \/ \E b, j : SealedAt(bs, list, b, j)

\* A list without callbacks of this module refers to no batch.
LEMMA QuietBatch ==
    ASSUME NEW list, Quiet(list)
    PROVE  BatchIn(list) = 0
BY DEF BatchIn, Quiet

\* A sealed list refers to the batch it is sealed for.
LEMMA SealedBatch ==
    ASSUME NEW bs, NEW list \in Seq(Hook), NEW b, NEW j, SealedAt(bs, list, b, j)
    PROVE  BatchIn(list) = b
<1>1. PICK flushes : flushes = {i \in DOMAIN list : list[i].kind = "flush"}
  OBVIOUS
<1>2. flushes # {} /\ flushes \in SUBSET Nat
  BY <1>1 DEF SealedAt
<1>3. \E i \in flushes : \A k \in flushes : i <= k
  BY <1>2, NatMin
<1>4. PICK i : i = CHOOSE k \in flushes : \A l \in flushes : k <= l
  OBVIOUS
<1>5. i \in flushes
  BY <1>3, <1>4
<1>6. list[i].batch = b
  BY <1>1, <1>5 DEF SealedAt
<1> QED BY <1>1, <1>2, <1>4, <1>6 DEF BatchIn

\* The batch of a sealed list is one there is.
LEMMA BatchIs ==
    ASSUME NEW bs \in Seq(Batch), NEW list \in Seq(Hook), Sealed(bs, list)
    PROVE  /\ (BatchIn(list) = 0 <=> Quiet(list))
           /\ BatchIn(list) \in 0 .. Len(bs) /\ Len(bs) \in Nat
           /\ BatchIn(list) # 0 => /\ BatchIn(list) \in DOMAIN bs
                                   /\ bs[BatchIn(list)] \in Batch
           /\ ~ Quiet(list) => \E j : SealedAt(bs, list, BatchIn(list), j)
<1>1. Len(bs) \in Nat /\ DOMAIN bs = 1 .. Len(bs)
  OBVIOUS
<1>2. CASE Quiet(list)
  BY <1>1, <1>2, QuietBatch
<1>3. CASE ~ Quiet(list)
  <2>1. PICK b, j : SealedAt(bs, list, b, j)
    BY <1>3 DEF Sealed
  <2>2. BatchIn(list) = b
    BY <2>1, SealedBatch
  <2>3. b \in 1 .. Len(bs)
    BY <2>1, <1>1 DEF SealedAt
  <2>4. bs[b] \in Batch /\ b \in DOMAIN bs
    BY <2>3, <1>1
  <2>5. b # 0 /\ b \in 0 .. Len(bs)
    BY <2>3, <1>1
  <2> QED BY <2>1, <2>2, <2>4, <2>5, <1>1, <1>3
<1> QED BY <1>2, <1>3

\* Whether a list is sealed depends on the token of its batch alone.
LEMMA SealStays ==
    ASSUME NEW bs, NEW more, NEW list, Sealed(bs, list), list \in Seq(Hook),
           BatchIn(list) \in DOMAIN bs =>
              BatchIn(list) \in DOMAIN more /\ more[BatchIn(list)].token = bs[BatchIn(list)].token
    PROVE  Sealed(more, list)
<1>1. CASE Quiet(list)
  BY <1>1 DEF Sealed
<1>2. CASE ~ Quiet(list)
  <2>1. PICK b, j : SealedAt(bs, list, b, j)
    BY <1>2 DEF Sealed
  <2>2. BatchIn(list) = b
    BY <2>1, SealedBatch
  <2>3. SealedAt(more, list, b, j)
    BY <2>1, <2>2 DEF SealedAt
  <2> QED BY <2>3 DEF Sealed
<1> QED BY <1>1, <1>2

\* A sequence without its head.
LEMMA TailIs ==
    ASSUME NEW T, NEW list \in Seq(T), list # <<>>
    PROVE  /\ Tail(list) \in Seq(T) /\ Len(list) \in Nat /\ Len(list) >= 1
           /\ Len(Tail(list)) = Len(list) - 1
           /\ DOMAIN list = 1 .. Len(list) /\ DOMAIN Tail(list) = 1 .. Len(list) - 1
           /\ Head(list) = list[1] /\ 1 \in DOMAIN list /\ Head(list) \in T
           /\ \A i \in 1 .. Len(list) - 1 : Tail(list)[i] = list[i + 1]
OBVIOUS

\* A list whose first callback has run.
LEMMA TailSealed ==
    ASSUME NEW bs, NEW list \in Seq(Hook), list # <<>>, Sealed(bs, list)
    PROVE  /\ Sealed(bs, Tail(list))
           /\ Head(list).kind # "other" => Head(list).batch = BatchIn(list) /\ ~ Quiet(list)
           /\ Head(list).kind # "flush" => BatchIn(Tail(list)) = BatchIn(list)
           /\ Head(list).kind = "flush" =>
                IF Head(list).token = bs[BatchIn(list)].token
                THEN Quiet(Tail(list))
                ELSE BatchIn(Tail(list)) = BatchIn(list)
<1>1. PICK rest : rest = Tail(list)
  OBVIOUS
<1>2. /\ rest \in Seq(Hook) /\ Len(list) \in Nat /\ Len(list) >= 1
      /\ DOMAIN list = 1 .. Len(list) /\ DOMAIN rest = 1 .. Len(list) - 1
      /\ Head(list) = list[1] /\ 1 \in DOMAIN list
      /\ \A i \in 1 .. Len(list) - 1 : rest[i] = list[i + 1]
  BY <1>1, TailIs
<1>25. \A i \in DOMAIN rest : i \in Nat /\ i + 1 \in DOMAIN list /\ rest[i] = list[i + 1]
  BY <1>2
<1>3. CASE Quiet(list)
  <2>1. Quiet(rest)
    BY <1>25, <1>3 DEF Quiet
  <2>2. Head(list).kind = "other"
    BY <1>2, <1>3 DEF Quiet
  <2>3. BatchIn(list) = 0 /\ BatchIn(rest) = 0
    BY <2>1, <1>3, QuietBatch
  <2> QED BY <2>1, <2>2, <2>3, <1>1 DEF Sealed
<1>4. CASE ~ Quiet(list)
  <2>1. PICK b, j : SealedAt(bs, list, b, j)
    BY <1>4 DEF Sealed
  <2>2. BatchIn(list) = b
    BY <2>1, SealedBatch
  <2>3. list[1].kind # "other" => list[1].batch = b
    BY <2>1, <1>2 DEF SealedAt
  <2>4. j \in 1 .. Len(list) /\ j \in Nat
    BY <2>1, <1>2 DEF SealedAt
  <2>5. CASE j = 1
    <3>1. list[1].kind = "flush" /\ list[1].token = bs[b].token
      BY <2>1, <2>5 DEF SealedAt
    <3>2. Quiet(rest)
      <4>1. SUFFICES ASSUME NEW i \in DOMAIN rest, rest[i].kind # "other"
                     PROVE  FALSE
        BY DEF Quiet
      <4>2. i + 1 <= 1
        BY <4>1, <2>1, <2>5, <1>25 DEF SealedAt
      <4> QED BY <4>2, <1>2, <4>1
    <3> QED BY <3>1, <3>2, <2>2, <2>3, <1>1, <1>2, <1>4 DEF Sealed
  <2>6. CASE j # 1
    <3>1. j - 1 \in DOMAIN rest /\ rest[j - 1] = list[j]
      <4>1. j - 1 \in 1 .. Len(list) - 1 /\ j - 1 + 1 = j
        BY <2>4, <2>6, <1>2
      <4> QED BY <4>1, <1>2
    <3>2. \A i \in DOMAIN rest : rest[i].kind # "other" => i <= j - 1 /\ rest[i].batch = b
      <4>1. SUFFICES ASSUME NEW i \in DOMAIN rest, rest[i].kind # "other"
                     PROVE  i <= j - 1 /\ rest[i].batch = b
        OBVIOUS
      <4>2. i + 1 <= j /\ list[i + 1].batch = b
        BY <4>1, <2>1, <1>25 DEF SealedAt
      <4> QED BY <4>1, <4>2, <2>4, <1>25
    <3>3. \A i \in DOMAIN rest : rest[i].kind = "flush" /\ i < j - 1 => rest[i].token < bs[b].token
      <4>1. SUFFICES ASSUME NEW i \in DOMAIN rest, rest[i].kind = "flush", i < j - 1
                     PROVE  rest[i].token < bs[b].token
        OBVIOUS
      <4>2. i + 1 < j
        BY <4>1, <2>4, <1>25
      <4> QED BY <4>1, <4>2, <2>1, <1>25 DEF SealedAt
    <3>4. SealedAt(bs, rest, b, j - 1)
      BY <3>1, <3>2, <3>3, <2>1 DEF SealedAt
    <3>5. BatchIn(rest) = b
      BY <3>4, <1>2, SealedBatch
    <3>6. list[1].kind = "flush" => list[1].token # bs[b].token
      <4>1. SUFFICES ASSUME list[1].kind = "flush"
                     PROVE  list[1].token # bs[b].token
        OBVIOUS
      <4>2. 1 < j
        BY <2>4, <2>6
      <4>3. list[1].token < bs[b].token
        BY <4>1, <4>2, <2>1, <1>2 DEF SealedAt
      <4>4. list[1].token \in Nat
        <5>1. list[1] \in Hook
          BY <1>2
        <5> QED BY <5>1 DEF Hook
      <4> QED BY <4>3, <4>4
    <3> QED BY <3>4, <3>5, <3>6, <2>2, <2>3, <1>1, <1>2, <1>4 DEF Sealed
  <2> QED BY <2>5, <2>6
<1> QED BY <1>3, <1>4

\* Somebody else's callback is added.
LEMMA OtherSealed ==
    ASSUME NEW bs, NEW list \in Seq(Hook), NEW h \in Hook, h.kind = "other", Sealed(bs, list)
    PROVE  Sealed(bs, Append(list, h)) /\ BatchIn(Append(list, h)) = BatchIn(list)
<1>1. PICK more : more = Append(list, h)
  OBVIOUS
<1>2. /\ more \in Seq(Hook) /\ DOMAIN more = DOMAIN list \cup {Len(list) + 1}
      /\ \A i \in DOMAIN list : more[i] = list[i]
      /\ more[Len(list) + 1] = h
  BY <1>1
<1>3. CASE Quiet(list)
  <2>1. Quiet(more)
    BY <1>2, <1>3 DEF Quiet
  <2> QED BY <2>1, <1>1, <1>3, QuietBatch DEF Sealed
<1>4. CASE ~ Quiet(list)
  <2>1. PICK b, j : SealedAt(bs, list, b, j)
    BY <1>4 DEF Sealed
  <2>2. SealedAt(bs, more, b, j)
    BY <2>1, <1>2 DEF SealedAt
  <2>3. BatchIn(list) = b /\ BatchIn(more) = b
    BY <2>1, <2>2, <1>2, SealedBatch
  <2> QED BY <2>2, <2>3, <1>1 DEF Sealed
<1> QED BY <1>3, <1>4

\* A savepoint is rolled back: flushes are in none.
LEMMA KeptSealed ==
    ASSUME NEW bs, NEW list \in Seq(Hook), NEW sid, Sealed(bs, list),
           \A i \in DOMAIN list : list[i].kind = "flush" => list[i].sids = {}
    PROVE  Sealed(bs, Kept(list, sid)) /\ BatchIn(Kept(list, sid)) = BatchIn(list)
<1>1. PICK ks : ks = Kept(list, sid)
  OBVIOUS
<1>2. PICK I : I = {i \in DOMAIN list : sid \notin list[i].sids}
  OBVIOUS
<1>3. ks \in Seq(Hook) /\ \E f : Picks(f, list, sid, ks)
  BY <1>1, KeptIs
<1>4. PICK f : Picks(f, list, sid, ks)
  BY <1>3
<1>5. Filters(f, I, Len(ks)) /\ \A k \in 1 .. Len(ks) : ks[k] = list[f[k]]
  BY <1>2, <1>4 DEF Picks
<1>6. Len(ks) \in Nat /\ DOMAIN ks = 1 .. Len(ks)
  BY <1>3
<1>7. \A k \in DOMAIN ks : f[k] \in I /\ f[k] \in DOMAIN list /\ f[k] \in Nat /\ ks[k] = list[f[k]]
  BY <1>2, <1>5, <1>6 DEF Filters
<1>8. CASE Quiet(list)
  <2>1. Quiet(ks)
    BY <1>7, <1>8 DEF Quiet
  <2> QED BY <2>1, <1>1, <1>8, QuietBatch DEF Sealed
<1>9. CASE ~ Quiet(list)
  <2>1. PICK b, j : SealedAt(bs, list, b, j)
    BY <1>9 DEF Sealed
  <2>2. j \in I
    BY <2>1, <1>2 DEF SealedAt
  <2>3. PICK m \in DOMAIN ks : f[m] = j
    BY <2>2, <1>5, <1>6 DEF Filters
  <2>4. \A k \in DOMAIN ks : f[k] <= j => k <= m
    <3>1. SUFFICES ASSUME NEW k \in DOMAIN ks, f[k] <= j, ~ k <= m
                   PROVE  FALSE
      OBVIOUS
    <3>2. m < k
      BY <3>1, <2>3, <1>6
    <3>3. f[m] < f[k]
      BY <3>2, <2>3, <1>5, <1>6 DEF Filters
    <3> QED BY <3>1, <3>3, <2>3, <1>7
  <2>5. \A k \in DOMAIN ks : k < m => f[k] < j
    BY <2>3, <1>5, <1>6 DEF Filters
  <2>6. SealedAt(bs, ks, b, m)
    <3>1. \A k \in DOMAIN ks : ks[k].kind # "other" => k <= m /\ ks[k].batch = b
      BY <2>1, <2>4, <1>7 DEF SealedAt
    <3>2. \A k \in DOMAIN ks : ks[k].kind = "flush" /\ k < m => ks[k].token < bs[b].token
      BY <2>1, <2>5, <1>7 DEF SealedAt
    <3>3. ks[m].kind = "flush" /\ ks[m].token = bs[b].token
      BY <2>1, <2>3, <1>7 DEF SealedAt
    <3> QED BY <3>1, <3>2, <3>3, <2>1 DEF SealedAt
  <2>7. BatchIn(list) = b /\ BatchIn(ks) = b
    BY <2>1, <2>6, <1>3, SealedBatch
  <2> QED BY <2>6, <2>7, <1>1 DEF Sealed
<1> QED BY <1>8, <1>9

\* enqueue_devices adds rows and a flush that is newer than every other.
LEMMA EnqueueSealed ==
    ASSUME NEW bs, NEW more, NEW list \in Seq(Hook), Sealed(bs, list),
           NEW b, NEW r \in Hook, NEW fl \in Hook,
           b \in DOMAIN more, more[b].token \in Nat,
           r.kind = "rows", r.batch = b, fl.kind = "flush", fl.batch = b, fl.token = more[b].token,
           ~ Quiet(list) => /\ b = BatchIn(list) /\ bs[b].token \in Nat
                            /\ more[b].token = bs[b].token + 1
    PROVE  /\ Sealed(more, list \o <<r, fl>>)
           /\ BatchIn(list \o <<r, fl>>) = b
           /\ ~ Quiet(list \o <<r, fl>>)
<1>1. PICK out : out = list \o <<r, fl>>
  OBVIOUS
<1>2. /\ out \in Seq(Hook) /\ Len(list) \in Nat
      /\ DOMAIN out = DOMAIN list \cup {Len(list) + 1, Len(list) + 2}
      /\ DOMAIN list = 1 .. Len(list)
      /\ \A i \in DOMAIN list : out[i] = list[i]
      /\ out[Len(list) + 1] = r /\ out[Len(list) + 2] = fl
  <2>1. PICK two : two = <<r, fl>>
    OBVIOUS
  <2>2. two \in Seq(Hook) /\ Len(two) = 2 /\ two[1] = r /\ two[2] = fl
    BY <2>1
  <2> QED BY <1>1, <2>1, <2>2
<1>3. PICK j : j = Len(list) + 2
  OBVIOUS
<1>4. \A i \in DOMAIN out : i <= j
  BY <1>2, <1>3
<1>5. \A i \in DOMAIN list : /\ list[i].kind # "other" => list[i].batch = b
                             /\ list[i].kind = "flush" => list[i].token < more[b].token
  <2>1. CASE Quiet(list)
    BY <2>1 DEF Quiet
  <2>2. CASE ~ Quiet(list)
    <3>1. PICK c, k : SealedAt(bs, list, c, k)
      BY <2>2 DEF Sealed
    <3>2. c = b
      BY <3>1, <2>2, SealedBatch
    <3>3. ASSUME NEW i \in DOMAIN list, list[i].kind = "flush"
          PROVE  list[i].token < more[b].token
      <4>1. list[i].token \in Nat
        <5>1. list[i] \in Hook
          OBVIOUS
        <5> QED BY <5>1 DEF Hook
      <4>2. i <= k
        BY <3>1, <3>3 DEF SealedAt
      <4>3. k \in Nat /\ i \in Nat
        BY <3>1, <1>2 DEF SealedAt
      <4>4. list[i].token <= bs[b].token
        <5>1. CASE i = k
          BY <5>1, <3>1, <3>2, <2>2 DEF SealedAt
        <5>2. CASE i < k
          <6>1. list[i].token < bs[b].token
            BY <5>2, <3>1, <3>2, <3>3 DEF SealedAt
          <6> QED BY <6>1, <4>1, <2>2
        <5> QED BY <5>1, <5>2, <4>2, <4>3
      <4> QED BY <4>1, <4>4, <2>2
    <3> QED BY <3>1, <3>2, <3>3 DEF SealedAt
  <2> QED BY <2>1, <2>2
<1>6. SealedAt(more, out, b, j)
  <2>1. \A i \in DOMAIN out : out[i].kind # "other" => i <= j /\ out[i].batch = b
    BY <1>2, <1>4, <1>5
  <2>2. \A i \in DOMAIN out : out[i].kind = "flush" /\ i < j => out[i].token < more[b].token
    <3>1. SUFFICES ASSUME NEW i \in DOMAIN out, out[i].kind = "flush", i < j
                   PROVE  out[i].token < more[b].token
      OBVIOUS
    <3>2. i \in DOMAIN list
      BY <3>1, <1>2, <1>3
    <3> QED BY <3>1, <3>2, <1>2, <1>5
  <2>3. j \in DOMAIN out /\ out[j].kind = "flush" /\ out[j].token = more[b].token
    BY <1>2, <1>3
  <2> QED BY <2>1, <2>2, <2>3 DEF SealedAt
<1>7. BatchIn(out) = b
  BY <1>2, <1>6, SealedBatch
<1>8. ~ Quiet(out)
  BY <1>6 DEF SealedAt, Quiet
<1> QED BY <1>1, <1>6, <1>7, <1>8 DEF Sealed

(***************************************************************************)
(* What a callback list owes.                                              *)
(***************************************************************************)

RowsOf(list, d) == {i \in DOMAIN list : list[i].kind = "rows" /\ d \in list[i].devs}

Owes(bs, list) ==
    [d \in Device |-> Cardinality(RowsOf(list, d)) +
                        (IF BatchIn(list) = 0 THEN 0 ELSE bs[BatchIn(list)].committed[d])]

OwedIn(bs, cs) == [c \in DOMAIN cs |-> Owes(bs, cs[c])]

\* What a list owes, as the mapping of ChangeBatch writes it.
LEMMA OwesAre ==
    ASSUME NEW bs, NEW list
    PROVE  Named(list, Range(list)) ++
             (IF BatchIn(list) = 0 THEN None ELSE bs[BatchIn(list)].committed) = Owes(bs, list)
<1>1. ASSUME NEW d \in Device
      PROVE  {i \in DOMAIN list : /\ list[i].kind = "rows"
                                  /\ list[i] \in Range(list)
                                  /\ d \in list[i].devs} = RowsOf(list, d)
  BY DEF RowsOf, Range
<1>2. \A d \in Device : Named(list, Range(list))[d] = Cardinality(RowsOf(list, d))
  BY <1>1 DEF Named
<1>3. CASE BatchIn(list) = 0
  BY <1>2, <1>3 DEF Owes, ++, None
<1>4. CASE BatchIn(list) # 0
  BY <1>2, <1>4 DEF Owes, ++
<1> QED BY <1>3, <1>4

\* Finitely many callbacks of a list name a device.
LEMMA CountsRows ==
    ASSUME NEW list \in Seq(Hook), NEW d
    PROVE  IsFiniteSet(RowsOf(list, d)) /\ Cardinality(RowsOf(list, d)) \in Nat
<1>1. RowsOf(list, d) \in SUBSET DOMAIN list
  BY DEF RowsOf
<1> QED BY <1>1, PlacesFinite

\* A list owes the same while its batch is handed nothing.
LEMMA OwesStay ==
    ASSUME NEW bs, NEW more, NEW list,
           BatchIn(list) # 0 => more[BatchIn(list)].committed = bs[BatchIn(list)].committed
    PROVE  Owes(more, list) = Owes(bs, list)
<1>1. CASE BatchIn(list) = 0
  BY <1>1 DEF Owes
<1>2. CASE BatchIn(list) # 0
  BY <1>2 DEF Owes
<1> QED BY <1>1, <1>2

\* A list without callbacks of this module owes nothing.
LEMMA QuietOwes ==
    ASSUME NEW bs, NEW list, Quiet(list)
    PROVE  Owes(bs, list) = None
<1>1. \A d : RowsOf(list, d) = {}
  BY DEF Quiet, RowsOf
<1>2. \A d : Cardinality(RowsOf(list, d)) = 0
  BY <1>1, FS_EmptySet
<1>3. BatchIn(list) = 0
  BY QuietBatch
<1> QED BY <1>2, <1>3 DEF Owes, None

\* The rows after the first callback.
LEMMA TailRows ==
    ASSUME NEW list \in Seq(Hook), list # <<>>, NEW d
    PROVE  Cardinality(RowsOf(list, d)) =
             Cardinality(RowsOf(Tail(list), d))
               + (IF Head(list).kind = "rows" /\ d \in Head(list).devs THEN 1 ELSE 0)
<1>1. PICK rest : rest = Tail(list)
  OBVIOUS
<1>2. /\ rest \in Seq(Hook) /\ Len(list) \in Nat /\ Len(list) >= 1
      /\ DOMAIN list = 1 .. Len(list) /\ DOMAIN rest = 1 .. Len(list) - 1
      /\ Head(list) = list[1] /\ 1 \in DOMAIN list
      /\ \A i \in 1 .. Len(list) - 1 : rest[i] = list[i + 1]
  BY <1>1, TailIs
<1>3. PICK A : A = RowsOf(rest, d)
  OBVIOUS
<1>4. PICK B : B = RowsOf(list, d) \ {1}
  OBVIOUS
<1>5. PICK f : f = [i \in DOMAIN rest |-> i + 1]
  OBVIOUS
<1>6. \A i \in DOMAIN rest : f[i] = i + 1 /\ i \in Nat /\ i >= 1 /\ i + 1 \in DOMAIN list /\ rest[i] = list[i + 1]
  BY <1>2, <1>5
<1>65. A \in SUBSET DOMAIN rest
  BY <1>3 DEF RowsOf
<1>7. \A i \in A : f[i] \in B
  <2>1. SUFFICES ASSUME NEW i \in A PROVE f[i] \in B
    OBVIOUS
  <2>2. i \in DOMAIN rest /\ rest[i].kind = "rows" /\ d \in rest[i].devs
    BY <1>3 DEF RowsOf
  <2>3. i + 1 # 1
    BY <2>2, <1>6
  <2> QED BY <2>2, <2>3, <1>4, <1>6 DEF RowsOf
<1>8. \A i, j \in A : f[i] = f[j] => i = j
  BY <1>6, <1>65
<1>9. \A j \in B : \E i \in A : f[i] = j
  <2>1. SUFFICES ASSUME NEW j \in B PROVE \E i \in A : f[i] = j
    OBVIOUS
  <2>2. j \in DOMAIN list /\ j # 1 /\ list[j].kind = "rows" /\ d \in list[j].devs
    BY <1>4 DEF RowsOf
  <2>3. j - 1 \in DOMAIN rest /\ j - 1 + 1 = j
    BY <2>2, <1>2
  <2>4. rest[j - 1] = list[j] /\ f[j - 1] = j
    BY <2>3, <1>6
  <2>5. j - 1 \in A
    BY <2>2, <2>3, <2>4, <1>3 DEF RowsOf
  <2> QED BY <2>4, <2>5
<1>10. Cardinality(A) = Cardinality(B)
  <2>1. IsFiniteSet(A)
    BY <1>2, <1>3, CountsRows
  <2> QED BY <2>1, <1>7, <1>8, <1>9, Counted
<1>11. PICK C : C = RowsOf(list, d)
  OBVIOUS
<1>12. IsFiniteSet(C) /\ Cardinality(C) \in Nat
  BY <1>11, CountsRows
<1>13. CASE 1 \in C
  <2>1. Head(list).kind = "rows" /\ d \in Head(list).devs
    BY <1>2, <1>11, <1>13 DEF RowsOf
  <2>2. Cardinality(B) = Cardinality(C) - 1
    BY <1>4, <1>11, <1>12, <1>13, FS_RemoveElement
  <2> QED BY <2>1, <2>2, <1>1, <1>3, <1>10, <1>11, <1>12
<1>14. CASE 1 \notin C
  <2>1. ~(Head(list).kind = "rows" /\ d \in Head(list).devs)
    BY <1>2, <1>11, <1>14 DEF RowsOf
  <2>2. B = C
    BY <1>4, <1>11, <1>14
  <2> QED BY <2>1, <2>2, <1>1, <1>3, <1>10, <1>11, <1>12
<1> QED BY <1>13, <1>14

\* A callback that neither hands rows over nor is the newest flush leaves the debt.
LEMMA PassedOver ==
    ASSUME NEW bs, NEW list \in Seq(Hook), list # <<>>,
           Head(list).kind # "rows", BatchIn(Tail(list)) = BatchIn(list)
    PROVE  Owes(bs, Tail(list)) = Owes(bs, list)
<1>1. ASSUME NEW d PROVE Cardinality(RowsOf(list, d)) = Cardinality(RowsOf(Tail(list), d))
  <2>1. Cardinality(RowsOf(list, d)) = Cardinality(RowsOf(Tail(list), d)) + 0
    BY TailRows
  <2>2. Cardinality(RowsOf(Tail(list), d)) \in Nat
    BY TailIs, CountsRows
  <2> QED BY <2>1, <2>2
<1> QED BY <1>1 DEF Owes

\* _Batch.commit moves what is owed from the list to the batch.
LEMMA HandedOver ==
    ASSUME NEW bs \in Seq(Batch), NEW list \in Seq(Hook), list # <<>>, Sealed(bs, list),
           Head(list).kind = "rows", NEW more, NEW b, b = Head(list).batch,
           more[b].committed = bs[b].committed ++ Once(Head(list).devs)
    PROVE  Owes(more, Tail(list)) = Owes(bs, list)
<1>1. b = BatchIn(list) /\ b = BatchIn(Tail(list)) /\ ~ Quiet(list)
  BY TailSealed
<1>2. b # 0 /\ bs[b] \in Batch
  BY <1>1, BatchIs
<1>3. ASSUME NEW d \in Device
      PROVE  Cardinality(RowsOf(Tail(list), d)) + more[b].committed[d]
               = Cardinality(RowsOf(list, d)) + bs[b].committed[d]
  <2>1. bs[b].committed[d] \in Nat
    BY <1>2 DEF Batch, Tally
  <2>2. more[b].committed[d] = bs[b].committed[d] + (IF d \in Head(list).devs THEN 1 ELSE 0)
    BY DEF ++, Once
  <2>3. Cardinality(RowsOf(Tail(list), d)) \in Nat
    BY TailIs, CountsRows
  <2>4. Cardinality(RowsOf(list, d)) = Cardinality(RowsOf(Tail(list), d))
                                         + (IF d \in Head(list).devs THEN 1 ELSE 0)
    BY TailRows
  <2> QED BY <2>1, <2>2, <2>3, <2>4
<1>4. \A d \in Device : Owes(more, Tail(list))[d] = Owes(bs, list)[d]
  BY <1>1, <1>2, <1>3 DEF Owes
<1> QED BY <1>4 DEF Owes

\* The newest flush finds all that is owed in the batch.
LEMMA FlushOwes ==
    ASSUME NEW bs \in Seq(Batch), NEW list \in Seq(Hook), list # <<>>, Sealed(bs, list),
           Head(list).kind = "flush", Head(list).token = bs[Head(list).batch].token
    PROVE  /\ Owes(bs, list) = bs[Head(list).batch].committed
           /\ Quiet(Tail(list))
<1>1. Head(list).batch = BatchIn(list) /\ ~ Quiet(list) /\ Quiet(Tail(list))
  BY TailSealed
<1>2. PICK b : b = BatchIn(list)
  OBVIOUS
<1>3. b # 0 /\ bs[b] \in Batch
  BY <1>1, <1>2, BatchIs
<1>4. ASSUME NEW d PROVE Cardinality(RowsOf(list, d)) = 0
  <2>1. RowsOf(Tail(list), d) = {}
    BY <1>1 DEF Quiet, RowsOf
  <2>2. Cardinality(RowsOf(Tail(list), d)) = 0
    BY <2>1, FS_EmptySet
  <2>3. Cardinality(RowsOf(list, d)) = Cardinality(RowsOf(Tail(list), d)) + 0
    BY TailRows
  <2> QED BY <2>2, <2>3
<1>5. bs[b].committed \in [Device -> Nat]
  BY <1>3 DEF Batch, Tally
<1>6. \A d \in Device : Owes(bs, list)[d] = bs[b].committed[d]
  BY <1>2, <1>3, <1>4, <1>5 DEF Owes
<1>7. Owes(bs, list) = bs[b].committed
  BY <1>5, <1>6 DEF Owes
<1> QED BY <1>1, <1>2, <1>7

\* A transaction owes what it named, once it is committed.
LEMMA CommitOwes ==
    ASSUME NEW bs, NEW hs, NEW u, Fitting(hs, <<>>, u),
           BatchIn(hs) # 0 => bs[BatchIn(hs)].committed = None
    PROVE  /\ Len(Tallies(hs, <<>>)) = 1
           /\ Owes(bs, hs) = Tallies(hs, <<>>)[1]
<1>1. hs \in Seq(Hook) /\ <<>> \in Seq(Nat) /\ Len(<<>>) = 0
  BY DEF Fitting
<1>2. Range(<<>>) = {}
  <2>1. DOMAIN <<>> = {}
    OBVIOUS
  <2> QED BY <2>1 DEF Range
<1>3. ASSUME NEW h PROVE Level(h, <<>>) = 0
  BY <1>2, FS_EmptySet DEF Level
<1>4. ASSUME NEW d PROVE RowsAt(hs, <<>>, 0, d) = RowsOf(hs, d)
  BY <1>3 DEF RowsAt, RowsOf
<1>5. PICK op : op = <<>>
  OBVIOUS
<1>6. Len(op) + 1 = 1 /\ 1 \in 1 .. Len(op) + 1 /\ 1 - 1 = 0 /\ op \in Seq(Nat)
  BY <1>1, <1>5
<1>7. /\ Tallies(hs, op) \in Seq(Tally) /\ Len(Tallies(hs, op)) = 1
      /\ \A d \in Device : Tallies(hs, op)[1][d] = Cardinality(RowsAt(hs, op, 0, d))
  BY <1>1, <1>6, TalliesAre
<1>8. Tallies(hs, op)[1] \in [Device -> Nat]
  <2>1. Tallies(hs, op)[1] \in Tally
    BY <1>7
  <2> QED BY <2>1 DEF Tally
<1>9. \A d \in Device : Owes(bs, hs)[d] = Tallies(hs, op)[1][d]
  <2>1. SUFFICES ASSUME NEW d \in Device PROVE Owes(bs, hs)[d] = Tallies(hs, op)[1][d]
    OBVIOUS
  <2>2. Owes(bs, hs)[d] = Cardinality(RowsOf(hs, d)) + 0
    BY DEF Owes, None
  <2>3. Cardinality(RowsOf(hs, d)) \in Nat
    BY <1>1, CountsRows
  <2> QED BY <2>2, <2>3, <1>4, <1>5, <1>7
<1>10. Owes(bs, hs) = Tallies(hs, op)[1]
  BY <1>8, <1>9 DEF Owes
<1> QED BY <1>5, <1>7, <1>10

\* A sequence with its last member replaced.
TopOf(A, S, cs, t) ==
    /\ A \in Seq(S) /\ Len(A) = Len(cs) /\ Len(cs) \in Nat /\ Len(cs) >= 1
    /\ DOMAIN cs = 1 .. Len(cs) /\ Len(cs) \in DOMAIN cs /\ DOMAIN A = DOMAIN cs
    /\ Last(cs) = cs[Len(cs)] /\ Last(cs) \in S /\ A[Len(cs)] = t
    /\ \A i \in DOMAIN cs : i # Len(cs) => A[i] = cs[i]

\* A stack with its top replaced.
LEMMA TopIs ==
    ASSUME NEW S, NEW cs \in Seq(S), cs # <<>>, NEW t \in S
    PROVE  TopOf(Append(Front(cs), t), S, cs, t)
<1>1. PICK F : F = Front(cs)
  OBVIOUS
<1>2. /\ F \in Seq(S) /\ Len(cs) \in Nat /\ Len(cs) >= 1 /\ Len(F) = Len(cs) - 1
      /\ \A i \in 1 .. Len(cs) - 1 : F[i] = cs[i]
      /\ Last(cs) = cs[Len(cs)] /\ Last(cs) \in S
  BY <1>1, FrontIs
<1>3. DOMAIN cs = 1 .. Len(cs) /\ Len(cs) \in DOMAIN cs
  BY <1>2
<1>4. PICK A : A = Append(F, t)
  OBVIOUS
<1>5. /\ A \in Seq(S) /\ Len(A) = Len(cs) /\ DOMAIN A = 1 .. Len(cs)
      /\ A[Len(cs)] = t /\ \A i \in 1 .. Len(cs) - 1 : A[i] = F[i]
  BY <1>2, <1>4
<1>6. ASSUME NEW i \in DOMAIN cs, i # Len(cs) PROVE A[i] = cs[i]
  <2>1. i \in 1 .. Len(cs) - 1
    BY <1>2, <1>3, <1>6
  <2> QED BY <2>1, <1>2, <1>5
<1> QED BY <1>1, <1>2, <1>3, <1>4, <1>5, <1>6 DEF TopOf

(***************************************************************************)
(* The lists of a connection and the batches they refer to.                *)
(***************************************************************************)

\* No batch is that of two lists.
Apart(hs, cs) ==
    \A c \in DOMAIN cs : BatchIn(cs[c]) # 0 =>
        /\ BatchIn(cs[c]) # BatchIn(hs)
        /\ \A e \in DOMAIN cs : e # c => BatchIn(cs[e]) # BatchIn(cs[c])

\* Every list is sealed, each has a batch of its own, and that of the transaction in
\* progress was handed nothing.
ListsRight(bs, hs, cs) ==
    /\ bs \in Seq(Batch) /\ hs \in Seq(Hook) /\ cs \in Seq(Seq(Hook))
    /\ Sealed(bs, hs) /\ \A c \in DOMAIN cs : Sealed(bs, cs[c])
    /\ Apart(hs, cs)
    /\ BatchIn(hs) # 0 => bs[BatchIn(hs)].committed = None

\* The empty list is sealed and refers to no batch.
LEMMA NoHooks ==
    /\ <<>> \in Seq(Hook) /\ Quiet(<<>>) /\ BatchIn(<<>>) = 0
    /\ \A bs : Sealed(bs, <<>>)
<1>1. Quiet(<<>>)
  <2>1. DOMAIN <<>> = {}
    OBVIOUS
  <2> QED BY <2>1 DEF Quiet
<1> QED BY <1>1, QuietBatch DEF Sealed

\* Every chain is a list of callbacks.
LEMMA ChainsAre ==
    ASSUME NEW cs \in Seq(Seq(Hook)), NEW c \in DOMAIN cs
    PROVE  cs[c] \in Seq(Hook)
<1>1. PICK S : S = Seq(Hook)
  OBVIOUS
<1>2. cs \in Seq(S)
  BY <1>1
<1>3. cs[c] \in S
  BY <1>2
<1> QED BY <1>1, <1>3

\* The batches of all lists are there.
LEMMA ListBatches ==
    ASSUME NEW bs, NEW hs, NEW cs, ListsRight(bs, hs, cs)
    PROVE  /\ BatchIn(hs) \in 0 .. Len(bs) /\ Len(bs) \in Nat
           /\ \A c \in DOMAIN cs : BatchIn(cs[c]) \in 0 .. Len(bs) /\ cs[c] \in Seq(Hook)
<1>1. BatchIn(hs) \in 0 .. Len(bs) /\ Len(bs) \in Nat
  BY BatchIs DEF ListsRight
<1>2. ASSUME NEW c \in DOMAIN cs
      PROVE  BatchIn(cs[c]) \in 0 .. Len(bs) /\ cs[c] \in Seq(Hook)
  <2>1. cs[c] \in Seq(Hook)
    BY ChainsAre DEF ListsRight
  <2>2. Sealed(bs, cs[c]) /\ bs \in Seq(Batch)
    BY DEF ListsRight
  <2> QED BY <2>1, <2>2, BatchIs
<1> QED BY <1>1, <1>2

\* The list of the transaction changes and its batch does not.
LEMMA OtherHooks ==
    ASSUME NEW bs, NEW hs, NEW cs, ListsRight(bs, hs, cs),
           NEW more \in Seq(Hook), Sealed(bs, more), BatchIn(more) = BatchIn(hs)
    PROVE  ListsRight(bs, more, cs)
BY DEF ListsRight, Apart

\* A transaction that rolls back takes its list with it.
LEMMA ClearedHooks ==
    ASSUME NEW bs, NEW hs, NEW cs, ListsRight(bs, hs, cs)
    PROVE  ListsRight(bs, <<>>, cs)
BY NoHooks DEF ListsRight, Apart

\* With no transaction and no chain everything is right.
LEMMA NothingLeft ==
    ASSUME NEW bs \in Seq(Batch)
    PROVE  ListsRight(bs, <<>>, <<>>)
<1>1. <<>> \in Seq(Seq(Hook)) /\ DOMAIN <<>> = {}
  OBVIOUS
<1> QED BY <1>1, NoHooks DEF ListsRight, Apart

\* What a sealed list owes is a tally.
LEMMA OwesType ==
    ASSUME NEW bs \in Seq(Batch), NEW list \in Seq(Hook), Sealed(bs, list)
    PROVE  Owes(bs, list) \in Tally
<1>1. \A d : Cardinality(RowsOf(list, d)) \in Nat
  BY CountsRows
<1>2. BatchIn(list) # 0 => \A d \in Device : bs[BatchIn(list)].committed[d] \in Nat
  BY BatchIs DEF Batch, Tally
<1> QED BY <1>1, <1>2 DEF Owes, Tally

\* What the chains owe, chain by chain.
LEMMA OwedSeq ==
    ASSUME NEW bs \in Seq(Batch), NEW cs \in Seq(Seq(Hook)),
           \A c \in DOMAIN cs : Sealed(bs, cs[c])
    PROVE  /\ Len(cs) \in Nat /\ DOMAIN cs = 1 .. Len(cs)
           /\ OwedIn(bs, cs) \in Seq(Tally) /\ Len(OwedIn(bs, cs)) = Len(cs)
           /\ \A c \in 1 .. Len(cs) : OwedIn(bs, cs)[c] = Owes(bs, cs[c])
           /\ cs = <<>> <=> OwedIn(bs, cs) = <<>>
<1>1. Len(cs) \in Nat /\ DOMAIN cs = 1 .. Len(cs)
  OBVIOUS
<1>2. PICK W : W = OwedIn(bs, cs)
  OBVIOUS
<1>3. W = [c \in 1 .. Len(cs) |-> Owes(bs, cs[c])]
  BY <1>1, <1>2 DEF OwedIn
<1>4. \A c \in 1 .. Len(cs) : Owes(bs, cs[c]) \in Tally
  <2>1. \A c \in DOMAIN cs : cs[c] \in Seq(Hook)
    BY ChainsAre
  <2> QED BY <2>1, <1>1, OwesType
<1>5. PICK n : n = Len(cs)
  OBVIOUS
<1>6. W \in [1 .. n -> Tally]
  BY <1>3, <1>4, <1>5
<1>7. W \in Seq(Tally) /\ Len(W) = n
  <2>1. n \in Nat
    BY <1>1, <1>5
  <2>2. PICK f : f = W
    OBVIOUS
  <2>3. f \in Seq(Tally)
    BY <2>1, <2>2, <1>6
  <2>4. DOMAIN f = 1 .. n
    BY <2>2, <1>6
  <2>5. Len(f) = n
    BY <2>1, <2>3, <2>4
  <2> QED BY <2>2, <2>3, <2>5
<1>8. \A c \in 1 .. Len(cs) : W[c] = Owes(bs, cs[c])
  BY <1>3
<1>9. cs = <<>> <=> W = <<>>
  <2>1. cs = <<>> <=> Len(cs) = 0
    OBVIOUS
  <2>2. W = <<>> <=> Len(W) = 0
    BY <1>7
  <2> QED BY <2>1, <2>2, <1>5, <1>7
<1> QED BY <1>1, <1>2, <1>5, <1>7, <1>8, <1>9

\* Commit: the list becomes a chain.
LEMMA Committed ==
    ASSUME NEW bs, NEW hs, NEW cs, ListsRight(bs, hs, cs)
    PROVE  /\ ListsRight(bs, <<>>, Append(cs, hs))
           /\ OwedIn(bs, Append(cs, hs)) = Append(OwedIn(bs, cs), Owes(bs, hs))
<1>1. PICK S : S = Seq(Hook)
  OBVIOUS
<1>2. cs \in Seq(S) /\ hs \in S
  BY <1>1 DEF ListsRight
<1>3. PICK A : A = Append(cs, hs)
  OBVIOUS
<1>4. /\ A \in Seq(S) /\ Len(cs) \in Nat /\ DOMAIN cs = 1 .. Len(cs)
      /\ DOMAIN A = 1 .. Len(cs) + 1 /\ A[Len(cs) + 1] = hs
      /\ \A c \in 1 .. Len(cs) : A[c] = cs[c]
  BY <1>2, <1>3
<1>45. \A c \in DOMAIN A : c = Len(cs) + 1 \/ (c \in DOMAIN cs /\ A[c] = cs[c])
  BY <1>4
<1>5. \A c \in DOMAIN A : Sealed(bs, A[c])
  BY <1>4, <1>45 DEF ListsRight
<1>6. Apart(<<>>, A)
  <2>1. SUFFICES ASSUME NEW c \in DOMAIN A, BatchIn(A[c]) # 0
                 PROVE  /\ BatchIn(A[c]) # BatchIn(<<>>)
                        /\ \A e \in DOMAIN A : e # c => BatchIn(A[e]) # BatchIn(A[c])
    BY DEF Apart
  <2>2. BatchIn(A[c]) # BatchIn(<<>>)
    BY <2>1, NoHooks
  <2>3. ASSUME NEW e \in DOMAIN A, e # c PROVE BatchIn(A[e]) # BatchIn(A[c])
    <3>1. CASE c = Len(cs) + 1
      <4>1. e \in DOMAIN cs /\ A[e] = cs[e] /\ A[c] = hs
        BY <2>3, <3>1, <1>4, <1>45
      <4> QED BY <4>1, <2>1 DEF ListsRight, Apart
    <3>2. CASE c # Len(cs) + 1
      <4>1. c \in DOMAIN cs /\ A[c] = cs[c]
        BY <3>2, <1>45
      <4>2. CASE e = Len(cs) + 1
        BY <4>1, <4>2, <2>1, <1>4 DEF ListsRight, Apart
      <4>3. CASE e # Len(cs) + 1
        <5>1. e \in DOMAIN cs /\ A[e] = cs[e]
          BY <4>3, <1>45
        <5> QED BY <5>1, <4>1, <2>1, <2>3 DEF ListsRight, Apart
      <4> QED BY <4>2, <4>3
    <3> QED BY <3>1, <3>2
  <2> QED BY <2>2, <2>3
<1>7. ListsRight(bs, <<>>, A)
  BY <1>1, <1>4, <1>5, <1>6, NoHooks DEF ListsRight
<1>8. OwedIn(bs, A) = Append(OwedIn(bs, cs), Owes(bs, hs))
  <2>1. PICK W : W = OwedIn(bs, cs)
    OBVIOUS
  <2>2. PICK x : x = Owes(bs, hs)
    OBVIOUS
  <2>3. /\ W \in Seq(Tally) /\ Len(W) = Len(cs)
        /\ \A c \in 1 .. Len(cs) : W[c] = Owes(bs, cs[c])
    BY <2>1, OwedSeq DEF ListsRight
  <2>4. x \in Tally
    BY <2>2, OwesType DEF ListsRight
  <2>5. PICK X : X = Append(W, x)
    OBVIOUS
  <2>6. /\ X \in Seq(Tally) /\ Len(X) = Len(cs) + 1 /\ X[Len(cs) + 1] = x
        /\ \A c \in 1 .. Len(cs) : X[c] = W[c]
    BY <2>3, <2>4, <2>5, <1>4
  <2>7. /\ OwedIn(bs, A) \in Seq(Tally) /\ Len(OwedIn(bs, A)) = Len(cs) + 1
        /\ \A c \in 1 .. Len(cs) + 1 : OwedIn(bs, A)[c] = Owes(bs, A[c])
    <3>1. A \in Seq(Seq(Hook)) /\ Len(A) = Len(cs) + 1 /\ bs \in Seq(Batch)
      BY <1>1, <1>4 DEF ListsRight
    <3>2. /\ OwedIn(bs, A) \in Seq(Tally) /\ Len(OwedIn(bs, A)) = Len(A)
          /\ \A c \in 1 .. Len(A) : OwedIn(bs, A)[c] = Owes(bs, A[c])
      BY <3>1, <1>5, OwedSeq
    <3> QED BY <3>1, <3>2
  <2>8. \A c \in 1 .. Len(cs) + 1 : OwedIn(bs, A)[c] = X[c]
    <3>1. SUFFICES ASSUME NEW c \in 1 .. Len(cs) + 1 PROVE OwedIn(bs, A)[c] = X[c]
      OBVIOUS
    <3>2. CASE c = Len(cs) + 1
      BY <3>2, <2>2, <2>6, <2>7, <1>4
    <3>3. CASE c # Len(cs) + 1
      <4>1. c \in 1 .. Len(cs)
        BY <3>3, <1>4
      <4> QED BY <4>1, <2>3, <2>6, <2>7, <1>4
    <3> QED BY <3>2, <3>3
  <2>9. OwedIn(bs, A) = X
    BY <2>6, <2>7, <2>8, SameSeq
  <2> QED BY <2>1, <2>2, <2>5, <2>9
<1> QED BY <1>3, <1>7, <1>8

\* Batches go when nothing refers to them.
LEMMA IdleLists ==
    ASSUME NEW bs, NEW cs, ListsRight(bs, <<>>, cs), NEW more, more = IF cs = <<>> THEN <<>> ELSE bs
    PROVE  ListsRight(more, <<>>, cs) /\ OwedIn(more, cs) = OwedIn(bs, cs)
<1>1. CASE cs = <<>>
  <2>1. DOMAIN <<>> = {} /\ <<>> \in Seq(Batch)
    OBVIOUS
  <2>2. ListsRight(<<>>, <<>>, <<>>)
    BY <2>1, NothingLeft
  <2>3. OwedIn(<<>>, <<>>) = OwedIn(bs, <<>>)
    BY <2>1 DEF OwedIn
  <2> QED BY <2>2, <2>3, <1>1
<1>2. CASE cs # <<>>
  BY <1>2
<1> QED BY <1>1, <1>2

\* A chain at its end owes nothing.
LEMMA Ended ==
    ASSUME NEW bs, NEW hs, NEW cs, ListsRight(bs, hs, cs), cs # <<>>, Last(cs) = <<>>
    PROVE  /\ ListsRight(bs, hs, Front(cs))
           /\ OwedIn(bs, cs) # <<>> /\ Last(OwedIn(bs, cs)) = None
           /\ OwedIn(bs, Front(cs)) = Front(OwedIn(bs, cs))
<1>1. PICK S : S = Seq(Hook)
  OBVIOUS
<1>2. PICK F : F = Front(cs)
  OBVIOUS
<1>3. /\ F \in Seq(S) /\ Len(cs) \in Nat /\ Len(cs) >= 1 /\ Len(F) = Len(cs) - 1
      /\ \A i \in 1 .. Len(cs) - 1 : F[i] = cs[i]
      /\ Last(cs) = cs[Len(cs)]
  <2>1. cs \in Seq(S)
    BY <1>1 DEF ListsRight
  <2> QED BY <2>1, <1>2, FrontIs
<1>4. DOMAIN F = 1 .. Len(cs) - 1 /\ \A i \in DOMAIN F : i \in DOMAIN cs /\ F[i] = cs[i]
  <2>1. cs \in Seq(S)
    BY <1>1 DEF ListsRight
  <2> QED BY <2>1, <1>3
<1>5. \A i \in DOMAIN F : Sealed(bs, F[i])
  BY <1>4 DEF ListsRight
<1>6. Apart(hs, F)
  BY <1>4 DEF ListsRight, Apart
<1>7. ListsRight(bs, hs, F)
  BY <1>1, <1>3, <1>5, <1>6 DEF ListsRight
<1>8. PICK W : W = OwedIn(bs, cs)
  OBVIOUS
<1>9. /\ W \in Seq(Tally) /\ Len(W) = Len(cs) /\ W # <<>>
      /\ \A c \in 1 .. Len(cs) : W[c] = Owes(bs, cs[c])
  BY <1>8, OwedSeq DEF ListsRight
<1>10. PICK V : V = Front(W)
  OBVIOUS
<1>11. /\ V \in Seq(Tally) /\ Len(V) = Len(cs) - 1
       /\ \A c \in 1 .. Len(cs) - 1 : V[c] = W[c]
       /\ Last(W) = W[Len(cs)]
  <2>1. /\ V \in Seq(Tally) /\ Len(V) = Len(W) - 1
        /\ \A c \in 1 .. Len(W) - 1 : V[c] = W[c]
        /\ Last(W) = W[Len(W)]
    BY <1>9, <1>10, FrontIs
  <2> QED BY <2>1, <1>9
<1>12. Last(W) = None
  <2>1. Len(cs) \in 1 .. Len(cs)
    BY <1>3
  <2>2. Last(W) = Owes(bs, <<>>)
    BY <2>1, <1>3, <1>9, <1>11
  <2> QED BY <2>2, NoHooks, QuietOwes
<1>13. PICK X : X = OwedIn(bs, F)
  OBVIOUS
<1>14. /\ X \in Seq(Tally) /\ Len(X) = Len(cs) - 1
       /\ \A c \in 1 .. Len(cs) - 1 : X[c] = Owes(bs, F[c])
  <2>1. F \in Seq(Seq(Hook)) /\ bs \in Seq(Batch)
    BY <1>1, <1>3 DEF ListsRight
  <2>2. /\ X \in Seq(Tally) /\ Len(X) = Len(F)
        /\ \A c \in 1 .. Len(F) : X[c] = Owes(bs, F[c])
    BY <2>1, <1>5, <1>13, OwedSeq
  <2> QED BY <2>2, <1>3
<1>15. X = V
  <2>1. \A c \in 1 .. Len(cs) - 1 : X[c] = V[c]
    <3>1. \A c \in 1 .. Len(cs) - 1 : c \in 1 .. Len(cs)
      BY <1>3
    <3> QED BY <3>1, <1>3, <1>9, <1>11, <1>14
  <2> QED BY <2>1, <1>11, <1>14, SameSeq
<1> QED BY <1>2, <1>7, <1>8, <1>9, <1>10, <1>12, <1>13, <1>15

\* The innermost chain goes on, and its batch may be handed rows or flushed.
LEMMA Stepped ==
    ASSUME NEW bs, NEW cs, ListsRight(bs, <<>>, cs), cs # <<>>,
           NEW t \in Seq(Hook), NEW more \in Seq(Batch), Sealed(bs, t),
           BatchIn(t) \in {0, BatchIn(Last(cs))},
           DOMAIN more = DOMAIN bs, \A b \in DOMAIN bs : more[b].token = bs[b].token,
           \A b \in DOMAIN bs : b # BatchIn(Last(cs)) => more[b].committed = bs[b].committed
    PROVE  /\ ListsRight(more, <<>>, Append(Front(cs), t))
           /\ OwedIn(bs, cs) # <<>>
           /\ Last(OwedIn(bs, cs)) = Owes(bs, Last(cs))
           /\ OwedIn(more, Append(Front(cs), t)) = Append(Front(OwedIn(bs, cs)), Owes(more, t))
           /\ Owes(more, t) = Owes(bs, Last(cs)) =>
                OwedIn(more, Append(Front(cs), t)) = OwedIn(bs, cs)
<1>2. PICK A : A = Append(Front(cs), t)
  OBVIOUS
<1>3. PICK n : n = Len(cs)
  OBVIOUS
<1>1. cs \in Seq(Seq(Hook))
  BY DEF ListsRight
<1>35. TopOf(A, Seq(Hook), cs, t)
  BY <1>1, <1>2, TopIs
<1>4. /\ A \in Seq(Seq(Hook)) /\ Len(A) = n /\ n \in Nat /\ n >= 1
      /\ DOMAIN cs = 1 .. n /\ n \in DOMAIN cs /\ DOMAIN A = DOMAIN cs
      /\ Last(cs) = cs[n] /\ A[n] = t
      /\ \A i \in DOMAIN cs : i # n => A[i] = cs[i]
  BY <1>3, <1>35 DEF TopOf
<1>5. \A c \in DOMAIN cs : cs[c] \in Seq(Hook) /\ Sealed(bs, cs[c])
  BY ListBatches DEF ListsRight
<1>6. \A list : Sealed(bs, list) /\ list \in Seq(Hook) => Sealed(more, list)
  BY SealStays
<1>7. \A c \in DOMAIN A : Sealed(more, A[c])
  BY <1>4, <1>5, <1>6
<1>8. Apart(<<>>, A)
  <2>1. SUFFICES ASSUME NEW c \in DOMAIN A, BatchIn(A[c]) # 0
                 PROVE  \A e \in DOMAIN A : e # c => BatchIn(A[e]) # BatchIn(A[c])
    BY NoHooks DEF Apart
  <2>2. SUFFICES ASSUME NEW e \in DOMAIN A, e # c, BatchIn(A[e]) = BatchIn(A[c])
                 PROVE  FALSE
    OBVIOUS
  <2>3. \A i \in DOMAIN A : BatchIn(A[i]) # 0 => BatchIn(A[i]) = BatchIn(cs[i])
    BY <1>4
  <2>4. BatchIn(cs[c]) # 0 /\ BatchIn(cs[e]) = BatchIn(cs[c])
    BY <2>1, <2>2, <2>3
  <2> QED BY <2>1, <2>2, <2>4, <1>4 DEF ListsRight, Apart
<1>9. ListsRight(more, <<>>, A)
  BY <1>4, <1>6, <1>7, <1>8, NoHooks DEF ListsRight
<1>10. PICK W : W = OwedIn(bs, cs)
  OBVIOUS
<1>11. /\ W \in Seq(Tally) /\ Len(W) = n /\ W # <<>>
       /\ \A c \in 1 .. n : W[c] = Owes(bs, cs[c])
  BY <1>3, <1>10, OwedSeq DEF ListsRight
<1>12. PICK x : x = Owes(more, t)
  OBVIOUS
<1>13. x \in Tally
  BY <1>6, <1>12, OwesType
<1>14. PICK X : X = Append(Front(W), x)
  OBVIOUS
<1>15. /\ X \in Seq(Tally) /\ Len(X) = n /\ X[n] = x
       /\ \A c \in 1 .. n : c # n => X[c] = W[c]
       /\ Last(W) = W[n]
  <2>1. DOMAIN W = 1 .. n
    BY <1>11
  <2>2. /\ X \in Seq(Tally) /\ DOMAIN X = DOMAIN W /\ X[Len(W)] = x
        /\ \A c \in DOMAIN W : c # Len(W) => X[c] = W[c]
        /\ Last(W) = W[Len(W)]
    <3>1. TopOf(X, Tally, W, x)
      BY <1>11, <1>13, <1>14, TopIs
    <3> QED BY <3>1 DEF TopOf
  <2>3. Len(X) = n
    BY <2>1, <2>2, <1>4
  <2> QED BY <2>1, <2>2, <2>3, <1>11
<1>16. PICK V : V = OwedIn(more, A)
  OBVIOUS
<1>17. /\ V \in Seq(Tally) /\ Len(V) = n
       /\ \A c \in 1 .. n : V[c] = Owes(more, A[c])
  <2>1. A \in Seq(Seq(Hook)) /\ Len(A) = n
    BY <1>4
  <2>2. /\ V \in Seq(Tally) /\ Len(V) = Len(A)
        /\ \A c \in 1 .. Len(A) : V[c] = Owes(more, A[c])
    BY <2>1, <1>7, <1>16, OwedSeq
  <2> QED BY <2>1, <2>2
<1>18. \A c \in 1 .. n : c # n => Owes(more, A[c]) = Owes(bs, cs[c])
  <2>1. SUFFICES ASSUME NEW c \in DOMAIN cs, c # n
                 PROVE  Owes(more, cs[c]) = Owes(bs, cs[c])
    BY <1>4
  <2>2. BatchIn(cs[c]) # 0 => BatchIn(cs[c]) # BatchIn(Last(cs)) /\ BatchIn(cs[c]) \in DOMAIN bs
    <3>1. BatchIn(cs[c]) # 0 => BatchIn(cs[n]) # BatchIn(cs[c])
      BY <2>1, <1>4 DEF ListsRight, Apart
    <3>2. BatchIn(cs[c]) # 0 => BatchIn(cs[c]) \in DOMAIN bs
      BY <1>5, BatchIs DEF ListsRight
    <3> QED BY <3>1, <3>2, <1>4
  <2> QED BY <2>2, OwesStay
<1>19. V = X
  <2>1. \A c \in 1 .. n : V[c] = X[c]
    <3>1. SUFFICES ASSUME NEW c \in 1 .. n PROVE V[c] = X[c]
      OBVIOUS
    <3>2. CASE c = n
      BY <3>2, <1>4, <1>12, <1>15, <1>17
    <3>3. CASE c # n
      BY <3>3, <1>11, <1>15, <1>17, <1>18
    <3> QED BY <3>2, <3>3
  <2> QED BY <2>1, <1>15, <1>17, SameSeq
<1>20. n \in 1 .. n
  BY <1>4
<1>21. Last(W) = Owes(bs, Last(cs))
  BY <1>4, <1>11, <1>15, <1>20
<1>22. ASSUME x = Owes(bs, Last(cs)) PROVE V = W
  <2>1. \A c \in 1 .. n : V[c] = W[c]
    <3>1. SUFFICES ASSUME NEW c \in 1 .. n PROVE V[c] = W[c]
      OBVIOUS
    <3>2. CASE c = n
      BY <3>2, <1>15, <1>19, <1>21, <1>22
    <3>3. CASE c # n
      BY <3>3, <1>15, <1>19
    <3> QED BY <3>2, <3>3
  <2> QED BY <2>1, <1>11, <1>17, SameSeq
<1> QED BY <1>2, <1>9, <1>10, <1>11, <1>12, <1>14, <1>16, <1>19, <1>21, <1>22

\* What enqueue_devices does to the batches, and the callbacks it registers.
Makes(bs, hs, b, made, next, more) ==
    /\ b = IF BatchIn(hs) = 0 THEN Len(bs) + 1 ELSE BatchIn(hs)
    /\ made = IF BatchIn(hs) = 0 THEN Append(bs, [token |-> 0, committed |-> None]) ELSE bs
    /\ next = made[b].token + 1
    /\ more = [made EXCEPT ![b].token = next]

Adds(r, fl, b, next) ==
    /\ r \in Hook /\ r.kind = "rows" /\ r.batch = b
    /\ fl \in Hook /\ fl.kind = "flush" /\ fl.batch = b /\ fl.token = next

\* Batches are made and counted on, and nothing a chain owes changes.
LEMMA Enqueued ==
    ASSUME NEW bs, NEW hs, NEW cs, ListsRight(bs, hs, cs),
           NEW b, NEW made, NEW next, NEW more, Makes(bs, hs, b, made, next, more),
           NEW r, NEW fl, Adds(r, fl, b, next)
    PROVE  /\ ListsRight(more, hs \o <<r, fl>>, cs)
           /\ OwedIn(more, cs) = OwedIn(bs, cs)
<1> USE DEF Makes, Adds
<1>1. /\ BatchIn(hs) \in 0 .. Len(bs) /\ Len(bs) \in Nat
      /\ \A c \in DOMAIN cs : BatchIn(cs[c]) \in 0 .. Len(bs) /\ cs[c] \in Seq(Hook)
  BY ListBatches
<1>2. bs \in Seq(Batch) /\ hs \in Seq(Hook) /\ Sealed(bs, hs) /\ DOMAIN bs = 1 .. Len(bs)
  BY DEF ListsRight
<1>3. [token |-> 0, committed |-> None] \in Batch
  BY DEF Batch, Tally, None
<1>4. /\ made \in Seq(Batch) /\ b \in DOMAIN made /\ b # 0
      /\ \A i \in DOMAIN bs : i \in DOMAIN made /\ made[i] = bs[i]
      /\ made[b].committed = None
  <2>1. CASE BatchIn(hs) = 0
    <3>1. PICK new : new = [token |-> 0, committed |-> None]
      OBVIOUS
    <3>2. made = Append(bs, new) /\ new \in Batch /\ b = Len(bs) + 1
      BY <2>1, <3>1, <1>3
    <3>3. /\ made \in Seq(Batch) /\ DOMAIN made = 1 .. Len(bs) + 1 /\ made[b] = new
          /\ \A i \in 1 .. Len(bs) : made[i] = bs[i]
      BY <3>2, <1>1, <1>2
    <3>4. new.committed = None
      BY <3>1
    <3>5. b # 0 /\ b \in 1 .. Len(bs) + 1 /\ \A i \in 1 .. Len(bs) : i \in 1 .. Len(bs) + 1
      BY <3>2, <1>1
    <3> QED BY <3>3, <3>4, <3>5, <1>2
  <2>2. CASE BatchIn(hs) # 0
    <3>1. b = BatchIn(hs) /\ made = bs /\ b \in 1 .. Len(bs)
      BY <2>2, <1>1
    <3> QED BY <3>1, <2>2, <1>2 DEF ListsRight
  <2> QED BY <2>1, <2>2
<1>5. made[b] \in Batch
  BY <1>4
<1>6. made[b].token \in Nat /\ next \in Nat
  BY <1>5 DEF Batch
<1>7. /\ more \in Seq(Batch) /\ DOMAIN more = DOMAIN made
      /\ more[b].token = next /\ more[b].committed = None
      /\ \A i \in DOMAIN made : i # b => more[i] = made[i]
  <2>1. PICK x : x = [made[b] EXCEPT !.token = next]
    OBVIOUS
  <2>2. x \in Batch /\ x.token = next /\ x.committed = None
    BY <2>1, <1>4, <1>5, <1>6 DEF Batch
  <2>3. more = [made EXCEPT ![b] = x]
    BY <2>1
  <2>4. more \in Seq(Batch) /\ DOMAIN more = DOMAIN made
    BY <2>2, <2>3, <1>4
  <2> QED BY <2>2, <2>3, <2>4, <1>4
<1>8. ~ Quiet(hs) => b = BatchIn(hs) /\ bs[b].token \in Nat /\ more[b].token = bs[b].token + 1
  <2>1. SUFFICES ASSUME ~ Quiet(hs)
                 PROVE  b = BatchIn(hs) /\ bs[b].token \in Nat /\ more[b].token = bs[b].token + 1
    OBVIOUS
  <2>2. BatchIn(hs) # 0
    BY <2>1, <1>2, BatchIs
  <2> QED BY <2>2, <1>6, <1>7
<1>9. /\ Sealed(more, hs \o <<r, fl>>) /\ BatchIn(hs \o <<r, fl>>) = b
  BY <1>2, <1>4, <1>6, <1>7, <1>8, EnqueueSealed
<1>10. PICK out : out = hs \o <<r, fl>>
  OBVIOUS
<1>11. out \in Seq(Hook)
  <2>1. PICK two : two = <<r, fl>>
    OBVIOUS
  <2>2. two \in Seq(Hook)
    BY <2>1
  <2> QED BY <2>1, <2>2, <1>2, <1>10
<1>12. \A c \in DOMAIN cs : BatchIn(cs[c]) # 0 =>
          /\ BatchIn(cs[c]) # b /\ BatchIn(cs[c]) \in DOMAIN bs
          /\ BatchIn(cs[c]) \in DOMAIN more /\ more[BatchIn(cs[c])] = bs[BatchIn(cs[c])]
  <2>1. SUFFICES ASSUME NEW c \in DOMAIN cs, BatchIn(cs[c]) # 0
                 PROVE  /\ BatchIn(cs[c]) # b /\ BatchIn(cs[c]) \in DOMAIN bs
                        /\ BatchIn(cs[c]) \in DOMAIN more /\ more[BatchIn(cs[c])] = bs[BatchIn(cs[c])]
    OBVIOUS
  <2>2. BatchIn(cs[c]) # BatchIn(hs)
    BY <2>1 DEF ListsRight, Apart
  <2>3. BatchIn(cs[c]) \in 1 .. Len(bs)
    BY <2>1, <1>1
  <2>4. BatchIn(cs[c]) # b
    BY <2>2, <2>3, <1>1
  <2> QED BY <2>3, <2>4, <1>2, <1>4, <1>7
<1>13. \A c \in DOMAIN cs : Sealed(more, cs[c])
  <2>1. SUFFICES ASSUME NEW c \in DOMAIN cs PROVE Sealed(more, cs[c])
    OBVIOUS
  <2>2. Sealed(bs, cs[c]) /\ cs[c] \in Seq(Hook)
    BY <1>1 DEF ListsRight
  <2>3. BatchIn(cs[c]) \in DOMAIN bs => BatchIn(cs[c]) # 0
    BY <1>1, <1>2
  <2> QED BY <2>2, <2>3, <1>12, SealStays
<1>14. Apart(out, cs)
  BY <1>9, <1>10, <1>12 DEF ListsRight, Apart
<1>15. ListsRight(more, out, cs)
  <2>1. cs \in Seq(Seq(Hook))
    BY DEF ListsRight
  <2> QED BY <2>1, <1>7, <1>9, <1>10, <1>11, <1>13, <1>14 DEF ListsRight
<1>16. OwedIn(more, cs) = OwedIn(bs, cs)
  <2>1. \A c \in DOMAIN cs : Owes(more, cs[c]) = Owes(bs, cs[c])
    BY <1>12, OwesStay
  <2> QED BY <2>1 DEF OwedIn
<1> QED BY <1>10, <1>15, <1>16

(***************************************************************************)
(* The inductive invariant.                                                *)
(***************************************************************************)

\* Between transactions the connection has no callbacks and no savepoints.
Between == ~atomic => open = <<>> /\ hooks = <<>>

SimpleTypes ==
    /\ atomic \in BOOLEAN
    /\ open \in Seq(1 .. MaxSavepoint) /\ used \in 0 .. MaxSavepoint
    /\ calls \in 0 .. MaxCall
    /\ queue \in Tally /\ relevant \subseteq Device

IInv ==
    /\ SimpleTypes
    /\ Fitting(hooks, open, used)
    /\ Between
    /\ ListsRight(batches, hooks, chains)

\* The invariant implies the types.
LEMMA IInvType == IInv => TypeOK
BY DEF IInv, SimpleTypes, ListsRight, Batch, TypeOK

\* A transaction that has just begun has no callbacks and no savepoints.
LEMMA NothingFits == Fitting(<<>>, <<>>, 0)
<1>1. DOMAIN <<>> = {} /\ Len(<<>>) = 0 /\ <<>> \in Seq(Nat) /\ <<>> \in Seq(Hook)
  OBVIOUS
<1> QED BY <1>1 DEF Fitting, Ascending

\* The invariant holds at first.
LEMMA IInvInit == Init => IInv
<1> SUFFICES ASSUME Init
             PROVE  IInv
  OBVIOUS
<1>1. SimpleTypes
  <2>1. <<>> \in Seq(1 .. MaxSavepoint)
    OBVIOUS
  <2>2. 0 \in 0 .. MaxSavepoint /\ 0 \in 0 .. MaxCall
    BY ChangeBatchAssumption
  <2>3. None \in Tally
    BY DEF Tally, None
  <2> QED BY <2>1, <2>2, <2>3 DEF Init, SimpleTypes
<1>2. Fitting(hooks, open, used)
  BY NothingFits DEF Init
<1>3. <<>> \in Seq(Batch)
  OBVIOUS
<1>4. ListsRight(batches, hooks, chains)
  BY <1>3, NothingLeft DEF Init
<1> QED BY <1>1, <1>2, <1>4 DEF IInv, Between, Init

\* The running chain.
LEMMA RunningIs ==
    ASSUME IInv, NEW kind, Running(kind)
    PROVE  /\ hooks = <<>> /\ open = <<>> /\ chains # <<>>
           /\ ListsRight(batches, <<>>, chains)
           /\ Last(chains) \in Seq(Hook) /\ Last(chains) # <<>>
           /\ Sealed(batches, Last(chains))
           /\ Turn = Head(Last(chains)) /\ Turn \in Hook /\ Turn.kind = kind
           /\ Rest = Append(Front(chains), Tail(Last(chains)))
           /\ Tail(Last(chains)) \in Seq(Hook)
           /\ Sealed(batches, Tail(Last(chains)))
<1>1. hooks = <<>> /\ open = <<>> /\ chains # <<>> /\ Last(chains) # <<>>
  BY DEF IInv, Between, Running
<1>2. ListsRight(batches, <<>>, chains)
  BY <1>1 DEF IInv
<1>3. Last(chains) \in Seq(Hook) /\ Sealed(batches, Last(chains))
  <2>1. PICK S : S = Seq(Hook)
    OBVIOUS
  <2>2. chains \in Seq(S)
    BY <2>1, <1>2 DEF ListsRight
  <2>3. Last(chains) = chains[Len(chains)] /\ Last(chains) \in S /\ Len(chains) \in DOMAIN chains
    <3>1. chains[1] \in S
      BY <2>2, <1>1
    <3>2. TopOf(Append(Front(chains), chains[1]), S, chains, chains[1])
      BY <2>2, <3>1, <1>1, TopIs
    <3> QED BY <3>2 DEF TopOf
  <2> QED BY <2>1, <2>3, <1>2 DEF ListsRight
<1>4. Head(Last(chains)) \in Hook /\ Tail(Last(chains)) \in Seq(Hook)
  BY <1>1, <1>3, TailIs
<1>5. Sealed(batches, Tail(Last(chains)))
  BY <1>1, <1>3, TailSealed
<1> QED BY <1>1, <1>2, <1>3, <1>4, <1>5 DEF Running, Turn, Rest

\* A callback that changes no batch: it returns, or it is no longer the newest flush.
LEMMA PassedIs ==
    ASSUME IInv, OtherReturns \/ Superseded
    PROVE  ListsRight(batches, <<>>, chains') /\ OwedIn(batches, chains') = OwedIn(batches, chains)
<1>1. PICK kind : Running(kind) /\ kind \in {"other", "flush"} /\ (kind = "flush" => ~Newest(Turn))
  BY DEF OtherReturns, Superseded
<1>2. /\ chains # <<>> /\ ListsRight(batches, <<>>, chains)
      /\ Last(chains) \in Seq(Hook) /\ Last(chains) # <<>> /\ Sealed(batches, Last(chains))
      /\ Turn = Head(Last(chains)) /\ Turn.kind = kind
      /\ Tail(Last(chains)) \in Seq(Hook) /\ Sealed(batches, Tail(Last(chains)))
  BY <1>1, RunningIs
<1>3. chains' = Append(Front(chains), Tail(Last(chains)))
  BY DEF OtherReturns, Superseded, Rest
<1>4. PICK top : top = Last(chains)
  OBVIOUS
<1>5. PICK t : t = Tail(Last(chains))
  OBVIOUS
<1>6. BatchIn(t) = BatchIn(top)
  <2>1. /\ Head(top).kind # "other" => Head(top).batch = BatchIn(top)
        /\ Head(top).kind # "flush" => BatchIn(Tail(top)) = BatchIn(top)
        /\ Head(top).kind = "flush" =>
             IF Head(top).token = batches[BatchIn(top)].token
             THEN Quiet(Tail(top)) ELSE BatchIn(Tail(top)) = BatchIn(top)
    BY <1>2, <1>4, TailSealed
  <2>2. CASE kind = "flush"
    <3>1. Turn.token # batches[Turn.batch].token
      BY <2>2, <1>1 DEF Newest
    <3> QED BY <3>1, <2>1, <2>2, <1>2, <1>4, <1>5
  <2>3. CASE kind = "other"
    BY <2>1, <2>3, <1>2, <1>4, <1>5
  <2> QED BY <2>2, <2>3, <1>1
<1>7. Owes(batches, t) = Owes(batches, top)
  <2>1. Head(top).kind # "rows"
    BY <1>1, <1>2, <1>4
  <2> QED BY <2>1, <1>2, <1>4, <1>5, <1>6, PassedOver
<1>8. batches \in Seq(Batch)
  BY <1>2 DEF ListsRight
<1> QED BY <1>2, <1>3, <1>4, <1>5, <1>6, <1>7, <1>8, Stepped

\* Handing rows to the batch changes no debt (_Batch.commit).
LEMMA HandOverIs ==
    ASSUME IInv, HandOver
    PROVE  ListsRight(batches', <<>>, chains') /\ OwedIn(batches', chains') = OwedIn(batches, chains)
<1>1. Running("rows")
  BY DEF HandOver
<1>2. /\ chains # <<>> /\ ListsRight(batches, <<>>, chains)
      /\ Last(chains) \in Seq(Hook) /\ Last(chains) # <<>> /\ Sealed(batches, Last(chains))
      /\ Turn = Head(Last(chains)) /\ Turn \in Hook /\ Turn.kind = "rows"
      /\ Tail(Last(chains)) \in Seq(Hook) /\ Sealed(batches, Tail(Last(chains)))
  BY <1>1, RunningIs
<1>3. chains' = Append(Front(chains), Tail(Last(chains)))
  BY DEF HandOver, Rest
<1>4. PICK top : top = Last(chains)
  OBVIOUS
<1>5. PICK t : t = Tail(Last(chains))
  OBVIOUS
<1>6. PICK b : b = Turn.batch
  OBVIOUS
<1>7. BatchIn(t) = BatchIn(top) /\ b = BatchIn(top) /\ ~ Quiet(top)
  <2>1. /\ Head(top).kind # "other" => Head(top).batch = BatchIn(top) /\ ~ Quiet(top)
        /\ Head(top).kind # "flush" => BatchIn(Tail(top)) = BatchIn(top)
    BY <1>2, <1>4, TailSealed
  <2> QED BY <2>1, <1>2, <1>4, <1>5, <1>6
<1>8. batches \in Seq(Batch)
  BY <1>2 DEF ListsRight
<1>9. b \in DOMAIN batches /\ batches[b] \in Batch
  BY <1>2, <1>4, <1>7, <1>8, BatchIs
<1>10. PICK more : more = batches'
  OBVIOUS
<1>11. PICK c : c = batches[b].committed ++ Once(Turn.devs)
  OBVIOUS
<1>12. c \in Tally
  <2>1. \A d \in Device : batches[b].committed[d] \in Nat
    BY <1>9 DEF Batch, Tally
  <2> QED BY <2>1, <1>11 DEF Tally, ++, Once
<1>13. PICK x : x = [batches[b] EXCEPT !.committed = c]
  OBVIOUS
<1>14. x \in Batch /\ x.token = batches[b].token /\ x.committed = c
  BY <1>9, <1>12, <1>13 DEF Batch
<1>15. more = [batches EXCEPT ![b] = x]
  BY <1>6, <1>10, <1>11, <1>13 DEF HandOver
<1>16. /\ more \in Seq(Batch) /\ DOMAIN more = DOMAIN batches /\ more[b] = x
       /\ \A i \in DOMAIN batches : i # b => more[i] = batches[i]
  BY <1>8, <1>9, <1>14, <1>15
<1>17. Owes(more, t) = Owes(batches, top)
  <2>1. more[b].committed = batches[b].committed ++ Once(Head(top).devs) /\ b = Head(top).batch
    BY <1>2, <1>4, <1>6, <1>11, <1>14, <1>16
  <2> QED BY <2>1, <1>2, <1>4, <1>5, <1>8, HandedOver
<1>18. \A i \in DOMAIN batches : /\ more[i].token = batches[i].token
                                 /\ i # BatchIn(top) => more[i].committed = batches[i].committed
  BY <1>7, <1>14, <1>16
<1>19. /\ ListsRight(more, <<>>, Append(Front(chains), t))
       /\ OwedIn(more, Append(Front(chains), t)) = OwedIn(batches, chains)
  BY <1>2, <1>4, <1>5, <1>7, <1>16, <1>17, <1>18, Stepped
<1> QED BY <1>3, <1>5, <1>10, <1>19

\* The newest flush pays what its chain owes (_Batch.flush).
LEMMA FlushIs ==
    ASSUME IInv, Flush
    PROVE  /\ ListsRight(batches', <<>>, chains')
           /\ OwedIn(batches, chains) # <<>>
           /\ queue' = queue ++ Only(relevant, Last(OwedIn(batches, chains)))
           /\ OwedIn(batches', chains') = Append(Front(OwedIn(batches, chains)), None)
           /\ Last(OwedIn(batches, chains)) \in Tally
<1>1. Running("flush")
  BY DEF Flush
<1>2. /\ chains # <<>> /\ ListsRight(batches, <<>>, chains)
      /\ Last(chains) \in Seq(Hook) /\ Last(chains) # <<>> /\ Sealed(batches, Last(chains))
      /\ Turn = Head(Last(chains)) /\ Turn \in Hook /\ Turn.kind = "flush"
      /\ Tail(Last(chains)) \in Seq(Hook) /\ Sealed(batches, Tail(Last(chains)))
  BY <1>1, RunningIs
<1>3. chains' = Append(Front(chains), Tail(Last(chains)))
  BY DEF Flush, Rest
<1>4. PICK top : top = Last(chains)
  OBVIOUS
<1>5. PICK t : t = Tail(Last(chains))
  OBVIOUS
<1>6. PICK b : b = Turn.batch
  OBVIOUS
<1>7. b = BatchIn(top) /\ ~ Quiet(top)
  BY <1>2, <1>4, <1>6, TailSealed
<1>8. batches \in Seq(Batch)
  BY <1>2 DEF ListsRight
<1>9. b \in DOMAIN batches /\ batches[b] \in Batch
  BY <1>2, <1>4, <1>7, <1>8, BatchIs
<1>10. Owes(batches, top) = batches[b].committed /\ Quiet(t)
  <2>1. Head(top).token = batches[Head(top).batch].token
    BY <1>2, <1>4 DEF Flush, Newest
  <2> QED BY <2>1, <1>2, <1>4, <1>5, <1>6, <1>8, FlushOwes
<1>11. PICK more : more = batches'
  OBVIOUS
<1>12. PICK x : x = [batches[b] EXCEPT !.committed = None]
  OBVIOUS
<1>13. x \in Batch /\ x.token = batches[b].token
  BY <1>9, <1>12 DEF Batch, Tally, None
<1>14. more = [batches EXCEPT ![b] = x]
  BY <1>6, <1>11, <1>12 DEF Flush
<1>15. /\ more \in Seq(Batch) /\ DOMAIN more = DOMAIN batches /\ more[b] = x
       /\ \A i \in DOMAIN batches : i # b => more[i] = batches[i]
  BY <1>8, <1>9, <1>13, <1>14
<1>16. Owes(more, t) = None /\ BatchIn(t) = 0
  BY <1>10, QuietOwes, QuietBatch
<1>17. \A i \in DOMAIN batches : /\ more[i].token = batches[i].token
                                 /\ i # BatchIn(top) => more[i].committed = batches[i].committed
  BY <1>7, <1>13, <1>15
<1>18. /\ ListsRight(more, <<>>, Append(Front(chains), t))
       /\ OwedIn(batches, chains) # <<>>
       /\ Last(OwedIn(batches, chains)) = Owes(batches, top)
       /\ OwedIn(more, Append(Front(chains), t)) = Append(Front(OwedIn(batches, chains)), Owes(more, t))
  <2>1. BatchIn(t) \in {0, BatchIn(Last(chains))}
    BY <1>16
  <2>2. /\ \A i \in DOMAIN batches : more[i].token = batches[i].token
        /\ \A i \in DOMAIN batches : i # BatchIn(Last(chains)) =>
              more[i].committed = batches[i].committed
    BY <1>4, <1>17
  <2>3. t \in Seq(Hook) /\ Sealed(batches, t)
    BY <1>2, <1>5
  <2>4. /\ ListsRight(more, <<>>, Append(Front(chains), t))
        /\ OwedIn(batches, chains) # <<>>
        /\ Last(OwedIn(batches, chains)) = Owes(batches, Last(chains))
        /\ OwedIn(more, Append(Front(chains), t)) = Append(Front(OwedIn(batches, chains)), Owes(more, t))
    BY <1>2, <1>15, <2>1, <2>2, <2>3, Stepped
  <2> QED BY <2>4, <1>4
<1>19. queue' = queue ++ Only(relevant, batches[b].committed)
  BY <1>6 DEF Flush
<1>20. batches[b].committed \in Tally
  BY <1>9 DEF Batch
<1> QED BY <1>3, <1>5, <1>10, <1>11, <1>16, <1>18, <1>19, <1>20

\* Open savepoints are of a transaction; releasing one leaves the others.
LEMMA OpenIs ==
    ASSUME IInv
    PROVE  /\ Range(open) \in SUBSET (1 .. MaxSavepoint)
           /\ open # <<>> => /\ atomic
                             /\ Front(open) \in Seq(1 .. MaxSavepoint)
<1>1. open \in Seq(1 .. MaxSavepoint)
  BY DEF IInv, SimpleTypes
<1>2. PICK S : S = 1 .. MaxSavepoint
  OBVIOUS
<1>3. open \in Seq(S)
  BY <1>1, <1>2
<1>4. Range(open) \in SUBSET S
  <2>1. \A i \in DOMAIN open : open[i] \in S
    BY <1>3
  <2> QED BY <2>1 DEF Range
<1>5. open # <<>> => Front(open) \in Seq(S)
  BY <1>3, FrontIs
<1>6. open # <<>> => atomic
  BY DEF IInv, SimpleTypes, Between
<1> QED BY <1>2, <1>4, <1>5, <1>6

\* Two callbacks appended at once are appended one by one.
LEMMA ConcatTwo ==
    ASSUME NEW T, NEW list \in Seq(T), NEW r \in T, NEW fl \in T
    PROVE  list \o <<r, fl>> = Append(Append(list, r), fl)
<1>1. PICK two : two = <<r, fl>>
  OBVIOUS
<1>2. two \in Seq(T) /\ Len(two) = 2 /\ two[1] = r /\ two[2] = fl
  BY <1>1
<1>3. PICK X : X = list \o two
  OBVIOUS
<1>4. PICK mid : mid = Append(list, r)
  OBVIOUS
<1>5. PICK Y : Y = Append(mid, fl)
  OBVIOUS
<1>6. PICK n : n = Len(list)
  OBVIOUS
<1>7. n \in Nat
  BY <1>6
<1>75. X = list \o <<r, fl>>
  BY <1>1, <1>3
<1>8. /\ X \in Seq(T) /\ Len(list) \in Nat /\ Len(X) = Len(list) + 2
      /\ \A i \in DOMAIN list : X[i] = list[i]
      /\ X[Len(list) + 1] = r /\ X[Len(list) + 2] = fl
  BY <1>1, <1>2, <1>75
<1>9. \A i \in 1 .. n : X[i] = list[i]
  BY <1>6, <1>8
<1>10. Len(X) = n + 2 /\ X[n + 1] = r /\ X[n + 2] = fl
  BY <1>6, <1>8
<1>11. /\ mid \in Seq(T) /\ Len(mid) = n + 1 /\ mid[n + 1] = r
       /\ \A i \in 1 .. n : mid[i] = list[i]
  BY <1>4, <1>6, <1>7
<1>12. /\ Y \in Seq(T) /\ Len(Y) = n + 2 /\ Y[n + 2] = fl
       /\ \A i \in 1 .. n + 1 : Y[i] = mid[i]
  BY <1>5, <1>7, <1>11
<1>13. \A i \in 1 .. Len(X) : X[i] = Y[i]
  <2>1. SUFFICES ASSUME NEW i \in 1 .. n + 2 PROVE X[i] = Y[i]
    BY <1>10
  <2>2. i \in 1 .. n \/ i = n + 1 \/ i = n + 2
    BY <1>7
  <2>3. \A k \in 1 .. n : k \in 1 .. n + 1
    BY <1>7
  <2>4. n + 1 \in 1 .. n + 1
    BY <1>7
  <2> QED BY <2>2, <2>3, <2>4, <1>9, <1>10, <1>11, <1>12
<1>14. X = Y
  BY <1>8, <1>10, <1>12, <1>13, SameSeq
<1> QED BY <1>1, <1>3, <1>4, <1>5, <1>14

\* Somebody else registers a callback.
LEMMA OnCommitIs ==
    ASSUME IInv, OnCommit
    PROVE  /\ Fitting(hooks', open, used)
           /\ ListsRight(batches, hooks', chains)
           /\ Tallies(hooks', open) = Tallies(hooks, open)
<1>1. PICK h : h = [kind |-> "other", sids |-> Range(open), devs |-> {}, batch |-> 0, token |-> 0]
  OBVIOUS
<1>2. h.kind = "other" /\ h.sids = Range(open)
  BY <1>1
<1>3. h \in Hook
  BY <1>1, OpenIs DEF Hook
<1>4. hooks' = Append(hooks, h)
  BY <1>1 DEF OnCommit
<1>5. hooks \in Seq(Hook) /\ open \in Seq(Nat) /\ Sealed(batches, hooks)
  BY DEF IInv, ListsRight, Fitting, Ascending
<1>6. Fitting(Append(hooks, h), open, used)
  BY <1>2, <1>3, AppendFits DEF IInv
<1>7. Tallies(Append(hooks, h), open) = Tallies(hooks, open)
  BY <1>2, <1>3, <1>5, AppendOther
<1>8. ListsRight(batches, Append(hooks, h), chains)
  <2>1. PICK more : more = Append(hooks, h)
    OBVIOUS
  <2>2. Sealed(batches, more) /\ BatchIn(more) = BatchIn(hooks)
    BY <2>1, <1>2, <1>3, <1>5, OtherSealed
  <2>3. more \in Seq(Hook)
    BY <2>1, <1>3, <1>5
  <2>4. ListsRight(batches, hooks, chains)
    BY DEF IInv
  <2>5. ListsRight(batches, more, chains)
    BY <2>2, <2>3, <2>4, OtherHooks
  <2> QED BY <2>1, <2>5
<1> QED BY <1>4, <1>6, <1>7, <1>8

\* A savepoint is rolled back.
LEMMA RollBackToIs ==
    ASSUME IInv, RollBackTo
    PROVE  /\ Fitting(hooks', open', used)
           /\ ListsRight(batches, hooks', chains)
           /\ Tallies(hooks, open) # <<>>
           /\ Tallies(hooks', open') = Front(Tallies(hooks, open))
<1>1. hooks' = Kept(hooks, Last(open)) /\ open' = Front(open) /\ open # <<>>
  BY DEF RollBackTo
<1>2. /\ Fitting(Kept(hooks, Last(open)), Front(open), used)
      /\ Tallies(hooks, open) # <<>>
      /\ Tallies(Kept(hooks, Last(open)), Front(open)) = Front(Tallies(hooks, open))
  BY <1>1, RollBackLevels DEF IInv
<1>3. hooks \in Seq(Hook) /\ Sealed(batches, hooks)
  BY DEF IInv, ListsRight
<1>4. \A i \in DOMAIN hooks : hooks[i].kind = "flush" => hooks[i].sids = {}
  BY DEF IInv, Fitting
<1>5. PICK sid : sid = Last(open)
  OBVIOUS
<1>6. Sealed(batches, Kept(hooks, sid)) /\ BatchIn(Kept(hooks, sid)) = BatchIn(hooks)
  BY <1>3, <1>4, KeptSealed
<1>7. Kept(hooks, sid) \in Seq(Hook)
  BY <1>3, KeptIs
<1>8. ListsRight(batches, Kept(hooks, sid), chains)
  BY <1>6, <1>7, OtherHooks DEF IInv
<1> QED BY <1>1, <1>2, <1>5, <1>8

\* enqueue_devices in a transaction.
LEMMA EnqueueIs ==
    ASSUME IInv, NEW devs \in SUBSET Device, Enqueue(devs)
    PROVE  /\ Fitting(hooks', open, used)
           /\ ListsRight(batches', hooks', chains)
           /\ OwedIn(batches', chains) = OwedIn(batches, chains)
           /\ Tallies(hooks, open) # <<>>
           /\ Tallies(hooks', open) = Append(Front(Tallies(hooks, open)),
                                             Last(Tallies(hooks, open)) ++ Once(devs))
<1>1. PICK b : b = IF LiveBatch = 0 THEN Len(batches) + 1 ELSE LiveBatch
  OBVIOUS
<1>2. PICK made : made = IF LiveBatch = 0 THEN Append(batches, [token |-> 0, committed |-> None])
                         ELSE batches
  OBVIOUS
<1>3. PICK next : next = made[b].token + 1
  OBVIOUS
<1>4. PICK r : r = RowsHook(b, devs)
  OBVIOUS
<1>5. PICK fl : fl = FlushHook(b, next)
  OBVIOUS
<1>6. batches' = [made EXCEPT ![b].token = next] /\ hooks' = hooks \o <<r, fl>>
  BY <1>1, <1>2, <1>3, <1>4, <1>5 DEF Enqueue
<1>7. ListsRight(batches, hooks, chains) /\ Fitting(hooks, open, used)
  BY DEF IInv
<1>8. /\ batches \in Seq(Batch) /\ hooks \in Seq(Hook) /\ Sealed(batches, hooks)
      /\ open \in Seq(Nat)
  BY <1>7 DEF ListsRight, Fitting, Ascending
<1>9. BatchIn(hooks) \in 0 .. Len(batches) /\ Len(batches) \in Nat
  BY <1>7, ListBatches
<1>10. b \in Nat /\ next \in Nat
  <2>1. CASE LiveBatch = 0
    <3>1. PICK new : new = [token |-> 0, committed |-> None]
      OBVIOUS
    <3>2. new.token = 0 /\ new \in Batch
      BY <3>1 DEF Batch, None, Tally
    <3>3. made = Append(batches, new) /\ b = Len(batches) + 1
      BY <2>1, <3>1, <1>1, <1>2
    <3>4. made[b] = new
      BY <3>2, <3>3, <1>8
    <3> QED BY <3>2, <3>3, <3>4, <1>3, <1>9
  <2>2. CASE LiveBatch # 0
    <3>1. b = BatchIn(hooks) /\ made = batches
      BY <2>2, <1>1, <1>2 DEF LiveBatch
    <3>2. batches[b] \in Batch
      BY <2>2, <3>1, <1>8, BatchIs DEF LiveBatch
    <3> QED BY <3>1, <3>2, <1>3, <1>9 DEF Batch
  <2> QED BY <2>1, <2>2
<1>11. r \in Hook /\ r.kind = "rows" /\ r.sids = Range(open) /\ r.devs = devs /\ r.batch = b
  BY <1>4, <1>10, OpenIs DEF RowsHook, Hook
<1>12. fl \in Hook /\ fl.kind = "flush" /\ fl.sids = {} /\ fl.batch = b /\ fl.token = next
  BY <1>5, <1>10 DEF FlushHook, Hook
<1>13. PICK mid : mid = Append(hooks, r)
  OBVIOUS
<1>14. hooks \o <<r, fl>> = Append(mid, fl)
  <2>1. PICK T : T = Hook
    OBVIOUS
  <2>2. hooks \in Seq(T) /\ r \in T /\ fl \in T
    BY <2>1, <1>8, <1>11, <1>12
  <2>3. hooks \o <<r, fl>> = Append(Append(hooks, r), fl)
    BY <2>2, ConcatTwo
  <2> QED BY <2>3, <1>13
<1>15. Fitting(mid, open, used)
  BY <1>7, <1>11, <1>13, AppendFits
<1>16. Fitting(Append(mid, fl), open, used)
  BY <1>12, <1>15, AppendFits
<1>17. /\ Tallies(hooks, open) # <<>>
       /\ Tallies(mid, open) = Append(Front(Tallies(hooks, open)), Last(Tallies(hooks, open)) ++ Once(devs))
  BY <1>7, <1>11, <1>13, AppendRows
<1>18. Tallies(Append(mid, fl), open) = Tallies(mid, open)
  <2>1. mid \in Seq(Hook)
    BY <1>15 DEF Fitting
  <2> QED BY <2>1, <1>8, <1>12, AppendOther
<1>19. PICK more : more = batches'
  OBVIOUS
<1>20. ListsRight(more, hooks \o <<r, fl>>, chains) /\ OwedIn(more, chains) = OwedIn(batches, chains)
  <2>1. b = IF BatchIn(hooks) = 0 THEN Len(batches) + 1 ELSE BatchIn(hooks)
    BY <1>1 DEF LiveBatch
  <2>2. made = IF BatchIn(hooks) = 0 THEN Append(batches, [token |-> 0, committed |-> None]) ELSE batches
    BY <1>2 DEF LiveBatch
  <2>3. more = [made EXCEPT ![b].token = next]
    BY <1>6, <1>19
  <2>4. Makes(batches, hooks, b, made, next, more)
    BY <2>1, <2>2, <2>3, <1>3 DEF Makes
  <2>5. Adds(r, fl, b, next)
    BY <1>11, <1>12 DEF Adds
  <2> QED BY <2>4, <2>5, <1>7, Enqueued
<1> QED BY <1>6, <1>14, <1>16, <1>17, <1>18, <1>19, <1>20

\* A chain ends.
LEMMA EndChainIs ==
    ASSUME IInv, EndChain
    PROVE  /\ ListsRight(batches', <<>>, chains')
           /\ OwedIn(batches, chains) # <<>> /\ Last(OwedIn(batches, chains)) = None
           /\ OwedIn(batches', chains') = Front(OwedIn(batches, chains))
<1>1. hooks = <<>> /\ chains # <<>> /\ Last(chains) = <<>> /\ chains' = Front(chains)
  BY DEF IInv, Between, EndChain
<1>2. /\ ListsRight(batches, <<>>, Front(chains))
      /\ OwedIn(batches, chains) # <<>> /\ Last(OwedIn(batches, chains)) = None
      /\ OwedIn(batches, Front(chains)) = Front(OwedIn(batches, chains))
  BY <1>1, Ended DEF IInv
<1>3. PICK more : more = batches'
  OBVIOUS
<1>4. more = IF Front(chains) = <<>> THEN <<>> ELSE batches
  BY <1>3 DEF EndChain, Idle
<1>5. ListsRight(more, <<>>, Front(chains)) /\ OwedIn(more, Front(chains)) = OwedIn(batches, Front(chains))
  BY <1>2, <1>4, IdleLists
<1> QED BY <1>1, <1>2, <1>3, <1>5

\* The whole transaction is rolled back.
LEMMA RollBackIs ==
    ASSUME IInv, RollBack
    PROVE  ListsRight(batches', <<>>, chains) /\ OwedIn(batches', chains) = OwedIn(batches, chains)
<1>1. ListsRight(batches, <<>>, chains)
  BY ClearedHooks DEF IInv
<1>2. PICK more : more = batches'
  OBVIOUS
<1>3. more = IF chains = <<>> THEN <<>> ELSE batches
  BY <1>2 DEF RollBack, Idle
<1> QED BY <1>1, <1>2, <1>3, IdleLists

\* Tallies add up.
LEMMA TallySum ==
    ASSUME NEW a \in Tally, NEW b \in Tally, NEW devs
    PROVE  a ++ Only(devs, b) \in Tally
BY DEF Tally, ++, Only

\* Every step keeps the invariant, action by action.
LEMMA IInvStep == IInv /\ [Next]_vars => IInv'
<1> SUFFICES ASSUME IInv, [Next]_vars
             PROVE  IInv'
  OBVIOUS
<1> USE DEF IInv
<1>1. CASE Begin
  <2>1. UNCHANGED <<open, used, hooks, chains, batches, calls, queue, relevant>> /\ atomic' = TRUE
    BY <1>1 DEF Begin
  <2> QED BY <2>1 DEF SimpleTypes, Between
<1>2. CASE Savepoint
  <2>1. /\ atomic /\ used < MaxSavepoint /\ used' = used + 1 /\ open' = Append(open, used + 1)
        /\ UNCHANGED <<atomic, hooks, chains, batches, calls, queue, relevant>>
    BY <1>2 DEF Savepoint
  <2>2. Fitting(hooks, open', used')
    BY <2>1, SavepointLevels
  <2>3. used' \in 1 .. MaxSavepoint /\ used' \in 0 .. MaxSavepoint
    BY <2>1, ChangeBatchAssumption DEF SimpleTypes
  <2>4. open' \in Seq(1 .. MaxSavepoint)
    <3>1. PICK S : S = 1 .. MaxSavepoint
      OBVIOUS
    <3>2. open \in Seq(S) /\ used' \in S /\ open' = Append(open, used')
      BY <2>1, <2>3, <3>1 DEF SimpleTypes
    <3> QED BY <3>1, <3>2
  <2> QED BY <2>1, <2>2, <2>3, <2>4 DEF SimpleTypes, Between
<1>3. CASE Release
  <2>1. /\ open # <<>> /\ open' = Front(open)
        /\ UNCHANGED <<atomic, used, hooks, chains, batches, calls, queue, relevant>>
    BY <1>3 DEF Release
  <2>2. Fitting(hooks, Front(open), used)
    BY <2>1, ReleaseLevels
  <2>3. atomic /\ Front(open) \in Seq(1 .. MaxSavepoint)
    BY <2>1, OpenIs
  <2> QED BY <2>1, <2>2, <2>3 DEF SimpleTypes, Between
<1>4. CASE RollBackTo
  <2>1. /\ open # <<>> /\ open' = Front(open)
        /\ UNCHANGED <<atomic, used, chains, batches, calls, queue, relevant>>
    BY <1>4 DEF RollBackTo
  <2>2. Fitting(hooks', open', used) /\ ListsRight(batches, hooks', chains)
    BY <1>4, RollBackToIs
  <2>3. atomic /\ Front(open) \in Seq(1 .. MaxSavepoint)
    BY <2>1, OpenIs
  <2> QED BY <2>1, <2>2, <2>3 DEF SimpleTypes, Between
<1>5. CASE RollBack
  <2>1. /\ open = <<>> /\ atomic' = FALSE /\ used' = 0 /\ hooks' = <<>>
        /\ UNCHANGED <<open, chains, calls, queue, relevant>>
    BY <1>5 DEF RollBack
  <2>2. ListsRight(batches', <<>>, chains)
    BY <1>5, RollBackIs
  <2>3. 0 \in 0 .. MaxSavepoint
    BY ChangeBatchAssumption
  <2> QED BY <2>1, <2>2, <2>3, NothingFits DEF SimpleTypes, Between
<1>6. CASE Commit
  <2>1. /\ open = <<>> /\ atomic' = FALSE /\ used' = 0 /\ hooks' = <<>>
        /\ chains' = Append(chains, hooks)
        /\ UNCHANGED <<open, batches, calls, queue, relevant>>
    BY <1>6 DEF Commit
  <2>2. ListsRight(batches, <<>>, Append(chains, hooks))
    BY Committed
  <2>3. 0 \in 0 .. MaxSavepoint
    BY ChangeBatchAssumption
  <2> QED BY <2>1, <2>2, <2>3, NothingFits DEF SimpleTypes, Between
<1>7. CASE EndChain
  <2>1. ~atomic /\ UNCHANGED <<atomic, open, used, hooks, calls, queue, relevant>>
    BY <1>7 DEF EndChain
  <2>2. hooks = <<>> /\ ListsRight(batches', <<>>, chains')
    BY <1>7, <2>1, EndChainIs DEF Between
  <2> QED BY <2>1, <2>2 DEF SimpleTypes, Between
<1>8. CASE OnCommit
  <2>1. /\ atomic /\ calls < MaxCall /\ calls' = calls + 1
        /\ UNCHANGED <<atomic, open, used, chains, batches, queue, relevant>>
    BY <1>8 DEF OnCommit
  <2>2. Fitting(hooks', open, used) /\ ListsRight(batches, hooks', chains)
    BY <1>8, OnCommitIs
  <2>3. calls' \in 0 .. MaxCall
    BY <2>1, ChangeBatchAssumption DEF SimpleTypes
  <2> QED BY <2>1, <2>2, <2>3 DEF SimpleTypes, Between
<1>9. CASE OtherReturns \/ Superseded
  <2>1. UNCHANGED <<atomic, open, used, hooks, batches, calls, queue, relevant>>
    BY <1>9 DEF OtherReturns, Superseded
  <2>2. ~atomic /\ hooks = <<>>
    BY <1>9 DEF OtherReturns, Superseded, Running, Between
  <2>3. ListsRight(batches, <<>>, chains')
    BY <1>9, PassedIs
  <2> QED BY <2>1, <2>2, <2>3 DEF SimpleTypes, Between
<1>10. CASE OtherRaises
  <2>1. /\ chains' = <<>> /\ batches' = <<>>
        /\ UNCHANGED <<atomic, open, used, hooks, calls, queue, relevant>>
    BY <1>10 DEF OtherRaises
  <2>2. ~atomic /\ hooks = <<>>
    BY <1>10 DEF OtherRaises, Running, Between
  <2>3. <<>> \in Seq(Batch)
    OBVIOUS
  <2>4. ListsRight(<<>>, <<>>, <<>>)
    BY <2>3, NothingLeft
  <2> QED BY <2>1, <2>2, <2>4 DEF SimpleTypes, Between
<1>11. ASSUME NEW devs \in SUBSET Device, Enqueue(devs) PROVE IInv'
  <2>1. /\ atomic /\ calls < MaxCall /\ calls' = calls + 1
        /\ UNCHANGED <<atomic, open, used, chains, queue, relevant>>
    BY <1>11 DEF Enqueue
  <2>2. Fitting(hooks', open, used) /\ ListsRight(batches', hooks', chains)
    BY <1>11, EnqueueIs
  <2>3. calls' \in 0 .. MaxCall
    BY <2>1, ChangeBatchAssumption DEF SimpleTypes
  <2> QED BY <2>1, <2>2, <2>3 DEF SimpleTypes, Between
<1>12. ASSUME NEW devs \in SUBSET Device, EnqueueNow(devs) PROVE IInv'
  <2>1. /\ calls < MaxCall /\ calls' = calls + 1
        /\ queue' = queue ++ Only(relevant, Once(devs))
        /\ UNCHANGED <<atomic, open, used, hooks, chains, batches, relevant>>
    BY <1>12 DEF EnqueueNow
  <2>2. calls' \in 0 .. MaxCall
    BY <2>1, ChangeBatchAssumption DEF SimpleTypes
  <2>3. Once(devs) \in Tally
    BY DEF Once, Tally
  <2>4. queue' \in Tally
    BY <2>1, <2>3, TallySum DEF SimpleTypes
  <2> QED BY <2>1, <2>2, <2>4 DEF SimpleTypes, Between
<1>13. CASE HandOver
  <2>1. ~atomic /\ UNCHANGED <<atomic, open, used, hooks, calls, queue, relevant>>
    BY <1>13 DEF HandOver, Running
  <2>2. hooks = <<>> /\ ListsRight(batches', <<>>, chains')
    BY <1>13, <2>1, HandOverIs DEF Between
  <2> QED BY <2>1, <2>2 DEF SimpleTypes, Between
<1>14. CASE Flush
  <2>1. ~atomic /\ UNCHANGED <<atomic, open, used, hooks, calls, relevant>>
    BY <1>14 DEF Flush, Running
  <2>2. /\ hooks = <<>> /\ ListsRight(batches', <<>>, chains')
        /\ queue' = queue ++ Only(relevant, Last(OwedIn(batches, chains)))
        /\ Last(OwedIn(batches, chains)) \in Tally
    BY <1>14, <2>1, FlushIs DEF Between
  <2>3. queue' \in Tally
    BY <2>2, TallySum DEF SimpleTypes
  <2> QED BY <2>1, <2>2, <2>3 DEF SimpleTypes, Between
<1>15. CASE Rewire
  BY <1>15 DEF Rewire, SimpleTypes, Between
<1>16. CASE UNCHANGED vars
  BY <1>16 DEF vars, SimpleTypes, Between
<1> QED
  BY <1>1, <1>2, <1>3, <1>4, <1>5, <1>6, <1>7, <1>8, <1>9, <1>10, <1>11, <1>12, <1>13, <1>14,
     <1>15, <1>16 DEF Next

\* The invariant holds in every behaviour.
LEMMA Inductive == Spec => []IInv
<1>1. Init => IInv
  BY IInvInit
<1>2. IInv /\ [Next]_vars => IInv'
  BY IInvStep
<1> QED BY <1>1, <1>2, PTL DEF Spec

\* Every variable keeps its type.
THEOREM TypeCorrect == Spec => []TypeOK
<1>1. Spec => []IInv
  BY Inductive
<1>2. IInv => TypeOK
  BY IInvType
<1> QED BY <1>1, <1>2, PTL

(***************************************************************************)
(* The refinement of ChangeQueue.                                          *)
(***************************************************************************)

\* The operators of ChangeQueue are those of ChangeBatch.
LEMMA SameTally ==
    /\ Promise!None = None
    /\ \A devs : Promise!Once(devs) = Once(devs)
    /\ \A devs, a : Promise!Only(devs, a) = Only(devs, a)
    /\ \A a, b : Promise!++(a, b) = a ++ b
    /\ \A s : Promise!Front(s) = Front(s) /\ Promise!Last(s) = Last(s)
BY DEF Promise!None, None, Promise!Once, Once, Promise!Only, Only, Promise!++, ++,
       Promise!Front, Front, Promise!Last, Last

\* The mapping, in the terms of the lemmas, before and after a step.
LEMMA MappingIs ==
    /\ Levels = IF atomic THEN Tallies(hooks, open) ELSE <<>>
    /\ Owed = OwedIn(batches, chains)
    /\ Levels' = IF atomic' THEN Tallies(hooks', open') ELSE <<>>
    /\ Owed' = OwedIn(batches', chains')
<1>1. LevelTallies = Tallies(hooks, open) /\ LevelTallies' = Tallies(hooks', open')
  BY LevelsAre DEF LevelTallies, LevelOf
<1>2. ASSUME NEW c \in DOMAIN chains PROVE OwedBy(chains[c]) = Owes(batches, chains[c])
  BY OwesAre DEF OwedBy
<1>3. Owed' = [c \in DOMAIN chains' |->
         Named(chains'[c], Range(chains'[c])) ++
           (IF BatchIn(chains'[c]) = 0 THEN None ELSE batches'[BatchIn(chains'[c])].committed)]
  BY DEF Owed, OwedBy
<1>4. Owed' = OwedIn(batches', chains')
  BY <1>3, OwesAre DEF OwedIn
<1> QED BY <1>1, <1>2, <1>4 DEF Levels, Owed, OwedIn

\* At first the code stands where ChangeQueue starts.
LEMMA PromiseInit == Init => Promise!Init
<1> SUFFICES ASSUME Init
             PROVE  Promise!Init
  OBVIOUS
<1>1. Levels = <<>>
  BY DEF Init, Levels
<1>2. Owed = <<>>
  <2>1. DOMAIN <<>> = {}
    OBVIOUS
  <2> QED BY <2>1 DEF Init, Owed
<1> QED BY <1>1, <1>2, SameTally DEF Init, Promise!Init

\* While a transaction is open there is a level.
LEMMA LevelsOpen ==
    ASSUME IInv
    PROVE  /\ Tallies(hooks, open) \in Seq(Tally) /\ Tallies(hooks, open) # <<>>
           /\ Len(Tallies(hooks, open)) = Len(open) + 1
<1>1. hooks \in Seq(Hook) /\ open \in Seq(Nat)
  BY DEF IInv, Fitting, Ascending
<1>2. PICK T : T = Tallies(hooks, open)
  OBVIOUS
<1>3. T \in Seq(Tally) /\ Len(T) = Len(open) + 1 /\ Len(open) \in Nat
  BY <1>1, <1>2, TalliesAre
<1>4. T # <<>>
  BY <1>3
<1> QED BY <1>2, <1>3, <1>4

\* Each step of the callbacks is a step of the promise, or keeps what it is about.
LEMMA PromiseStep == IInv /\ [Next]_vars => [Promise!Next]_(Promise!vars)
<1> SUFFICES ASSUME IInv, [Next]_vars
             PROVE  Promise!Next \/ UNCHANGED <<Levels, Owed, queue, relevant>>
  BY DEF Promise!vars
<1>0. /\ Levels = IF atomic THEN Tallies(hooks, open) ELSE <<>>
      /\ Owed = OwedIn(batches, chains)
      /\ Levels' = IF atomic' THEN Tallies(hooks', open') ELSE <<>>
      /\ Owed' = OwedIn(batches', chains')
  BY MappingIs
<1>1. CASE Begin
  <2>1. /\ ~atomic /\ atomic' = TRUE
        /\ UNCHANGED <<open, used, hooks, chains, batches, calls, queue, relevant>>
    BY <1>1 DEF Begin, Outside
  <2>2. open = <<>> /\ hooks = <<>>
    BY <2>1 DEF IInv, Between
  <2>3. Tallies(<<>>, <<>>) = <<None>>
    <3>1. PICK T : T = Tallies(hooks, open)
      OBVIOUS
    <3>2. T \in Seq(Tally) /\ Len(T) = 1
      BY <2>2, <3>1, LevelsOpen
    <3>3. None \in Tally
      BY DEF None, Tally
    <3>4. T[1] = None
      <4>1. PICK x : x = Owes(batches, hooks)
        OBVIOUS
      <4>2. x = None
        BY <2>2, <4>1, NoHooks, QuietOwes
      <4>3. BatchIn(hooks) = 0 /\ Fitting(hooks, open, used)
        BY <2>2, NoHooks DEF IInv
      <4>4. x = T[1]
        BY <2>2, <3>1, <4>1, <4>3, CommitOwes
      <4> QED BY <4>2, <4>4
    <3>5. PICK N : N = <<None>>
      OBVIOUS
    <3>6. N \in Seq(Tally) /\ Len(N) = 1 /\ N[1] = None
      BY <3>3, <3>5
    <3>7. \A i \in 1 .. 1 : T[i] = N[i]
      BY <3>4, <3>6
    <3>8. T = N
      BY <3>2, <3>6, <3>7, SameSeq
    <3> QED BY <2>2, <3>1, <3>5, <3>8
  <2>4. Promise!Begin
    BY <2>1, <2>2, <2>3, <1>0, SameTally DEF Promise!Begin
  <2> QED BY <2>4 DEF Promise!Next
<1>2. CASE Savepoint
  <2>1. /\ atomic /\ used' = used + 1 /\ open' = Append(open, used + 1)
        /\ UNCHANGED <<atomic, hooks, chains, batches, calls, queue, relevant>>
    BY <1>2 DEF Savepoint
  <2>2. Tallies(hooks, Append(open, used + 1)) = Append(Tallies(hooks, open), None)
    BY SavepointLevels DEF IInv
  <2>3. Promise!Savepoint
    BY <2>1, <2>2, <1>0, LevelsOpen, SameTally DEF Promise!Savepoint
  <2> QED BY <2>3 DEF Promise!Next
<1>3. CASE Release
  <2>1. /\ open # <<>> /\ open' = Front(open)
        /\ UNCHANGED <<atomic, used, hooks, chains, batches, calls, queue, relevant>>
    BY <1>3 DEF Release
  <2>2. atomic
    BY <2>1, OpenIs
  <2>3. PICK T : T = Tallies(hooks, open)
    OBVIOUS
  <2>4. Len(T) > 1 /\ Tallies(hooks, Front(open)) = Append(Front(Front(T)), Last(Front(T)) ++ Last(T))
    BY <2>1, <2>3, ReleaseLevels DEF IInv
  <2>5. Promise!Release
    BY <2>1, <2>2, <2>3, <2>4, <1>0, SameTally DEF Promise!Release
  <2> QED BY <2>5 DEF Promise!Next
<1>4. CASE RollBackTo
  <2>1. open # <<>> /\ UNCHANGED <<atomic, used, chains, batches, calls, queue, relevant>>
    BY <1>4 DEF RollBackTo
  <2>2. atomic
    BY <2>1, OpenIs
  <2>3. Tallies(hooks, open) # <<>> /\ Tallies(hooks', open') = Front(Tallies(hooks, open))
    BY <1>4, RollBackToIs
  <2>4. Promise!RollBack
    BY <2>1, <2>2, <2>3, <1>0, SameTally DEF Promise!RollBack
  <2> QED BY <2>4 DEF Promise!Next
<1>5. CASE RollBack
  <2>1. /\ atomic /\ open = <<>> /\ atomic' = FALSE
        /\ UNCHANGED <<open, chains, calls, queue, relevant>>
    BY <1>5 DEF RollBack
  <2>2. OwedIn(batches', chains) = OwedIn(batches, chains)
    BY <1>5, RollBackIs
  <2>3. PICK T : T = Tallies(hooks, open)
    OBVIOUS
  <2>4. T \in Seq(Tally) /\ T # <<>> /\ Len(T) = 1
    BY <2>1, <2>3, LevelsOpen
  <2>5. Front(T) = <<>>
    <3>1. Front(T) \in Seq(Tally) /\ Len(Front(T)) = 0
      BY <2>4, FrontIs
    <3> QED BY <3>1
  <2>6. Promise!RollBack
    BY <2>1, <2>2, <2>3, <2>4, <2>5, <1>0, SameTally DEF Promise!RollBack
  <2> QED BY <2>6 DEF Promise!Next
<1>6. CASE Commit
  <2>1. /\ atomic /\ open = <<>> /\ atomic' = FALSE /\ chains' = Append(chains, hooks)
        /\ UNCHANGED <<open, batches, calls, queue, relevant>>
    BY <1>6 DEF Commit
  <2>2. OwedIn(batches, Append(chains, hooks)) = Append(OwedIn(batches, chains), Owes(batches, hooks))
    BY Committed DEF IInv
  <2>3. Fitting(hooks, <<>>, used) /\ (BatchIn(hooks) # 0 => batches[BatchIn(hooks)].committed = None)
    BY <2>1 DEF IInv, ListsRight
  <2>4. Len(Tallies(hooks, <<>>)) = 1 /\ Owes(batches, hooks) = Tallies(hooks, <<>>)[1]
    BY <2>3, CommitOwes
  <2>5. Promise!Commit
    BY <2>1, <2>2, <2>4, <1>0 DEF Promise!Commit
  <2> QED BY <2>5 DEF Promise!Next
<1>7. CASE EndChain
  <2>1. ~atomic /\ UNCHANGED <<atomic, open, used, hooks, calls, queue, relevant>>
    BY <1>7 DEF EndChain
  <2>2. /\ OwedIn(batches, chains) # <<>> /\ Last(OwedIn(batches, chains)) = None
        /\ OwedIn(batches', chains') = Front(OwedIn(batches, chains))
    BY <1>7, EndChainIs
  <2>3. Promise!Settle
    BY <2>1, <2>2, <1>0, SameTally DEF Promise!Settle
  <2> QED BY <2>3 DEF Promise!Next
<1>8. CASE OnCommit
  <2>1. atomic /\ UNCHANGED <<atomic, open, used, chains, batches, queue, relevant>>
    BY <1>8 DEF OnCommit
  <2>2. Tallies(hooks', open) = Tallies(hooks, open)
    BY <1>8, OnCommitIs
  <2> QED BY <2>1, <2>2, <1>0
<1>9. CASE OtherReturns \/ Superseded
  <2>1. ~atomic /\ UNCHANGED <<atomic, open, used, hooks, batches, calls, queue, relevant>>
    BY <1>9 DEF OtherReturns, Superseded, Running
  <2>2. OwedIn(batches, chains') = OwedIn(batches, chains)
    BY <1>9, PassedIs
  <2> QED BY <2>1, <2>2, <1>0
<1>10. CASE OtherRaises
  <2>1. /\ ~atomic /\ chains # <<>> /\ chains' = <<>>
        /\ UNCHANGED <<atomic, open, used, hooks, calls, queue, relevant>>
    BY <1>10 DEF OtherRaises, Running
  <2>2. OwedIn(batches, chains) # <<>>
    <3>1. /\ batches \in Seq(Batch) /\ chains \in Seq(Seq(Hook))
          /\ \A c \in DOMAIN chains : Sealed(batches, chains[c])
      BY DEF IInv, ListsRight
    <3> QED BY <3>1, <2>1, OwedSeq
  <2>3. OwedIn(batches', <<>>) = <<>>
    <3>1. DOMAIN <<>> = {}
      OBVIOUS
    <3> QED BY <3>1 DEF OwedIn
  <2>4. Promise!Lose
    BY <2>1, <2>2, <2>3, <1>0 DEF Promise!Lose
  <2> QED BY <2>4 DEF Promise!Next
<1>11. ASSUME NEW devs \in SUBSET Device, Enqueue(devs) PROVE Promise!Name(devs)
  <2>1. atomic /\ UNCHANGED <<atomic, open, used, chains, queue, relevant>>
    BY <1>11 DEF Enqueue
  <2>2. /\ OwedIn(batches', chains) = OwedIn(batches, chains)
        /\ Tallies(hooks, open) # <<>>
        /\ Tallies(hooks', open) = Append(Front(Tallies(hooks, open)),
                                          Last(Tallies(hooks, open)) ++ Once(devs))
    BY <1>11, EnqueueIs
  <2> QED BY <2>1, <2>2, <1>0, SameTally DEF Promise!Name
<1>12. ASSUME NEW devs \in SUBSET Device, EnqueueNow(devs) PROVE Promise!NameNow(devs)
  <2>1. /\ ~atomic /\ queue' = queue ++ Only(relevant, Once(devs))
        /\ UNCHANGED <<atomic, open, used, hooks, chains, batches, relevant>>
    BY <1>12 DEF EnqueueNow, Outside
  <2> QED BY <2>1, <1>0, SameTally DEF Promise!NameNow
<1>13. CASE HandOver
  <2>1. ~atomic /\ UNCHANGED <<atomic, open, used, hooks, calls, queue, relevant>>
    BY <1>13 DEF HandOver, Running
  <2>2. OwedIn(batches', chains') = OwedIn(batches, chains)
    BY <1>13, HandOverIs
  <2> QED BY <2>1, <2>2, <1>0
<1>14. CASE Flush
  <2>1. ~atomic /\ UNCHANGED <<atomic, open, used, hooks, calls, relevant>>
    BY <1>14 DEF Flush, Running
  <2>2. /\ OwedIn(batches, chains) # <<>>
        /\ queue' = queue ++ Only(relevant, Last(OwedIn(batches, chains)))
        /\ OwedIn(batches', chains') = Append(Front(OwedIn(batches, chains)), None)
    BY <1>14, FlushIs
  <2>3. Promise!Deliver
    BY <2>1, <2>2, <1>0, SameTally DEF Promise!Deliver
  <2> QED BY <2>3 DEF Promise!Next
<1>15. CASE Rewire
  <2>1. relevant' \in SUBSET Device /\ UNCHANGED <<atomic, open, used, hooks, chains, batches, calls, queue>>
    BY <1>15 DEF Rewire
  <2>2. Promise!Rewire
    BY <2>1, <1>0 DEF Promise!Rewire
  <2> QED BY <2>2 DEF Promise!Next
<1>16. CASE UNCHANGED vars
  BY <1>16, <1>0 DEF vars
<1>17. (\E devs \in SUBSET Device : Promise!Name(devs) \/ Promise!NameNow(devs)) => Promise!Next
  BY DEF Promise!Next
<1> QED
  BY <1>1, <1>2, <1>3, <1>4, <1>5, <1>6, <1>7, <1>8, <1>9, <1>10, <1>11, <1>12, <1>13, <1>14,
     <1>15, <1>16, <1>17 DEF Next

\* The callbacks keep the promise.
THEOREM PromiseKept == Spec => QueuedOnceIfCommitted
<1>1. Init => Promise!Init
  BY PromiseInit
<1>2. Spec => []IInv
  BY Inductive
<1>3. IInv /\ [Next]_vars => [Promise!Next]_(Promise!vars)
  BY PromiseStep
<1> QED BY <1>1, <1>2, <1>3, PTL DEF Spec, Promise!Spec, QueuedOnceIfCommitted
=============================================================================
