-------------------------- MODULE PathStore_proofs --------------------------
(***************************************************************************)
(* Proofs about the stored fiber paths, for any plant: what is stored are  *)
(* rows of their own types, no strand is on two of them, and rows keep     *)
(* their fiber.                                                            *)
(*                                                                         *)
(* The walker comes first: components are disjoint, a component that is    *)
(* not quarantined is one path without a repeated node, so the chains of a *)
(* walk share no strand.  Then write_results, which gives every row a      *)
(* chain of its own, and the changes of the plant, which only take hops    *)
(* away.                                                                   *)
(***************************************************************************)
EXTENDS PathStore, FiniteSetTheorems, TLAPS

(***************************************************************************)
(* Numbers, and loops: a recursive function of the model is the limit of its*)
(* turns, by a well-founded minimum, whatever it computes on the way.      *)
(***************************************************************************)

\* A set of numbers has a least one.
LEMMA NatMin ==
    ASSUME NEW T \in SUBSET Nat, T # {}
    PROVE  \E n \in T : \A m \in T : n <= m
<1>1. PICK R : R = {ss \in Nat \X Nat : ss[1] < ss[2]}
  OBVIOUS
<1>2. IsWellFoundedOn(R, Nat)
  BY <1>1, NatLessThanWellFounded DEF OpToRel
<1>3. PICK n \in T : \A m \in T : ~(<<m, n>> \in R)
  BY <1>2, WFMin
<1>4. ASSUME NEW m \in T, ~(n <= m) PROVE FALSE
  <2>1. m < n /\ m \in Nat /\ n \in Nat
    BY <1>4
  <2>2. <<m, n>> \in R
    BY <2>1, <1>1
  <2> QED BY <2>2, <1>3
<1> QED BY <1>4

\* Min of a set of numbers.
LEMMA MinOf ==
    ASSUME NEW T \in SUBSET Nat, T # {}
    PROVE  /\ Min(T) \in T
           /\ \A m \in T : Min(T) <= m
BY NatMin DEF Min

\* A bounded set of numbers has a greatest one.
LEMMA MaxOf ==
    ASSUME NEW T \in SUBSET Nat, T # {}, NEW b \in Nat, \A m \in T : m <= b
    PROVE  \E n \in T : \A m \in T : m <= n
<1>1. PICK D : D = {b - m : m \in T}
  OBVIOUS
<1>2. D \in SUBSET Nat /\ D # {}
  <2>1. ASSUME NEW m \in T PROVE b - m \in Nat
    BY m \in Nat, m <= b
  <2>2. D # {}
    BY <1>1
  <2> QED BY <1>1, <2>1, <2>2
<1>3. PICK d \in D : \A e \in D : d <= e
  BY <1>2, NatMin
<1>4. PICK n \in T : d = b - n
  BY <1>1
<1>5. ASSUME NEW m \in T PROVE m <= n
  <2>1. b - m \in D
    BY <1>1
  <2>2. d <= b - m
    BY <2>1, <1>3
  <2> QED BY <2>2, <1>4
<1> QED BY <1>5

\* The members of a finite set of numbers can be counted off.
LEMMA NthIs ==
    ASSUME NEW b \in Nat, NEW I \in SUBSET (1 .. b), NEW k \in 1 .. Cardinality(I)
    PROVE  /\ Nth(I, k) \in I
           /\ Cardinality({j \in I : j <= Nth(I, k)}) = k
<1> DEFINE Upto(i) == {j \in I : j <= i}
<1>0. IsFiniteSet(I) /\ I \in SUBSET Nat
  <2>1. IsFiniteSet(1 .. b)
    <3>1. 1 \in Int /\ b \in Int
      OBVIOUS
    <3> QED BY <3>1, FS_Interval
  <2>2. IsFiniteSet(I)
    BY <2>1, FS_Subset
  <2> QED BY <2>2
<1>1. \A i : IsFiniteSet(Upto(i)) /\ Cardinality(Upto(i)) \in Nat
  BY <1>0, FS_Subset, FS_CardinalityType
<1>2. Cardinality(I) \in Nat
  BY <1>0, FS_CardinalityType
<1>3. \E i \in I : k <= Cardinality(Upto(i))
  <2>3. PICK n \in I : \A m \in I : m <= n
    <3>1. I # {}
      BY <1>0, <1>2, FS_EmptySet
    <3>2. \A m \in I : m <= b
      OBVIOUS
    <3> QED BY <3>1, <3>2, <1>0, MaxOf
  <2>4. Upto(n) = I
    BY <2>3
  <2> QED BY <2>4, <1>2
<1>4. PICK i \in I : /\ k <= Cardinality(Upto(i))
                     /\ \A j \in I : k <= Cardinality(Upto(j)) => i <= j
  <2>1. PICK T : T = {i \in I : k <= Cardinality(Upto(i))}
    OBVIOUS
  <2>2. PICK i \in T : \A j \in T : i <= j
    <3>1. T \in SUBSET Nat /\ T # {}
      BY <2>1, <1>3, <1>0
    <3> QED BY <3>1, NatMin
  <2> QED BY <2>1, <2>2
<1>5. Cardinality(Upto(i)) = k
  <2>1. SUFFICES ASSUME k < Cardinality(Upto(i))
                 PROVE  FALSE
    BY <1>4, <1>1, <1>2
  <2>2. PICK S : S = Upto(i) \ {i}
    OBVIOUS
  <2>3. Cardinality(S) = Cardinality(Upto(i)) - 1
    <3>1. IsFiniteSet(Upto(i)) /\ i \in Upto(i)
      BY <1>1
    <3> HIDE DEF Upto
    <3> QED BY <3>1, <2>2, FS_RemoveElement
  <2>4. k <= Cardinality(S)
    BY <2>3, <2>1, <1>1, <1>2
  <2>5. S # {}
    BY <2>4, FS_EmptySet, <1>2
  <2>6. \A m \in S : m <= i
    BY <2>2
  <2>7. PICK n \in S : \A m \in S : m <= n
    BY <2>5, <2>6, <2>2, MaxOf
  <2>8. S = Upto(n)
    <3>1. n \in I /\ n < i
      BY <2>7, <2>2
    <3>2. ASSUME NEW m \in Upto(n) PROVE m \in S
      BY <3>1, <2>2
    <3>3. ASSUME NEW m \in S PROVE m \in Upto(n)
      BY <2>7, <2>2
    <3> QED BY <3>2, <3>3
  <2>9. i <= n
    BY <2>8, <2>4, <1>4, <2>2
  <2> QED BY <2>9, <2>2
<1> QED BY <1>5 DEF Nth

IsLoop(f, S, stop, next) == f = [x \in S |-> IF x \in stop THEN x ELSE f[next[x]]]

\* A loop that goes on to next until it stops is a function whatever next does.
LEMMA LoopExists ==
    ASSUME NEW S, NEW stop \in SUBSET S, NEW next \in [S -> S]
    PROVE  \E f : IsLoop(f, S, stop, next)
<1> DEFINE Closed == {T \in SUBSET S : \A t \in T \ stop : next[t] \in T}
           Reach(x) == {y \in S : \A T \in Closed : x \in T => y \in T}
           Out(x) == CHOOSE y : y \in Reach(x) \cap stop
<1>1. ASSUME NEW x \in stop PROVE Out(x) = x
  <2>1. {x} \in Closed
    OBVIOUS
  <2>2. Reach(x) = {x}
    BY <2>1
  <2>3. Reach(x) \cap stop = {x}
    BY <2>2
  <2> HIDE DEF Reach
  <2> QED BY <2>3
<1>2. ASSUME NEW x \in S \ stop PROVE Out(x) = Out(next[x])
  <2>1. ASSUME NEW y \in Reach(next[x]) PROVE y \in Reach(x)
    OBVIOUS
  <2>2. ASSUME NEW y \in Reach(x) \cap stop PROVE y \in Reach(next[x])
    <3>1. ASSUME NEW T \in Closed, next[x] \in T PROVE y \in T
      <4>1. T \cup {x} \in Closed
        BY <3>1
      <4>2. y \in T \cup {x}
        BY <4>1
      <4> QED BY <4>2
    <3> QED BY <3>1
  <2>3. Reach(x) \cap stop = Reach(next[x]) \cap stop
    BY <2>1, <2>2
  <2> HIDE DEF Reach
  <2> QED BY <2>3
<1> HIDE DEF Out
<1>3. PICK f : f = [x \in S |-> Out(x)]
  OBVIOUS
<1>4. \A x \in S : Out(x) = IF x \in stop THEN x ELSE f[next[x]]
  BY <1>1, <1>2, <1>3
<1>5. f = [x \in S |-> IF x \in stop THEN x ELSE f[next[x]]]
  BY <1>3, <1>4
<1> QED BY <1>5 DEF IsLoop

\* If every turn lowers a measure, the loop ends where it stops, and keeps what
\* every turn keeps.
LEMMA LoopKeeps ==
    ASSUME NEW S, NEW stop \in SUBSET S, NEW next \in [S -> S],
           NEW m \in [S -> Nat], \A x \in S \ stop : m[next[x]] < m[x],
           NEW f, IsLoop(f, S, stop, next),
           NEW I \in SUBSET S, \A x \in I \ stop : next[x] \in I
    PROVE  \A x \in I : f[x] \in I \cap stop
<1>1. SUFFICES ASSUME NEW y \in I, f[y] \notin I \cap stop
               PROVE  FALSE
  OBVIOUS
<1>2. PICK B : B = {n \in Nat : \E x \in I : m[x] = n /\ f[x] \notin I \cap stop}
  OBVIOUS
<1>3. m[y] \in B /\ B \in SUBSET Nat
  BY <1>1, <1>2
<1>4. PICK n \in B : \A k \in B : n <= k
  BY <1>3, NatMin
<1>5. PICK x \in I : m[x] = n /\ f[x] \notin I \cap stop
  BY <1>2, <1>4
<1>6. x \notin stop
  BY <1>5 DEF IsLoop
<1>7. f[x] = f[next[x]] /\ next[x] \in I
  BY <1>6 DEF IsLoop
<1>8. m[next[x]] \in B
  BY <1>7, <1>5, <1>2
<1>9. m[next[x]] < m[x] /\ m[next[x]] \in Nat /\ m[x] \in Nat
  BY <1>6, <1>7
<1> QED BY <1>8, <1>9, <1>4, <1>5

(***************************************************************************)
(* Components.                                                             *)
(***************************************************************************)

Closed(g, T) == \A l \in g.links : l \cap T # {} => l \subseteq T
Linking(g) == \A l \in g.links : \E a, b \in Node : l = {a, b}

\* The component of a node is the least closed set with it: the growth of the model
\* ends, because every turn adds a node.
LEMMA ComponentIs ==
    ASSUME NEW g, Linking(g), NEW n \in Node
    PROVE  /\ n \in Component(g, n)
           /\ Component(g, n) \subseteq Node
           /\ Closed(g, Component(g, n))
           /\ \A T \in SUBSET Node : n \in T /\ Closed(g, T) => Component(g, n) \subseteq T
<1> DEFINE more(T) == T \cup UNION {l \in g.links : l \cap T # {}}
<1>1. PICK stop : stop = {T \in SUBSET Node : more(T) = T}
  OBVIOUS
<1>2. \A T \in SUBSET Node : more(T) \in SUBSET Node
  BY DEF Linking
<1>3. PICK next : next = [T \in SUBSET Node |-> more(T)]
  OBVIOUS
<1>4. next \in [SUBSET Node -> SUBSET Node]
  BY <1>2, <1>3
<1>5. IsFiniteSet(Node) /\ Cardinality(Node) \in Nat
  BY FiberGraphAssumption, FS_CardinalityType
<1>6. \A T \in SUBSET Node : /\ IsFiniteSet(T) /\ Cardinality(T) \in Nat
                             /\ Cardinality(T) <= Cardinality(Node)
  BY <1>5, FS_Subset, FS_CardinalityType
<1>7. PICK m : m = [T \in SUBSET Node |-> Cardinality(Node) - Cardinality(T)]
  OBVIOUS
<1>8. m \in [SUBSET Node -> Nat]
  <2>1. \A T \in SUBSET Node : Cardinality(Node) - Cardinality(T) \in Nat
    BY <1>5, <1>6
  <2> QED BY <2>1, <1>7
<1>9. ASSUME NEW T \in (SUBSET Node) \ stop
      PROVE  m[next[T]] < m[T]
  <2>1. next[T] \in SUBSET Node /\ T \subseteq next[T] /\ next[T] # T
    BY <1>1, <1>3, <1>4
  <2>2. Cardinality(T) <= Cardinality(next[T]) /\ Cardinality(T) # Cardinality(next[T])
    BY <2>1, <1>6, FS_Subset
  <2>3. m[next[T]] = Cardinality(Node) - Cardinality(next[T]) /\ m[T] = Cardinality(Node) - Cardinality(T)
    BY <2>1, <1>7
  <2> QED BY <2>1, <2>2, <2>3, <1>5, <1>6
<1> DEFINE loop(h) == h = [T \in SUBSET Node |-> IF more(T) = T THEN T ELSE h[more(T)]]
<1>10. PICK f : f = CHOOSE h : loop(h)
  OBVIOUS
<1>14. Component(g, n) = f[{n}]
  BY <1>10 DEF Component
<1>11. \E h : loop(h)
  <2>1. stop \in SUBSET SUBSET Node
    BY <1>1
  <2>2. PICK h : IsLoop(h, SUBSET Node, stop, next)
    BY <2>1, <1>4, LoopExists
  <2>3. loop(h)
    BY <2>2, <1>1, <1>3 DEF IsLoop
  <2> QED BY <2>3
<1>12. loop(f)
  <2> HIDE DEF loop
  <2> QED BY <1>10, <1>11
<1>13. IsLoop(f, SUBSET Node, stop, next)
  BY <1>12, <1>1, <1>3 DEF IsLoop
<1>15. PICK I : I = {T \in SUBSET Node : /\ n \in T
                         /\ \A U \in SUBSET Node : n \in U /\ Closed(g, U) => T \subseteq U}
  OBVIOUS
<1>16. ASSUME NEW T \in I PROVE next[T] \in I
  BY <1>15, <1>3, <1>2 DEF Closed
<1>17. \A T \in I : f[T] \in I \cap stop
  <2>1. PICK Sets : Sets = SUBSET Node
    OBVIOUS
  <2>2. stop \in SUBSET Sets /\ I \in SUBSET Sets
    BY <2>1, <1>1, <1>15
  <2>3. next \in [Sets -> Sets] /\ m \in [Sets -> Nat] /\ IsLoop(f, Sets, stop, next)
    BY <2>1, <1>4, <1>8, <1>13
  <2>4. \A T \in Sets \ stop : m[next[T]] < m[T]
    BY <2>1, <1>9
  <2>5. \A T \in I \ stop : next[T] \in I
    BY <1>16
  <2> QED BY <2>2, <2>3, <2>4, <2>5, LoopKeeps
<1>18. {n} \in I
  BY <1>15
<1>19. Component(g, n) \in I \cap stop
  BY <1>14, <1>17, <1>18
<1>20. Closed(g, Component(g, n))
  BY <1>19, <1>1 DEF Closed
<1> QED BY <1>19, <1>20, <1>15

\* Any node of a component has it as its own: components are equal or disjoint.
LEMMA ComponentOf ==
    ASSUME NEW g, Linking(g), NEW n \in Node, NEW k \in Component(g, n)
    PROVE  Component(g, k) = Component(g, n)
<1>1. k \in Node /\ Component(g, n) \in SUBSET Node /\ Component(g, k) \in SUBSET Node
  BY ComponentIs
<1>2. Component(g, k) \subseteq Component(g, n)
  BY <1>1, ComponentIs
<1>3. n \in Component(g, k)
  <2>1. SUFFICES ASSUME n \notin Component(g, k)
                 PROVE  FALSE
    OBVIOUS
  <2>2. PICK T : T = Node \ Component(g, k)
    OBVIOUS
  <2>3. Closed(g, T)
    <3>1. SUFFICES ASSUME NEW l \in g.links, NEW x \in l, x \in T, NEW y \in l, y \notin T
                   PROVE  FALSE
      BY DEF Closed
    <3>2. y \in Node
      BY <3>1 DEF Linking
    <3>3. y \in Component(g, k)
      BY <3>1, <3>2, <2>2
    <3>4. l \subseteq Component(g, k)
      <4>1. Closed(g, Component(g, k))
        BY <1>1, ComponentIs
      <4> QED BY <4>1, <3>3 DEF Closed
    <3> QED BY <3>4, <3>1, <2>2
  <2>4. Component(g, n) \subseteq T
    BY <2>1, <2>2, <2>3, ComponentIs
  <2>5. k \in Component(g, k)
    BY <1>1, ComponentIs
  <2> QED BY <2>4, <2>5, <2>2
<1>4. Component(g, n) \subseteq Component(g, k)
  <2>1. Closed(g, Component(g, k))
    BY <1>1, ComponentIs
  <2> QED BY <2>1, <1>3, <1>1, ComponentIs
<1> QED BY <1>2, <1>4

\* A component in which every node has two neighbours has as many links as nodes.
LEMMA TwoEach ==
    ASSUME NEW g, Linking(g), NEW comp \in SUBSET Node, Closed(g, comp),
           \A n \in comp : ~ Cardinality(Linked(g, n)) <= 1
    PROVE  Cardinality({l \in g.links : l \subseteq comp}) >= Cardinality(comp)
<1>1. PICK E : E = {l \in g.links : l \subseteq comp}
  OBVIOUS
<1>2. IsFiniteSet(comp) /\ comp \in SUBSET Nat
  BY FiberGraphAssumption, FS_Subset
<1>3. IsFiniteSet(E)
  <2>1. IsFiniteSet(SUBSET comp)
    BY <1>2, FS_SUBSET
  <2>2. E \in SUBSET SUBSET comp
    BY <1>1
  <2> QED BY <2>1, <2>2, FS_Subset
<1>4. ASSUME NEW n \in comp
      PROVE  /\ Linked(g, n) \subseteq comp
             /\ \E a, b \in Linked(g, n) : a < b
  <2>1. Linked(g, n) \subseteq comp
    BY DEF Linked, Closed
  <2>2. IsFiniteSet(Linked(g, n)) /\ Cardinality(Linked(g, n)) \in Nat
    BY <2>1, <1>2, FS_Subset, FS_CardinalityType
  <2>3. Linked(g, n) # {}
    BY <2>2, FS_EmptySet
  <2>4. PICK a : a \in Linked(g, n)
    BY <2>3
  <2>5. Linked(g, n) # {a}
    <3>1. Cardinality({a}) = 1
      BY FS_Singleton
    <3>2. ~ Cardinality({a}) <= 1 => FALSE
      BY <3>1
    <3> QED BY <3>2
  <2>6. PICK b \in Linked(g, n) : b # a
    BY <2>4, <2>5
  <2>7. a \in Nat /\ b \in Nat
    BY <2>1, <2>4, <2>6, <1>2
  <2>8. a < b \/ b < a
    BY <2>6, <2>7
  <2> QED BY <2>1, <2>4, <2>6, <2>8
<1>5. PICK lo \in [comp -> comp], hi \in [comp -> comp] :
        \A n \in comp : lo[n] < hi[n] /\ lo[n] \in Linked(g, n) /\ hi[n] \in Linked(g, n)
  <2> DEFINE pair(n) == CHOOSE p \in comp \X comp :
                           p[1] < p[2] /\ p[1] \in Linked(g, n) /\ p[2] \in Linked(g, n)
  <2>1. ASSUME NEW n \in comp
        PROVE  /\ pair(n) \in comp \X comp /\ pair(n)[1] < pair(n)[2]
               /\ pair(n)[1] \in Linked(g, n) /\ pair(n)[2] \in Linked(g, n)
    <3>1. PICK a, b \in Linked(g, n) : a < b
      BY <1>4
    <3>2. <<a, b>> \in comp \X comp
      BY <1>4
    <3> QED BY <3>1, <3>2
  <2> HIDE DEF pair
  <2>2. PICK lo : lo = [n \in comp |-> pair(n)[1]]
    OBVIOUS
  <2>3. PICK hi : hi = [n \in comp |-> pair(n)[2]]
    OBVIOUS
  <2> QED BY <2>1, <2>2, <2>3
<1> DEFINE to(n, i) == IF i = 1 THEN lo[n] ELSE hi[n]
           end(n, i) == IF n < to(n, i) THEN 1 ELSE 2
<1>6. ASSUME NEW n \in comp, NEW i \in 1 .. 2
      PROVE  {n, to(n, i)} \in E /\ to(n, i) # n /\ to(n, i) \in comp
  <2>1. to(n, i) \in Linked(g, n)
    BY <1>5
  <2> HIDE DEF to
  <2>2. PICK l \in g.links : n \in l /\ to(n, i) \in l
    BY <2>1 DEF Linked
  <2>3. to(n, i) # n
    BY <2>1 DEF Linked
  <2>4. l = {n, to(n, i)}
    BY <2>2, <2>3 DEF Linking
  <2>5. to(n, i) \in comp
    BY <2>1, <1>4
  <2> QED BY <2>2, <2>3, <2>4, <2>5, <1>1
<1>7. PICK f : f = [p \in comp \X (1 .. 2) |-> <<{p[1], to(p[1], p[2])}, end(p[1], p[2])>>]
  OBVIOUS
<1>8. ASSUME NEW n \in comp, NEW i \in 1 .. 2
      PROVE  f[<<n, i>>] = <<{n, to(n, i)}, end(n, i)>>
  <2> HIDE DEF to, end
  <2> QED BY <1>7
<1>9. f \in [comp \X (1 .. 2) -> E \X (1 .. 2)]
  <2>1. ASSUME NEW p \in comp \X (1 .. 2)
        PROVE  <<{p[1], to(p[1], p[2])}, end(p[1], p[2])>> \in E \X (1 .. 2)
    <3>1. p[1] \in comp /\ p[2] \in 1 .. 2
      OBVIOUS
    <3>2. {p[1], to(p[1], p[2])} \in E
      BY <3>1, <1>6
    <3>3. end(p[1], p[2]) \in 1 .. 2
      OBVIOUS
    <3> HIDE DEF to, end
    <3> QED BY <3>2, <3>3
  <2> HIDE DEF to, end
  <2> QED BY <2>1, <1>7
<1>10. ASSUME NEW n \in comp, NEW i \in 1 .. 2, NEW k \in comp, NEW j \in 1 .. 2,
              f[<<n, i>>] = f[<<k, j>>]
       PROVE  n = k /\ i = j
  <2>1. {n, to(n, i)} = {k, to(k, j)} /\ end(n, i) = end(k, j)
    <3>1. <<{n, to(n, i)}, end(n, i)>> = <<{k, to(k, j)}, end(k, j)>>
      <4> HIDE DEF to, end
      <4> QED BY <1>8, <1>10
    <3> HIDE DEF to, end
    <3> QED BY <3>1
  <2>2. n \in Nat /\ k \in Nat /\ to(n, i) \in Nat /\ to(k, j) \in Nat
    BY <1>2, <1>6
  <2>3. n < to(n, i) <=> k < to(k, j)
    <3> HIDE DEF to
    <3> QED BY <2>1
  <2>4. n = k
    <3>1. to(n, i) # n /\ to(k, j) # k
      BY <1>6
    <3> HIDE DEF to, end
    <3> QED BY <2>1, <2>2, <2>3, <3>1
  <2>5. to(n, i) = to(n, j)
    <3>1. to(n, i) # n /\ to(k, j) # k
      BY <1>6
    <3> HIDE DEF to, end
    <3> QED BY <2>1, <2>4, <3>1
  <2>6. lo[n] < hi[n] /\ lo[n] \in Nat /\ hi[n] \in Nat
    BY <1>5, <1>2
  <2> QED BY <2>4, <2>5, <2>6
<1>16. \A n, k \in comp : \A i, j \in 1 .. 2 : f[<<n, i>>] = f[<<k, j>>] => n = k /\ i = j
  BY <1>10
<1>11. f \in Injection(comp \X (1 .. 2), E \X (1 .. 2))
  <2>1. ASSUME NEW p \in comp \X (1 .. 2), NEW q \in comp \X (1 .. 2), f[p] = f[q]
        PROVE  p = q
    <3>1. PICK n \in comp, i \in 1 .. 2 : p = <<n, i>>
      OBVIOUS
    <3>2. PICK k \in comp, j \in 1 .. 2 : q = <<k, j>>
      OBVIOUS
    <3>3. f[<<n, i>>] = f[<<k, j>>]
      BY <3>1, <3>2, <2>1
    <3>4. n = k /\ i = j
      <4>1. \A x \in comp : \A u, v \in 1 .. 2 : f[<<n, u>>] = f[<<x, v>>] => n = x /\ u = v
        BY <1>16
      <4>2. \A v \in 1 .. 2 : f[<<n, i>>] = f[<<k, v>>] => n = k /\ i = v
        BY <4>1
      <4> QED BY <4>2, <3>3
    <3> QED BY <3>1, <3>2, <3>4
  <2> QED BY <2>1, <1>9 DEF Injection, IsInjective
<1>12. IsFiniteSet(1 .. 2) /\ Cardinality(1 .. 2) = 2
  <2>1. IsFiniteSet(1 .. 2) /\ Cardinality(1 .. 2) = IF 1 > 2 THEN 0 ELSE 2 - 1 + 1
    <3>1. 1 \in Int /\ 2 \in Int
      OBVIOUS
    <3> QED BY <3>1, FS_Interval, Zenon
  <2> QED BY <2>1
<1>13. /\ IsFiniteSet(E \X (1 .. 2))
       /\ Cardinality(E \X (1 .. 2)) = Cardinality(E) * 2
       /\ Cardinality(comp \X (1 .. 2)) = Cardinality(comp) * 2
  BY <1>2, <1>3, <1>12, FS_Product
<1>14. Cardinality(comp \X (1 .. 2)) <= Cardinality(E \X (1 .. 2))
  BY <1>11, <1>13, FS_Injection
<1>15. Cardinality(E) \in Nat /\ Cardinality(comp) \in Nat
  BY <1>2, <1>3, FS_CardinalityType
<1> QED BY <1>1, <1>13, <1>14, <1>15

(***************************************************************************)
(* The order of a walk.                                                    *)
(***************************************************************************)

NoRepeat(s) == \A i, j \in DOMAIN s : s[i] = s[j] => i = j

\* The walk in order of a component that is not quarantined is a path without a
\* repeated node.
LEMMA InOrderIs ==
    ASSUME NEW g, Linking(g), NEW comp \in SUBSET Node, Closed(g, comp),
           ~ Quarantined(g, comp)
    PROVE  InOrder(g, comp) \in Seq(comp) \ {<<>>} /\ NoRepeat(InOrder(g, comp))
<1> DEFINE paths == Seq(comp) \ {<<>>}
           beyond(p) == Linked(g, Last(p)) \ Range(p)
           step(p) == Append(p, CHOOSE x \in beyond(p) : TRUE)
           ends == {x \in comp : Cardinality(Linked(g, x)) <= 1}
           from == CHOOSE x \in ends : \A y \in ends : x <= y
<1>1. from \in comp
  <2>1. ends # {}
    BY TwoEach DEF Quarantined
  <2>2. ends \in SUBSET Nat
    BY FiberGraphAssumption
  <2>3. \E x \in ends : \A y \in ends : x <= y
    BY <2>1, <2>2, NatMin
  <2> QED BY <2>3
<1> HIDE DEF from
<1>2. PICK P : P = paths
  OBVIOUS
<1>3. PICK stop : stop = {p \in P : beyond(p) = {}}
  OBVIOUS
<1>4. \A p \in P : p \in Seq(comp) /\ p # <<>> /\ Last(p) \in comp /\ beyond(p) \subseteq comp
  <2>1. ASSUME NEW p \in P PROVE Last(p) \in comp
    BY <1>2 DEF Last
  <2>2. ASSUME NEW p \in P PROVE Linked(g, Last(p)) \subseteq comp
    BY <2>1 DEF Linked, Closed
  <2> QED BY <2>1, <2>2, <1>2
<1>5. PICK next : next = [p \in P |-> IF beyond(p) = {} THEN p ELSE step(p)]
  OBVIOUS
<1>6. ASSUME NEW p \in P, beyond(p) # {}
      PROVE  /\ step(p) \in P
             /\ \E x \in comp \ Range(p) : step(p) = Append(p, x)
  <2>1. PICK x : x = CHOOSE y \in beyond(p) : TRUE
    OBVIOUS
  <2>2. x \in beyond(p)
    BY <2>1, <1>6
  <2>3. x \in comp \ Range(p) /\ step(p) = Append(p, x)
    BY <2>1, <2>2, <1>4
  <2>4. Append(p, x) \in Seq(comp) /\ Append(p, x) # <<>>
    BY <2>3, <1>4
  <2>5. Append(p, x) \in P
    BY <2>4, <1>2
  <2> HIDE DEF step, paths, beyond
  <2> QED BY <2>3, <2>5
<1>7. next \in [P -> P]
  <2> HIDE DEF beyond, step, paths
  <2> QED BY <1>5, <1>6
<1>8. IsFiniteSet(comp) /\ Cardinality(comp) \in Nat
  BY FiberGraphAssumption, FS_Subset, FS_CardinalityType
<1>9. \A p \in P : /\ Range(p) \subseteq comp /\ IsFiniteSet(Range(p))
                   /\ Cardinality(Range(p)) \in Nat /\ Cardinality(Range(p)) <= Cardinality(comp)
  <2>1. ASSUME NEW p \in P PROVE Range(p) \subseteq comp
    BY <1>4 DEF Range
  <2> QED BY <2>1, <1>8, FS_Subset, FS_CardinalityType
<1>10. PICK m : m = [p \in P |-> Cardinality(comp) - Cardinality(Range(p))]
  OBVIOUS
<1>11. m \in [P -> Nat]
  <2>1. \A p \in P : Cardinality(comp) - Cardinality(Range(p)) \in Nat
    BY <1>8, <1>9
  <2> QED BY <2>1, <1>10
<1>12. ASSUME NEW p \in P \ stop
       PROVE  m[next[p]] < m[p]
  <2>1. beyond(p) # {}
    BY <1>3
  <2>2. PICK x \in comp \ Range(p) : step(p) = Append(p, x)
    BY <2>1, <1>6
  <2>3. next[p] = Append(p, x) /\ next[p] \in P
    <3> HIDE DEF beyond, step
    <3> QED BY <2>1, <2>2, <1>5, <1>7
  <2>4. Range(Append(p, x)) = Range(p) \cup {x}
    <3>1. p \in Seq(comp)
      BY <1>4
    <3>2. Len(p) \in Nat /\ DOMAIN p = 1 .. Len(p)
      BY <3>1
    <3>3. /\ DOMAIN Append(p, x) = 1 .. Len(p) + 1
          /\ \A i \in 1 .. Len(p) : Append(p, x)[i] = p[i]
          /\ Append(p, x)[Len(p) + 1] = x
      BY <3>1
    <3>4. \A y \in Range(Append(p, x)) : y \in Range(p) \cup {x}
      BY <3>2, <3>3 DEF Range
    <3>5. \A y \in Range(p) : y \in Range(Append(p, x))
      BY <3>2, <3>3 DEF Range
    <3>6. x \in Range(Append(p, x))
      BY <3>2, <3>3 DEF Range
    <3> QED BY <3>4, <3>5, <3>6
  <2>5. Cardinality(Range(next[p])) = Cardinality(Range(p)) + 1
    <3>1. p \in P /\ x \notin Range(p)
      BY <2>2
    <3>2. IsFiniteSet(Range(p))
      BY <3>1, <1>9
    <3>3. Cardinality(Range(p) \cup {x}) = Cardinality(Range(p)) + 1
      BY <3>1, <3>2, FS_AddElement
    <3> QED BY <3>3, <2>3, <2>4
  <2>6. m[p] = Cardinality(comp) - Cardinality(Range(p)) /\ m[next[p]] = Cardinality(comp) - Cardinality(Range(next[p]))
    BY <2>3, <1>10
  <2> QED BY <2>3, <2>5, <2>6, <1>8, <1>9
<1> DEFINE loop(h) == h = [p \in paths |-> IF beyond(p) = {} THEN p ELSE h[step(p)]]
<1>13. PICK f : f = CHOOSE h : loop(h)
  OBVIOUS
<1>14. InOrder(g, comp) = f[<<from>>]
  BY <1>13 DEF InOrder, from
<1>15. stop \in SUBSET P
  BY <1>3
<1>16. \E h : loop(h)
  <2>1. PICK h : IsLoop(h, P, stop, next)
    BY <1>15, <1>7, LoopExists
  <2>2. loop(h)
    <3> HIDE DEF beyond, step, paths
    <3> QED BY <2>1, <1>2, <1>3, <1>5 DEF IsLoop
  <2> QED BY <2>2
<1>17. loop(f)
  <2> HIDE DEF loop
  <2> QED BY <1>13, <1>16
<1>18. IsLoop(f, P, stop, next)
  <2> HIDE DEF beyond, step, paths
  <2> QED BY <1>17, <1>2, <1>3, <1>5 DEF IsLoop
<1>19. PICK I : I = {p \in P : NoRepeat(p)}
  OBVIOUS
<1>20. ASSUME NEW p \in I \ stop
       PROVE  next[p] \in I
  <2>1. p \in P /\ beyond(p) # {} /\ NoRepeat(p)
    BY <1>3, <1>19
  <2>2. PICK x \in comp \ Range(p) : step(p) = Append(p, x)
    BY <2>1, <1>6
  <2>3. next[p] = Append(p, x) /\ next[p] \in P
    <3> HIDE DEF beyond, step
    <3> QED BY <2>1, <2>2, <1>5, <1>7
  <2>4. NoRepeat(Append(p, x))
    <3>1. p \in Seq(comp)
      BY <2>1, <1>4
    <3>2. \A i \in 1 .. Len(p) : p[i] # x
      BY <3>1, <2>2 DEF Range
    <3>3. Len(p) \in Nat /\ DOMAIN p = 1 .. Len(p)
      BY <3>1
    <3>4. /\ DOMAIN Append(p, x) = 1 .. Len(p) + 1
          /\ \A i \in 1 .. Len(p) : Append(p, x)[i] = p[i]
          /\ Append(p, x)[Len(p) + 1] = x
      BY <3>1
    <3> QED BY <3>2, <3>3, <3>4, <2>1 DEF NoRepeat
  <2> QED BY <2>3, <2>4, <1>19
<1>21. \A p \in I : f[p] \in I \cap stop
  <2>1. I \in SUBSET P
    BY <1>19
  <2>2. \A p \in P \ stop : m[next[p]] < m[p]
    BY <1>12
  <2>3. \A p \in I \ stop : next[p] \in I
    BY <1>20
  <2> HIDE DEF beyond, step, paths, loop
  <2> QED BY <2>1, <2>2, <2>3, <1>7, <1>11, <1>15, <1>18, LoopKeeps
<1>22. <<from>> \in I
  <2>1. <<from>> \in P
    BY <1>1, <1>2
  <2>2. NoRepeat(<<from>>)
    BY DEF NoRepeat
  <2> QED BY <2>1, <2>2, <1>19
<1> QED
  BY <1>14, <1>21, <1>22, <1>19, <1>2

(***************************************************************************)
(* Regions.                                                                *)
(***************************************************************************)

Region(pl, g) ==
    /\ Linking(g)
    /\ g.strands \subseteq Strand
    /\ \A c \in g.crossings : /\ c.link \in g.links
                              /\ c.hop \in Hop
                              /\ c.hop \in Strand => Landings(pl, c.hop) # {}
    /\ \A s \in g.strands \ g.dangling :
          NoPort \notin {pl.landed[s]["A"], pl.landed[s]["B"]} => \E c \in g.crossings : c.hop = s

Once(g) == \A c, d \in g.crossings : c.hop = d.hop /\ c.hop \in Strand => c.link = d.link

\* A crossing joins two positions of its cable; its strands land behind them.
LEMMA CrossingIs ==
    ASSUME NEW pl \in Plant, NEW devs, NEW cables \in SUBSET pl.cables, NEW c \in Crossing(pl, devs, cables)
    PROVE  /\ c.near \in RearPos /\ c.far \in RearPos
           /\ c.cable \in cables
           /\ <<c.near, c.far>> \in Positions[c.cable]
           /\ c.strands \subseteq Strand
           /\ \A s \in c.strands : LandsBehind(pl, s, <<c.near, c.far>>)
<1> DEFINE strands(k, x) == IF k \notin pl.fiber THEN {}
                            ELSE StrandsAt(pl, devs, cables, x[1]) \cup StrandsAt(pl, devs, cables, x[2])
<1>1. PICK k \in cables : \E x \in Positions[k] :
        c = [cable |-> k, near |-> x[1], far |-> x[2], strands |-> strands(k, x)]
  BY DEF Crossing
<1>6. PICK x \in Positions[k] :
        c = [cable |-> k, near |-> x[1], far |-> x[2], strands |-> strands(k, x)]
  BY <1>1
<1>2. k \in Cable
  BY <1>1 DEF Plant
<1>3. x \in RearPos \X RearPos
  BY <1>1, <1>2, FiberGraphAssumption
<1>4. strands(k, x) \subseteq Strand
  BY DEF StrandsAt, StrandsIn
<1>5. \A s \in strands(k, x) : LandsBehind(pl, s, <<x[1], x[2]>>)
  BY DEF StrandsAt, LandsBehind
<1> HIDE DEF strands
<1> QED BY <1>6, <1>3, <1>4, <1>5

\* What load_plant returns is a region, and one hop goes with one crossing when strands
\* land as users land them.
LEMMA LoadIs ==
    ASSUME NEW pl \in Plant, NEW seeds
    PROVE  /\ Region(pl, Load(pl, seeds))
           /\ CrossesOnce(pl) => Once(Load(pl, seeds))
<1> DEFINE expanded == Expanded(pl, seeds)
           devs == expanded \cup Beside(pl, expanded)
           cables == {k \in pl.cables : CableDevices(pl, k) \cap expanded # {}}
           jumpers == {j \in pl.jumpers : JumperDevices(j) \cap devs # {}}
           crossings == Crossing(pl, devs, cables)
           dangling == Dangling(pl, cables, crossings)
           g == Load(pl, seeds)
<1>1. /\ g.crossings = {c \in Agreed(crossings) : c.hop \notin dangling}
      /\ g.strands = StrandsIn(pl, cables)
      /\ g.dangling = dangling
      /\ g.links = {{q, Behind[q]} : q \in {r \in FrontPort : DeviceOf[r] \in devs}}
                   \cup (UNION {{{q, r} : q \in j[1], r \in j[2]} : j \in jumpers})
                   \cup {c.link : c \in g.crossings}
  BY DEF Load
<1>2. cables \in SUBSET pl.cables /\ pl.cables \subseteq Cable /\ pl.jumpers \subseteq Jumper
  BY DEF Plant
<1> HIDE DEF g, expanded
<1>3. ASSUME NEW c \in Agreed(crossings)
      PROVE  \E d \in crossings :
                /\ c.link = {d.near, d.far}
                /\ \/ d.strands = {} /\ c.hop = d.cable
                   \/ c.hop \in d.strands
  <2>1. PICK d \in crossings : c = [link |-> {d.near, d.far},
             hop |-> IF d.strands = {} THEN d.cable ELSE CHOOSE s \in d.strands : TRUE]
    BY DEF Agreed
  <2> HIDE DEF crossings
  <2> QED BY <2>1
<1>4. ASSUME NEW c \in g.crossings
      PROVE  /\ \E a, b \in Node : c.link = {a, b}
             /\ c.hop \in Hop
             /\ c.hop \in Strand => \E k \in pl.cables : \E x \in Positions[k] :
                                        LandsBehind(pl, c.hop, x) /\ c.link = {x[1], x[2]}
  <2>1. PICK d \in crossings :
                /\ c.link = {d.near, d.far}
                /\ \/ d.strands = {} /\ c.hop = d.cable
                   \/ c.hop \in d.strands
    BY <1>1, <1>3
  <2>2. /\ d.near \in RearPos /\ d.far \in RearPos /\ d.cable \in cables
        /\ <<d.near, d.far>> \in Positions[d.cable]
        /\ d.strands \subseteq Strand
        /\ \A s \in d.strands : LandsBehind(pl, s, <<d.near, d.far>>)
    BY <1>2, CrossingIs
  <2>3. c.hop \in Hop
    BY <2>1, <2>2, <1>2 DEF Hop
  <2>4. c.hop \in Strand => c.hop \in d.strands
    BY <2>1, <2>2, <1>2, FiberGraphAssumption
  <2> HIDE DEF crossings, cables
  <2>5. d.near \in Node /\ d.far \in Node
    BY <2>2 DEF Node
  <2>6. c.hop \in Strand => \E k \in pl.cables : \E x \in Positions[k] :
                                        LandsBehind(pl, c.hop, x) /\ c.link = {x[1], x[2]}
    <3>1. SUFFICES ASSUME c.hop \in Strand
                   PROVE  LandsBehind(pl, c.hop, <<d.near, d.far>>) /\ c.link = {d.near, d.far}
      BY <2>2, <1>2
    <3> QED BY <3>1, <2>1, <2>2, <2>4
  <2> QED BY <2>1, <2>3, <2>5, <2>6
<1>5. Linking(g)
  <2>1. ASSUME NEW q \in FrontPort PROVE q \in Node /\ Behind[q] \in Node
    BY FiberGraphAssumption DEF Node
  <2>2. ASSUME NEW j \in jumpers, NEW q \in j[1], NEW r \in j[2] PROVE q \in Node /\ r \in Node
    BY <1>2, FiberGraphAssumption DEF Node
  <2>3. ASSUME NEW l \in g.links
        PROVE  \/ \E q \in FrontPort : l = {q, Behind[q]}
               \/ \E j \in jumpers : \E q \in j[1], r \in j[2] : l = {q, r}
               \/ \E c \in g.crossings : l = c.link
    <3> HIDE DEF jumpers, devs, crossings, dangling
    <3> QED BY <1>1
  <2> HIDE DEF jumpers
  <2> QED BY <2>1, <2>2, <2>3, <1>4 DEF Linking
<1>6. \A c \in g.crossings : c.link \in g.links
  <2> HIDE DEF jumpers, devs, crossings, dangling
  <2> QED BY <1>1
<1>7. g.strands \subseteq Strand
  BY <1>1 DEF StrandsIn
<1>8. \A c \in g.crossings : c.hop \in Strand => Landings(pl, c.hop) # {}
  BY <1>4 DEF LandsBehind
<1>9. ASSUME NEW s \in g.strands \ g.dangling, NoPort \notin {pl.landed[s]["A"], pl.landed[s]["B"]}
      PROVE  \E c \in g.crossings : c.hop = s
  <2>1. s \in {c.hop : c \in Agreed(crossings)}
    BY <1>1, <1>9 DEF Dangling
  <2>2. s \notin dangling
    BY <1>1
  <2> HIDE DEF crossings, dangling
  <2> QED BY <1>1, <2>1, <2>2
<1>10. Region(pl, g)
  BY <1>4, <1>5, <1>6, <1>7, <1>8, <1>9 DEF Region
<1>11. ASSUME CrossesOnce(pl), NEW c \in g.crossings, NEW d \in g.crossings,
              c.hop = d.hop, c.hop \in Strand
       PROVE  c.link = d.link
  <2>1. PICK k \in pl.cables : \E x \in Positions[k] :
                                        LandsBehind(pl, c.hop, x) /\ c.link = {x[1], x[2]}
    BY <1>4, <1>11
  <2>2. PICK l \in pl.cables : \E y \in Positions[l] :
                                        LandsBehind(pl, d.hop, y) /\ d.link = {y[1], y[2]}
    BY <1>4, <1>11
  <2> QED BY <2>1, <2>2, <1>11 DEF CrossesOnce
<1>12. CrossesOnce(pl) => Once(g)
  BY <1>11 DEF Once
<1> QED BY <1>10, <1>12 DEF g

(***************************************************************************)
(* Chains.                                                                 *)
(***************************************************************************)

ChainRecord == [hops : Seq(Hop), a : EndOfPath, b : EndOfPath, bad : BOOLEAN, rank : Nat \X Nat]

\* How a path ends.
LEMMA EndIs ==
    ASSUME NEW pl, NEW g, NEW n
    PROVE  End(pl, g, n) \in EndOfPath
<1>1. CableEnd \in EndOfPath
  BY DEF CableEnd, EndOfPath
<1>2. ASSUME n \in FrontPort
      PROVE  \A k \in {"open", "terminated"}, w \in {"", "cable_end", "unspliced"} :
                [port |-> n, kind |-> k, reason |-> w] \in EndOfPath
  BY <1>2 DEF EndOfPath
<1> QED BY <1>1, <1>2 DEF End

\* A chain has the fields of a chain.
LEMMA ChainIs ==
    ASSUME NEW pl, NEW hops \in Seq(Hop), NEW a \in EndOfPath, NEW b \in EndOfPath,
           NEW rank \in Nat \X Nat
    PROVE  /\ Chain(pl, hops, a, b, rank) \in ChainRecord
           /\ Chain(pl, hops, a, b, rank).hops = hops
           /\ Chain(pl, hops, a, b, rank).rank = rank
<1>1. Defective(pl, hops) \in BOOLEAN
  BY DEF Defective
<1> QED BY <1>1 DEF Chain, ChainRecord

\* Each hop is that of a crossing between two neighbours of the path.
Along(g, path, hops) ==
    \A k \in DOMAIN hops : \E i \in 1 .. Len(path) - 1 : \E c \in g.crossings :
        c.link = {path[i], path[i + 1]} /\ hops[k] = c.hop

\* No strand twice.
Single(hops) == \A i, j \in DOMAIN hops : hops[i] = hops[j] /\ hops[i] \in Strand => i = j

\* The hops of a path are the hops of its crossings, one for every place of the path.
LEMMA HopsAlongIs ==
    ASSUME NEW g, NEW Nodes, NEW path \in Seq(Nodes), path # <<>>
    PROVE  /\ HopsAlong(g, path) \in Seq({c.hop : c \in g.crossings})
           /\ Along(g, path, HopsAlong(g, path))
           /\ NoRepeat(path) /\ Once(g) => Single(HopsAlong(g, path))
<1> DEFINE link(i) == {path[i], path[i + 1]}
           crossed == {i \in 1 .. Len(path) - 1 : \E c \in g.crossings : c.link = link(i)}
           at(k) == CHOOSE c \in g.crossings : c.link = link(Nth(crossed, k))
           hops == HopsAlong(g, path)
<1>1. Len(path) \in Nat /\ Len(path) - 1 \in Nat
  OBVIOUS
<1>2. crossed \in SUBSET (1 .. Len(path) - 1)
  OBVIOUS
<1>3. IsFiniteSet(crossed) /\ Cardinality(crossed) \in Nat
  <2>1. IsFiniteSet(1 .. Len(path) - 1)
    <3>1. 1 \in Int /\ Len(path) - 1 \in Int
      BY <1>1
    <3> QED BY <3>1, FS_Interval
  <2> QED BY <2>1, <1>2, FS_Subset, FS_CardinalityType
<1>4. hops = [k \in 1 .. Cardinality(crossed) |-> at(k).hop]
  BY DEF HopsAlong
<1>5. ASSUME NEW k \in 1 .. Cardinality(crossed)
      PROVE  /\ Nth(crossed, k) \in 1 .. Len(path) - 1
             /\ Cardinality({j \in crossed : j <= Nth(crossed, k)}) = k
             /\ at(k) \in g.crossings
             /\ at(k).link = link(Nth(crossed, k))
  <2>1. Nth(crossed, k) \in crossed /\ Cardinality({j \in crossed : j <= Nth(crossed, k)}) = k
    <3> HIDE DEF crossed
    <3> QED BY <1>1, <1>2, NthIs
  <2>2. PICK i : i = Nth(crossed, k)
    OBVIOUS
  <2>3. \E c \in g.crossings : c.link = link(i)
    BY <2>1, <2>2
  <2>4. at(k) \in g.crossings /\ at(k).link = link(i)
    <3> HIDE DEF link, crossed
    <3> QED BY <2>2, <2>3
  <2> HIDE DEF at
  <2> QED BY <2>1, <2>2, <2>4
<1> HIDE DEF at, hops
<1>6. hops \in Seq({c.hop : c \in g.crossings})
  <2>1. \A k \in 1 .. Cardinality(crossed) : at(k).hop \in {c.hop : c \in g.crossings}
    BY <1>5
  <2>2. hops \in [1 .. Cardinality(crossed) -> {c.hop : c \in g.crossings}]
    BY <2>1, <1>4
  <2> HIDE DEF crossed
  <2> QED BY <2>2, <1>3
<1>7. DOMAIN hops = 1 .. Cardinality(crossed) /\ \A k \in DOMAIN hops : hops[k] = at(k).hop
  BY <1>4
<1>8. \A k \in DOMAIN hops : \E i \in 1 .. Len(path) - 1 : \E c \in g.crossings :
                   c.link = {path[i], path[i + 1]} /\ hops[k] = c.hop
  BY <1>5, <1>7
<1>9. ASSUME NoRepeat(path), Once(g), NEW k \in DOMAIN hops, NEW l \in DOMAIN hops,
             hops[k] = hops[l], hops[k] \in Strand
      PROVE  k = l
  <2>1. PICK i \in 1 .. Len(path) - 1 : i = Nth(crossed, k)
    BY <1>5, <1>7
  <2>2. PICK j \in 1 .. Len(path) - 1 : j = Nth(crossed, l)
    BY <1>5, <1>7
  <2>3. at(k).link = at(l).link
    BY <1>5, <1>7, <1>9 DEF Once
  <2>4. {path[i], path[i + 1]} = {path[j], path[j + 1]}
    BY <2>1, <2>2, <2>3, <1>5, <1>7
  <2>5. DOMAIN path = 1 .. Len(path)
    OBVIOUS
  <2>6. {i, i + 1, j, j + 1} \subseteq DOMAIN path
    BY <2>1, <2>2, <2>5, <1>1
  <2>7. \/ path[i] = path[j]
        \/ path[i] = path[j + 1] /\ path[i + 1] = path[j]
    BY <2>4
  <2>8. i = j
    BY <2>6, <2>7, <2>1, <2>2, <1>9 DEF NoRepeat
  <2>9. Nth(crossed, k) = Nth(crossed, l)
    BY <2>1, <2>2, <2>8
  <2>10. k \in 1 .. Cardinality(crossed) /\ l \in 1 .. Cardinality(crossed)
    BY <1>7
  <2>11. /\ Cardinality({n \in crossed : n <= Nth(crossed, k)}) = k
         /\ Cardinality({n \in crossed : n <= Nth(crossed, l)}) = l
    BY <2>10, <1>5
  <2> HIDE DEF crossed
  <2> QED BY <2>9, <2>11
<1> QED BY <1>6, <1>8, <1>9 DEF hops, Along, Single

(***************************************************************************)
(* Walks.                                                                  *)
(***************************************************************************)

\* The image of a finite set is finite.
LEMMA ImageFinite ==
    ASSUME NEW S, IsFiniteSet(S), NEW f
    PROVE  IsFiniteSet({f[x] : x \in S})
<1>1. PICK T : T = {f[x] : x \in S}
  OBVIOUS
<1>2. PICK h : h = [x \in S |-> f[x]]
  OBVIOUS
<1>3. h \in Surjection(S, T)
  BY <1>1, <1>2 DEF Surjection
<1> QED BY <1>1, <1>3, FS_Surjection

Least(S) == CHOOSE n \in S : \A m \in S : n <= m

\* The three kinds of chain.
FiberOf(pl, g, comp, first, c) ==
    /\ ~ Quarantined(g, comp)
    /\ c = Chain(pl, HopsAlong(g, InOrder(g, comp)), End(pl, g, InOrder(g, comp)[1]),
                 End(pl, g, Last(InOrder(g, comp))), <<first, 0>>)
HalfOf(pl, g, comp, first, c, s, q) ==
    /\ s \in g.strands \ g.dangling /\ q \in comp \cap FrontPort
    /\ q \in Landings(pl, s) /\ \A x \in g.crossings : x.hop # s
    /\ c = Chain(pl, <<s>>, End(pl, g, q), CableEnd, <<first, q>>)
OrphanOf(pl, g, c, s) ==
    /\ s \in g.strands /\ Landings(pl, s) = {}
    /\ c = Chain(pl, <<s>>, CableEnd, CableEnd, <<s, 0>>)

\* What is walked is the fiber of a component, a half-landed strand or an orphan.
LEMMA WalkKinds ==
    ASSUME NEW pl, NEW g, NEW starts, NEW c \in Walk(pl, g, starts)
    PROVE  \/ \E n \in starts : FiberOf(pl, g, Component(g, n), Least(Component(g, n) \cap starts), c)
           \/ \E n \in starts : \E s, q :
                 HalfOf(pl, g, Component(g, n), Least(Component(g, n) \cap starts), c, s, q)
           \/ \E s : OrphanOf(pl, g, c, s)
<1>1. CASE c \in Orphans(pl, g)
  <2>1. \E s : OrphanOf(pl, g, c, s)
    BY <1>1 DEF Orphans, OrphanOf
  <2> QED BY <2>1
<1>2. CASE c \notin Orphans(pl, g)
  <2>1. PICK n \in starts : c \in ChainsIn(pl, g, Component(g, n), Least(Component(g, n) \cap starts))
    BY <1>2 DEF Walk, Least
  <2>2. PICK comp, first : comp = Component(g, n) /\ first = Least(comp \cap starts)
    OBVIOUS
  <2>3. c \in ChainsIn(pl, g, comp, first) /\ ~ Quarantined(g, comp)
    BY <2>1, <2>2 DEF ChainsIn
  <2>4. CASE Crossings(g, comp) # {}
    <3>1. FiberOf(pl, g, comp, first, c)
      BY <2>3, <2>4 DEF ChainsIn, FiberOf
    <3> QED BY <3>1, <2>1, <2>2
  <2>5. CASE Crossings(g, comp) = {}
    <3>1. PICK l \in (g.strands \ g.dangling) \X (comp \cap FrontPort) :
             /\ l[2] \in Landings(pl, l[1])
             /\ \A x \in g.crossings : x.hop # l[1]
             /\ c = Chain(pl, <<l[1]>>, End(pl, g, l[2]), CableEnd, <<first, l[2]>>)
      BY <2>3, <2>5 DEF ChainsIn
    <3>2. HalfOf(pl, g, comp, first, c, l[1], l[2])
      BY <3>1 DEF HalfOf
    <3> QED BY <3>2, <2>1, <2>2
  <2> QED BY <2>4, <2>5
<1> QED BY <1>1, <1>2

\* A walk has finitely many chains.
LEMMA FinitelyMany ==
    ASSUME NEW pl, NEW g, g.strands \subseteq Strand, NEW starts \in SUBSET Node
    PROVE  IsFiniteSet(Walk(pl, g, starts))
<1> DEFINE first(comp) == CHOOSE n \in comp \cap starts : \A m \in comp \cap starts : n <= m
           half(comp) == {m \in (g.strands \ g.dangling) \X (comp \cap FrontPort) :
                            m[2] \in Landings(pl, m[1]) /\ \A c \in g.crossings : c.hop # m[1]}
           halfChain(comp, l) == Chain(pl, <<l[1]>>, End(pl, g, l[2]), CableEnd, <<first(comp), l[2]>>)
<1>1. /\ IsFiniteSet(starts) /\ IsFiniteSet(FrontPort) /\ IsFiniteSet(g.strands)
  <2>1. FrontPort \in SUBSET Node /\ IsFiniteSet(Node) /\ IsFiniteSet(Strand)
    BY FiberGraphAssumption DEF Node
  <2> QED BY <2>1, FS_Subset
<1>2. ASSUME NEW comp
      PROVE  IsFiniteSet(ChainsIn(pl, g, comp, first(comp)))
  <2>1. CASE Quarantined(g, comp)
    BY <2>1, FS_EmptySet DEF ChainsIn
  <2>2. CASE ~ Quarantined(g, comp) /\ Crossings(g, comp) # {}
    <3>1. \E x : ChainsIn(pl, g, comp, first(comp)) = {x}
      BY <2>2 DEF ChainsIn
    <3> QED BY <3>1, FS_Singleton
  <2>3. CASE ~ Quarantined(g, comp) /\ Crossings(g, comp) = {}
    <3>1. ChainsIn(pl, g, comp, first(comp)) = {halfChain(comp, l) : l \in half(comp)}
      BY <2>3 DEF ChainsIn
    <3>2. IsFiniteSet(half(comp))
      <4>1. IsFiniteSet((g.strands \ g.dangling)) /\ IsFiniteSet(comp \cap FrontPort)
        BY <1>1, FS_Subset
      <4>2. IsFiniteSet((g.strands \ g.dangling) \X (comp \cap FrontPort))
        BY <4>1, FS_Product
      <4> QED BY <4>2, FS_Subset
    <3> HIDE DEF halfChain, half
    <3>3. PICK f : f = [l \in half(comp) |-> halfChain(comp, l)]
      OBVIOUS
    <3>4. {halfChain(comp, l) : l \in half(comp)} = {f[l] : l \in half(comp)}
      BY <3>3
    <3>5. IsFiniteSet({f[l] : l \in half(comp)})
      BY <3>2, ImageFinite
    <3> QED BY <3>1, <3>4, <3>5
  <2> QED BY <2>1, <2>2, <2>3
<1>3. PICK comps : comps = {Component(g, n) : n \in starts}
  OBVIOUS
<1>4. IsFiniteSet(comps)
  <2>1. PICK f : f = [n \in starts |-> Component(g, n)]
    OBVIOUS
  <2>2. comps = {f[n] : n \in starts}
    BY <1>3, <2>1
  <2> QED BY <2>2, <1>1, ImageFinite
<1>5. IsFiniteSet(UNION {ChainsIn(pl, g, comp, first(comp)) : comp \in comps})
  <2>1. PICK f : f = [comp \in comps |-> ChainsIn(pl, g, comp, first(comp))]
    OBVIOUS
  <2>2. {ChainsIn(pl, g, comp, first(comp)) : comp \in comps} = {f[comp] : comp \in comps}
    BY <2>1
  <2>3. IsFiniteSet({f[comp] : comp \in comps})
    BY <1>4, ImageFinite
  <2>4. \A T \in {f[comp] : comp \in comps} : IsFiniteSet(T)
    BY <1>2, <2>1
  <2> HIDE DEF first
  <2> QED BY <2>2, <2>3, <2>4, FS_UNION
<1>6. IsFiniteSet(Orphans(pl, g))
  <2>1. PICK S : S = {t \in g.strands : Landings(pl, t) = {}}
    OBVIOUS
  <2>2. IsFiniteSet(S)
    BY <2>1, <1>1, FS_Subset
  <2>3. PICK f : f = [s \in S |-> Chain(pl, <<s>>, CableEnd, CableEnd, <<s, 0>>)]
    OBVIOUS
  <2>4. Orphans(pl, g) = {f[s] : s \in S}
    BY <2>1, <2>3 DEF Orphans
  <2> QED BY <2>2, <2>4, ImageFinite
<1>7. Walk(pl, g, starts) = (UNION {ChainsIn(pl, g, comp, first(comp)) : comp \in comps}) \cup Orphans(pl, g)
  BY <1>3 DEF Walk
<1> HIDE DEF first
<1> QED BY <1>5, <1>6, <1>7, FS_Union

Apart(chains) ==
    /\ \A c \in chains : Single(c.hops)
    /\ \A c, d \in chains : StrandsOf(c.hops) \cap StrandsOf(d.hops) # {} => c = d

\* No strand is twice on a chain or on two chains of a walk.
LEMMA WalkIs ==
    ASSUME NEW pl, NEW g, Region(pl, g), NEW starts \in SUBSET Node
    PROVE  /\ IsFiniteSet(Walk(pl, g, starts))
           /\ Walk(pl, g, starts) \subseteq ChainRecord
           /\ Once(g) => Apart(Walk(pl, g, starts))
<1> DEFINE chains == Walk(pl, g, starts)
           comp(n) == Component(g, n)
           first(n) == Least(comp(n) \cap starts)
<1>1. IsFiniteSet(chains)
  BY FinitelyMany DEF Region
<1>2. ASSUME NEW n \in starts
      PROVE  /\ n \in Node /\ n \in comp(n) /\ comp(n) \in SUBSET Node /\ Closed(g, comp(n))
             /\ first(n) \in comp(n) /\ first(n) \in Nat
  <2>1. n \in Node /\ n \in comp(n) /\ comp(n) \in SUBSET Node /\ Closed(g, comp(n))
    BY ComponentIs DEF Region
  <2>2. comp(n) \cap starts \in SUBSET Nat /\ comp(n) \cap starts # {}
    BY <2>1, FiberGraphAssumption
  <2>3. first(n) \in comp(n) \cap starts
    <3> HIDE DEF comp
    <3> QED BY <2>2, NatMin DEF Least
  <2> QED BY <2>1, <2>2, <2>3
<1>3. ASSUME NEW n \in starts, NEW m \in starts, NEW x \in comp(n) \cap comp(m)
      PROVE  comp(n) = comp(m)
  BY <1>2, ComponentOf DEF Region
<1>4. ASSUME NEW n \in starts, NEW c, FiberOf(pl, g, comp(n), first(n), c)
      PROVE  /\ c \in ChainRecord
             /\ c.hops = HopsAlong(g, InOrder(g, comp(n)))
             /\ Once(g) => Single(c.hops)
             /\ \A i \in DOMAIN c.hops : \E x \in g.crossings :
                    x.hop = c.hops[i] /\ x.link \subseteq comp(n) /\ x.link # {}
  <2>1. PICK path : path = InOrder(g, comp(n))
    OBVIOUS
  <2>2. path \in Seq(comp(n)) /\ path # <<>> /\ NoRepeat(path)
    <3>1. comp(n) \in SUBSET Node /\ Closed(g, comp(n)) /\ ~ Quarantined(g, comp(n))
      BY <1>2, <1>4 DEF FiberOf
    <3> HIDE DEF comp
    <3> QED BY <2>1, <3>1, InOrderIs DEF Region
  <2>3. HopsAlong(g, path) \in Seq(Hop)
    <3>1. HopsAlong(g, path) \in Seq({c1.hop : c1 \in g.crossings})
      BY <2>2, HopsAlongIs
    <3>2. {c1.hop : c1 \in g.crossings} \subseteq Hop
      BY DEF Region
    <3> QED BY <3>1, <3>2
  <2>4. c = Chain(pl, HopsAlong(g, path), End(pl, g, path[1]), End(pl, g, Last(path)), <<first(n), 0>>)
    BY <1>4, <2>1 DEF FiberOf
  <2>5. <<first(n), 0>> \in Nat \X Nat
    <3>1. first(n) \in Nat
      BY <1>2
    <3> HIDE DEF first
    <3> QED BY <3>1
  <2>6. c \in ChainRecord /\ c.hops = HopsAlong(g, path)
    <3> HIDE DEF first
    <3> QED BY <2>3, <2>4, <2>5, EndIs, ChainIs
  <2>7. Once(g) => Single(c.hops)
    BY <2>2, <2>6, HopsAlongIs
  <2>8. ASSUME NEW i \in DOMAIN c.hops
        PROVE  \E x \in g.crossings : x.hop = c.hops[i] /\ x.link \subseteq comp(n) /\ x.link # {}
    <3>1. PICK k \in 1 .. Len(path) - 1 : \E x \in g.crossings :
                   x.link = {path[k], path[k + 1]} /\ c.hops[i] = x.hop
      <4>1. Along(g, path, c.hops)
        BY <2>2, <2>6, HopsAlongIs
      <4> QED BY <4>1 DEF Along
    <3>2. path[k] \in comp(n) /\ path[k + 1] \in comp(n)
      <4>1. k \in 1 .. Len(path) /\ k + 1 \in 1 .. Len(path)
        BY <3>1, <2>2
      <4> HIDE DEF comp
      <4> QED BY <4>1, <2>2
    <3> QED BY <3>1, <3>2
  <2> QED BY <2>1, <2>6, <2>7, <2>8
<1>5. ASSUME NEW n \in starts, NEW c, NEW s, NEW q, HalfOf(pl, g, comp(n), first(n), c, s, q)
      PROVE  c \in ChainRecord /\ c.hops = <<s>> /\ s \in Strand
  <2>1. s \in Strand
    BY <1>5 DEF HalfOf, Region
  <2>2. q \in Nat
    BY <1>5, FiberGraphAssumption DEF HalfOf, Node
  <2>3. <<s>> \in Seq(Hop)
    BY <2>1 DEF Hop
  <2>4. <<first(n), q>> \in Nat \X Nat
    <3>1. first(n) \in Nat
      BY <1>2
    <3> HIDE DEF first
    <3> QED BY <3>1, <2>2
  <2>5. CableEnd \in EndOfPath
    BY DEF CableEnd, EndOfPath
  <2>6. c = Chain(pl, <<s>>, End(pl, g, q), CableEnd, <<first(n), q>>)
    BY <1>5 DEF HalfOf
  <2>7. End(pl, g, q) \in EndOfPath
    BY EndIs
  <2>8. PICK rank, hops, a : rank = <<first(n), q>> /\ hops = <<s>> /\ a = End(pl, g, q)
    OBVIOUS
  <2>9. /\ rank \in Nat \X Nat /\ hops \in Seq(Hop) /\ a \in EndOfPath
        /\ c = Chain(pl, hops, a, CableEnd, rank)
    BY <2>3, <2>4, <2>6, <2>7, <2>8
  <2>10. c \in ChainRecord /\ c.hops = hops
    BY <2>5, <2>9, ChainIs
  <2> QED BY <2>1, <2>8, <2>10
<1>6. ASSUME NEW c, NEW s, OrphanOf(pl, g, c, s)
      PROVE  c \in ChainRecord /\ c.hops = <<s>> /\ s \in Strand
  <2>1. s \in Strand /\ s \in Nat
    BY <1>6, FiberGraphAssumption DEF OrphanOf, Region
  <2>2. <<s>> \in Seq(Hop) /\ <<s, 0>> \in Nat \X Nat
    BY <2>1 DEF Hop
  <2>3. CableEnd \in EndOfPath
    BY DEF CableEnd, EndOfPath
  <2> QED BY <1>6, <2>1, <2>2, <2>3, ChainIs DEF OrphanOf
<1>7. ASSUME NEW c \in chains
      PROVE  \/ \E n \in starts : FiberOf(pl, g, comp(n), first(n), c)
             \/ \E n \in starts : \E s, q : HalfOf(pl, g, comp(n), first(n), c, s, q)
             \/ \E s : OrphanOf(pl, g, c, s)
  BY WalkKinds
<1> HIDE DEF chains, comp, first
<1>8. chains \subseteq ChainRecord
  BY <1>4, <1>5, <1>6, <1>7
<1>9. ASSUME Once(g), NEW c \in chains
      PROVE  Single(c.hops)
  <2>1. ASSUME NEW s, c.hops = <<s>> PROVE Single(c.hops)
    BY <2>1 DEF Single
  <2> QED BY <2>1, <1>4, <1>5, <1>6, <1>7, <1>9
<1>10. ASSUME NEW c, NEW s, c.hops = <<s>>
       PROVE  StrandsOf(c.hops) \subseteq {s}
  BY <1>10 DEF StrandsOf, Range
<1>11. ASSUME NEW n \in starts, NEW c, FiberOf(pl, g, comp(n), first(n), c), NEW s \in StrandsOf(c.hops)
       PROVE  s \in Strand /\ \E x \in g.crossings : x.hop = s /\ x.link \subseteq comp(n) /\ x.link # {}
  BY <1>11, <1>4 DEF StrandsOf, Range
<1>12. ASSUME Once(g), NEW n \in starts, NEW c, FiberOf(pl, g, comp(n), first(n), c),
              NEW d \in chains, NEW s \in StrandsOf(c.hops) \cap StrandsOf(d.hops)
       PROVE  c = d
  <2>1. PICK x \in g.crossings : x.hop = s /\ x.link \subseteq comp(n) /\ x.link # {} /\ s \in Strand
    BY <1>11, <1>12
  <2>2. ASSUME NEW m \in starts, FiberOf(pl, g, comp(m), first(m), d)
        PROVE  c = d
    <3>1. PICK y \in g.crossings : y.hop = s /\ y.link \subseteq comp(m) /\ y.link # {}
      BY <1>11, <2>2
    <3>2. x.link = y.link
      BY <2>1, <3>1, <1>12 DEF Once
    <3>3. comp(n) = comp(m)
      BY <2>1, <3>1, <3>2, <1>3
    <3> QED BY <3>3, <1>12, <2>2 DEF FiberOf, first
  <2>3. ASSUME NEW m \in starts, NEW t, NEW q, HalfOf(pl, g, comp(m), first(m), d, t, q)
        PROVE  FALSE
    <3>1. t = s
      BY <2>3, <1>5, <1>10
    <3> QED BY <3>1, <2>1, <2>3 DEF HalfOf
  <2>4. ASSUME NEW t, OrphanOf(pl, g, d, t)
        PROVE  FALSE
    <3>1. t = s
      BY <2>4, <1>6, <1>10
    <3> QED BY <3>1, <2>1, <2>4 DEF OrphanOf, Region
  <2> QED BY <1>7, <2>2, <2>3, <2>4
<1>13. ASSUME NEW n \in starts, NEW c, NEW s, NEW q, HalfOf(pl, g, comp(n), first(n), c, s, q)
       PROVE  Landings(pl, s) = {q}
  <2>1. NoPort \in {pl.landed[s]["A"], pl.landed[s]["B"]}
    BY <1>13 DEF HalfOf, Region
  <2> QED BY <2>1, <1>13 DEF HalfOf, Landings
<1>14. ASSUME NEW n \in starts, NEW c, NEW s, NEW q, HalfOf(pl, g, comp(n), first(n), c, s, q),
              NEW m \in starts, NEW d, NEW t, NEW r, HalfOf(pl, g, comp(m), first(m), d, t, r),
              s = t
       PROVE  c = d
  <2>1. q = r
    BY <1>13, <1>14
  <2>2. q \in comp(n) \cap comp(m)
    BY <2>1, <1>14 DEF HalfOf
  <2>3. comp(n) = comp(m)
    BY <2>2, <1>3
  <2> QED BY <2>1, <2>3, <1>14 DEF HalfOf, first
<1>15. ASSUME Once(g), NEW c \in chains, NEW d \in chains, NEW s \in StrandsOf(c.hops) \cap StrandsOf(d.hops)
       PROVE  c = d
  <2>1. CASE \E n \in starts : FiberOf(pl, g, comp(n), first(n), c)
    BY <2>1, <1>12, <1>15
  <2>2. CASE \E n \in starts : FiberOf(pl, g, comp(n), first(n), d)
    BY <2>2, <1>12, <1>15
  <2>3. CASE \E t : OrphanOf(pl, g, c, t)
    <3>1. OrphanOf(pl, g, c, s) /\ Landings(pl, s) = {}
      BY <2>3, <1>6, <1>10 DEF OrphanOf
    <3>2. ASSUME NEW m \in starts, NEW t, NEW q, HalfOf(pl, g, comp(m), first(m), d, t, q)
          PROVE  FALSE
      BY <3>1, <3>2, <1>5, <1>10 DEF HalfOf
    <3>3. ASSUME NEW t, OrphanOf(pl, g, d, t)
          PROVE  c = d
      BY <3>1, <3>3, <1>6, <1>10 DEF OrphanOf
    <3> QED BY <1>7, <2>2, <3>2, <3>3, <1>12, <1>15
  <2>4. CASE \E n \in starts : \E t, q : HalfOf(pl, g, comp(n), first(n), c, t, q)
    <3>0. PICK n \in starts : \E t, q : HalfOf(pl, g, comp(n), first(n), c, t, q)
      BY <2>4
    <3>1. PICK t, q : HalfOf(pl, g, comp(n), first(n), c, t, q)
      BY <3>0
    <3>2. t = s
      BY <3>1, <1>5, <1>10
    <3>3. ASSUME NEW u, OrphanOf(pl, g, d, u)
          PROVE  FALSE
      BY <3>1, <3>2, <3>3, <1>6, <1>10 DEF OrphanOf, HalfOf
    <3>4. ASSUME NEW m \in starts, NEW u, NEW r, HalfOf(pl, g, comp(m), first(m), d, u, r)
          PROVE  c = d
      <4>1. u = s
        BY <3>4, <1>5, <1>10
      <4> QED BY <3>1, <3>2, <3>4, <4>1, <1>14
    <3> QED BY <1>7, <3>3, <3>4, <1>12, <1>15
  <2> QED BY <1>7, <2>1, <2>3, <2>4
<1>16. Once(g) => Apart(chains)
  BY <1>9, <1>15 DEF Apart
<1> QED BY <1>1, <1>8, <1>16 DEF chains

(***************************************************************************)
(* Rows.                                                                   *)
(***************************************************************************)

\* The strands of a list of hops.
LEMMA StrandsOfIs ==
    ASSUME NEW hops \in Seq(Hop), NEW s
    PROVE  s \in StrandsOf(hops) <=> s \in Strand /\ \E i \in DOMAIN hops : hops[i] = s
BY DEF StrandsOf, Range

\* What the cascade of a deletion spares.
LEMMA SparedIs ==
    ASSUME NEW hops \in Seq(Hop), NEW gone
    PROVE  /\ Spared(hops, gone) \in Seq(Hop)
           /\ Range(Spared(hops, gone)) \subseteq Range(hops)
           /\ Single(hops) => Single(Spared(hops, gone))
<1> DEFINE spared == {i \in DOMAIN hops : hops[i] \notin gone}
           out == Spared(hops, gone)
<1>1. Len(hops) \in Nat /\ DOMAIN hops = 1 .. Len(hops) /\ spared \in SUBSET (1 .. Len(hops))
  OBVIOUS
<1>2. Cardinality(spared) \in Nat
  <2>1. IsFiniteSet(1 .. Len(hops))
    <3>1. 1 \in Int /\ Len(hops) \in Int
      BY <1>1
    <3> QED BY <3>1, FS_Interval
  <2> QED BY <2>1, <1>1, FS_Subset, FS_CardinalityType
<1>3. out = [k \in 1 .. Cardinality(spared) |-> hops[Nth(spared, k)]]
  BY DEF Spared
<1> HIDE DEF out
<1>4. ASSUME NEW k \in 1 .. Cardinality(spared)
      PROVE  /\ Nth(spared, k) \in DOMAIN hops
             /\ Cardinality({j \in spared : j <= Nth(spared, k)}) = k
  <2>1. Nth(spared, k) \in spared /\ Cardinality({j \in spared : j <= Nth(spared, k)}) = k
    <3> HIDE DEF spared
    <3> QED BY <1>1, NthIs
  <2> QED BY <2>1
<1>5. out \in Seq(Hop)
  <2>1. \A k \in 1 .. Cardinality(spared) : hops[Nth(spared, k)] \in Hop
    <3>1. \A i \in DOMAIN hops : hops[i] \in Hop
      OBVIOUS
    <3> HIDE DEF spared
    <3> QED BY <3>1, <1>4
  <2>2. out \in [1 .. Cardinality(spared) -> Hop]
    BY <2>1, <1>3
  <2> HIDE DEF spared
  <2> QED BY <2>2, <1>2
<1>6. DOMAIN out = 1 .. Cardinality(spared) /\ \A k \in DOMAIN out : out[k] = hops[Nth(spared, k)]
  BY <1>3
<1>7. Range(out) \subseteq Range(hops)
  BY <1>4, <1>6 DEF Range
<1>8. ASSUME Single(hops), NEW k \in DOMAIN out, NEW l \in DOMAIN out, out[k] = out[l], out[k] \in Strand
      PROVE  k = l
  <2>1. k \in 1 .. Cardinality(spared) /\ l \in 1 .. Cardinality(spared)
    BY <1>6
  <2>2. Nth(spared, k) = Nth(spared, l)
    BY <2>1, <1>4, <1>6, <1>8 DEF Single
  <2>3. /\ Cardinality({n \in spared : n <= Nth(spared, k)}) = k
        /\ Cardinality({n \in spared : n <= Nth(spared, l)}) = l
    BY <2>1, <1>4
  <2> HIDE DEF spared
  <2> QED BY <2>2, <2>3
<1> QED BY <1>5, <1>7, <1>8 DEF out, Single

\* A chain turned round has the same hops.
LEMMA ReversedIs ==
    ASSUME NEW c \in ChainRecord
    PROVE  /\ Reversed(c) \in ChainRecord
           /\ Range(Reversed(c).hops) = Range(c.hops)
           /\ Single(c.hops) => Single(Reversed(c).hops)
<1>1. c.hops \in Seq(Hop) /\ c.a \in EndOfPath /\ c.b \in EndOfPath /\ c.bad \in BOOLEAN /\ c.rank \in Nat \X Nat
  BY DEF ChainRecord
<1>2. PICK hops : hops = c.hops
  OBVIOUS
<1>3. PICK back : back = Reverse(hops)
  OBVIOUS
<1>4. Len(hops) \in Nat /\ DOMAIN hops = 1 .. Len(hops) /\ hops \in Seq(Hop)
  BY <1>1, <1>2
<1>5. /\ DOMAIN back = 1 .. Len(hops)
      /\ \A i \in 1 .. Len(hops) : back[i] = hops[(Len(hops) - i) + 1]
  BY <1>3 DEF Reverse
<1>6. back \in Seq(Hop)
  <2>1. \A i \in 1 .. Len(hops) : (Len(hops) - i) + 1 \in 1 .. Len(hops)
    BY <1>4
  <2>2. back = [i \in 1 .. Len(hops) |-> hops[(Len(hops) - i) + 1]]
    BY <1>3 DEF Reverse
  <2>3. back \in [1 .. Len(hops) -> Hop]
    BY <2>1, <2>2, <1>4
  <2> QED BY <2>3, <1>4
<1>7. Reversed(c).hops = back
  BY <1>1, <1>2, <1>3 DEF Reversed, ChainRecord
<1>8. Reversed(c) \in ChainRecord
  BY <1>1, <1>2, <1>3, <1>6 DEF Reversed, ChainRecord
<1>9. Range(back) = Range(hops)
  <2>1. ASSUME NEW i \in 1 .. Len(hops) PROVE hops[i] \in Range(back)
    <3>1. (Len(hops) - i) + 1 \in 1 .. Len(hops) /\ (Len(hops) - ((Len(hops) - i) + 1)) + 1 = i
      BY <1>4
    <3>2. back[(Len(hops) - i) + 1] = hops[i]
      BY <3>1, <1>5
    <3> QED BY <3>1, <3>2, <1>5 DEF Range
  <2>2. ASSUME NEW i \in 1 .. Len(hops) PROVE back[i] \in Range(hops)
    <3>1. (Len(hops) - i) + 1 \in 1 .. Len(hops)
      BY <1>4
    <3> QED BY <3>1, <1>4, <1>5 DEF Range
  <2> QED BY <2>1, <2>2, <1>4, <1>5 DEF Range
<1>10. ASSUME Single(hops), NEW i \in DOMAIN back, NEW j \in DOMAIN back, back[i] = back[j], back[i] \in Strand
       PROVE  i = j
  <2>1. (Len(hops) - i) + 1 \in 1 .. Len(hops) /\ (Len(hops) - j) + 1 \in 1 .. Len(hops)
    BY <1>4, <1>5
  <2>2. (Len(hops) - i) + 1 = (Len(hops) - j) + 1
    BY <2>1, <1>4, <1>5, <1>10 DEF Single
  <2> QED BY <2>2, <1>4, <1>5
<1> QED BY <1>2, <1>7, <1>8, <1>9, <1>10 DEF Single

\* A chain oriented like a row has the same hops.
LEMMA OrientedIs ==
    ASSUME NEW c \in ChainRecord, NEW hops
    PROVE  /\ Oriented(c, hops) \in ChainRecord
           /\ Range(Oriented(c, hops).hops) = Range(c.hops)
           /\ Single(c.hops) => Single(Oriented(c, hops).hops)
<1>1. Oriented(c, hops) \in {c, Reversed(c)}
  BY DEF Oriented
<1> QED BY <1>1, ReversedIs

\* A chain makes a row.
LEMMA AsRowIs ==
    ASSUME NEW c \in ChainRecord
    PROVE  AsRow(c) \in Row /\ AsRow(c).hops = c.hops
BY DEF ChainRecord, AsRow, Row

\* One of some chains is the first in the order of the walk.
LEMMA EarliestIs ==
    ASSUME NEW S \in SUBSET ChainRecord, S # {}
    PROVE  \E c \in S : \A d \in S : Earlier(c, d)
<1>1. \A c \in S : c.rank[1] \in Nat /\ c.rank[2] \in Nat
  BY DEF ChainRecord
<1>2. PICK T : T = {c.rank[1] : c \in S}
  OBVIOUS
<1>3. T \in SUBSET Nat /\ T # {}
  BY <1>1, <1>2
<1>4. PICK n \in T : \A m \in T : n <= m
  BY <1>3, NatMin
<1>5. PICK U : U = {m \in Nat : \E c \in S : c.rank[1] = n /\ c.rank[2] = m}
  OBVIOUS
<1>6. U \in SUBSET Nat /\ U # {}
  BY <1>1, <1>2, <1>4, <1>5
<1>7. PICK m \in U : \A k \in U : m <= k
  BY <1>6, NatMin
<1>8. PICK c \in S : c.rank[1] = n /\ c.rank[2] = m
  BY <1>5, <1>7
<1>9. ASSUME NEW d \in S PROVE Earlier(c, d)
  <2>1. n <= d.rank[1]
    BY <1>2, <1>4
  <2>2. d.rank[1] = n => m <= d.rank[2]
    BY <1>1, <1>5, <1>7
  <2> QED BY <2>1, <2>2, <1>1, <1>3, <1>8, <1>4 DEF Earlier
<1> QED BY <1>9

\* The chain that keeps a row is one of the candidates, and holds the first strand of
\* the row if one of them does.
LEMMA KeeperIs ==
    ASSUME NEW S \in SUBSET ChainRecord, S # {}, NEW hops
    PROVE  /\ Keeper(hops, S) \in S
           /\ \A c \in S : Anchor(hops) \in Range(c.hops) => Anchor(hops) \in Range(Keeper(hops, S).hops)
<1>1. PICK h : h = {c \in S : Anchor(hops) \in Range(c.hops)}
  OBVIOUS
<1>2. PICK T : T = IF h # {} THEN h ELSE S
  OBVIOUS
<1>3. T \in SUBSET ChainRecord /\ T # {}
  BY <1>1, <1>2
<1>4. PICK k : k = CHOOSE c \in T : \A d \in T : Earlier(c, d)
  OBVIOUS
<1>5. k \in T
  BY <1>3, <1>4, EarliestIs
<1>6. Keeper(hops, S) = k
  BY <1>1, <1>2, <1>4 DEF Keeper
<1> QED BY <1>1, <1>2, <1>5, <1>6

(***************************************************************************)
(* Matches.                                                                *)
(***************************************************************************)

\* The keys and the fields of the stored rows.
LEMMA RowsAre ==
    ASSUME TypeOK
    PROVE  \A r \in DOMAIN rows : /\ r \in Nat \ {NoMatch} /\ r <= issued
                                  /\ rows[r] \in Row
                                  /\ rows[r].hops \in Seq(Hop)
<1>1. ASSUME NEW r \in DOMAIN rows
      PROVE  /\ r \in 1 .. issued /\ rows[r] \in Row /\ issued \in Nat
  BY DEF TypeOK
<1> QED BY <1>1 DEF NoMatch, Row

\* The row found by an end hop has that hop.
LEMMA ByEndHopIs ==
    ASSUME TypeOK, NEW inScope \in SUBSET DOMAIN rows, NEW joined \in SUBSET DOMAIN rows, NEW h
    PROVE  \/ ByEndHop(inScope, joined, h) = NoMatch
           \/ /\ ByEndHop(inScope, joined, h) \in inScope \cup joined
              /\ h \in Range(rows[ByEndHop(inScope, joined, h)].hops)
<1> DEFINE at(S) == {r \in S : rows[r].hops # <<>> /\ h \in {Head(rows[r].hops), Last(rows[r].hops)}}
<1>1. PICK S : S = IF at(inScope) # {} THEN at(inScope) ELSE at(joined)
  OBVIOUS
<1>2. S \subseteq inScope \cup joined /\ S \in SUBSET Nat
  BY <1>1, RowsAre
<1>3. ASSUME NEW r \in S PROVE h \in Range(rows[r].hops)
  <2>1. rows[r].hops \in Seq(Hop) /\ rows[r].hops # <<>> /\ h \in {Head(rows[r].hops), Last(rows[r].hops)}
    BY <1>1, <1>2, RowsAre
  <2> QED BY <2>1 DEF Range, Last
<1>4. ByEndHop(inScope, joined, h) = IF S = {} THEN NoMatch ELSE CHOOSE r \in S : \A q \in S : r <= q
  BY <1>1 DEF ByEndHop
<1>5. CASE S = {}
  BY <1>4, <1>5
<1>6. CASE S # {}
  <2>1. PICK m : m = CHOOSE r \in S : \A q \in S : r <= q
    OBVIOUS
  <2>2. m \in S
    BY <2>1, <1>2, <1>6, NatMin
  <2> QED BY <2>1, <2>2, <1>2, <1>3, <1>4, <1>6
<1> QED BY <1>5, <1>6

\* The row a chain is matched to: a row of the scope that shares one of its hops, and
\* one of its strands when the chain has one; there is one when a row has its strands.
Fits(c, scope, m) ==
    /\ m # NoMatch => /\ m \in scope
                      /\ c.hops # <<>> => Range(rows[m].hops) \cap Range(c.hops) # {}
                      /\ StrandsOf(c.hops) # {} => StrandsOf(rows[m].hops) \cap StrandsOf(c.hops) # {}
    /\ \A r \in scope : StrandsOf(rows[r].hops) \cap StrandsOf(c.hops) # {} => m # NoMatch

\* What a chain matches.
LEMMA MatchIs ==
    ASSUME TypeOK, NEW inScope \in SUBSET DOMAIN rows, NEW joined \in SUBSET DOMAIN rows,
           NEW c \in ChainRecord
    PROVE  Fits(c, inScope \cup joined, Match(c, inScope, joined))
<1> SUFFICES ASSUME NEW m, m = Match(c, inScope, joined)
             PROVE  Fits(c, inScope \cup joined, m)
  OBVIOUS
<1>1. c.hops \in Seq(Hop) /\ Len(c.hops) \in Nat /\ DOMAIN c.hops = 1 .. Len(c.hops)
  BY DEF ChainRecord
<1>2. PICK scope : scope = inScope \cup joined
  OBVIOUS
<1>3. \A r \in scope : r # NoMatch
  BY <1>2, RowsAre
<1>4. PICK stored : stored = {i \in DOMAIN c.hops : c.hops[i] \in Strand /\ \E r \in scope : c.hops[i] \in Range(rows[r].hops)}
  OBVIOUS
<1>5. m = IF stored # {} THEN CHOOSE r \in scope : c.hops[Min(stored)] \in Range(rows[r].hops)
          ELSE IF StrandsOf(c.hops) # {} THEN NoMatch
          ELSE LET first == ByEndHop(inScope, joined, Head(c.hops))
               IN  IF first # NoMatch THEN first ELSE ByEndHop(inScope, joined, Last(c.hops))
  BY <1>2, <1>4 DEF Match
<1>6. CASE stored # {}
  <2>1. stored \in SUBSET Nat
    BY <1>1, <1>4
  <2>2. PICK i \in stored : i = Min(stored)
    BY <2>1, <1>6, MinOf
  <2>3. \E r \in scope : c.hops[i] \in Range(rows[r].hops)
    BY <1>4, <2>2
  <2>4. m \in scope /\ c.hops[i] \in Range(rows[m].hops)
    BY <1>5, <1>6, <2>2, <2>3
  <2>5. i \in DOMAIN c.hops /\ c.hops[i] \in Strand
    BY <1>4, <2>2
  <2>6. c.hops[i] \in Range(c.hops)
    BY <2>5 DEF Range
  <2>7. m # NoMatch
    BY <2>4, <1>3
  <2> QED BY <2>4, <2>5, <2>6, <2>7, <1>2 DEF StrandsOf, Fits
<1>7. CASE stored = {}
  <2>1. ASSUME NEW r \in scope, NEW s \in StrandsOf(rows[r].hops) \cap StrandsOf(c.hops)
        PROVE  FALSE
    <3>1. PICK i \in DOMAIN c.hops : c.hops[i] = s /\ s \in Strand
      BY <2>1 DEF StrandsOf, Range
    <3>2. s \in Range(rows[r].hops)
      BY <2>1 DEF StrandsOf
    <3>3. i \in stored
      BY <3>1, <3>2, <1>4
    <3> QED BY <3>3, <1>7
  <2>2. CASE StrandsOf(c.hops) # {}
    BY <2>1, <2>2, <1>2, <1>5, <1>7 DEF Fits
  <2>3. CASE StrandsOf(c.hops) = {}
    <3>1. \/ m = NoMatch
          \/ /\ m \in scope
             /\ \/ Head(c.hops) \in Range(rows[m].hops)
                \/ Last(c.hops) \in Range(rows[m].hops)
      BY <2>3, <1>2, <1>5, <1>7, ByEndHopIs
    <3>2. c.hops # <<>> => Head(c.hops) \in Range(c.hops) /\ Last(c.hops) \in Range(c.hops)
      BY <1>1 DEF Range, Last
    <3> QED BY <3>1, <3>2, <2>3, <1>2 DEF Fits
  <2> QED BY <2>2, <2>3
<1> QED BY <1>2, <1>6, <1>7 DEF Fits

(***************************************************************************)
(* write_results.                                                          *)
(***************************************************************************)

\* What write_results makes of the chains: every chain row has its own chain, and no
\* other row gets hops.
Written(chains, inScope, joined, owner) ==
    LET held == DOMAIN owner
        match(c) == Match(c, inScope, joined) IN
    /\ held \subseteq DOMAIN rows'
    /\ \A r \in held : /\ owner[r] \in chains
                       /\ Range(rows'[r].hops) = Range(owner[r].hops)
                       /\ Single(owner[r].hops) => Single(rows'[r].hops)
    /\ \A r, q \in held : owner[r] = owner[q] => r = q
    /\ \A r \in DOMAIN rows' \ held :
          r \in DOMAIN rows /\ (rows'[r].hops # <<>> => r \notin inScope \cup joined /\ rows'[r] = rows[r])
    /\ \A r \in held \cap DOMAIN rows : r \in inScope \cup joined /\ match(owner[r]) = r
    /\ \A r \in held \ DOMAIN rows : match(owner[r]) # NoMatch =>
          /\ match(owner[r]) \in held
          /\ owner[match(owner[r])] =
                Keeper(rows[match(owner[r])].hops, {c \in chains : match(c) = match(owner[r])})

\* write_results gives the rows to the chains in that way.
LEMMA WriteIs ==
    ASSUME TypeOK, NEW chains \in SUBSET ChainRecord, IsFiniteSet(chains),
           NEW inScope \in SUBSET DOMAIN rows, NEW joined \in SUBSET DOMAIN rows,
           WriteResults(chains, inScope, joined)
    PROVE  /\ TypeOK' \/ unheard' \notin BOOLEAN
           /\ \E owner : Written(chains, inScope, joined, owner)
<1> DEFINE scope == inScope \cup joined
           mt(c) == Match(c, inScope, joined)
           match == [c \in chains |-> mt(c)]
           found == {match[c] : c \in chains} \ {NoMatch}
           claims(r) == {c \in chains : match[c] = r}
           keeper == [r \in found |-> Keeper(rows[r].hops, claims(r))]
           new == chains \ {keeper[r] : r \in found}
           key(c) == issued + Cardinality({d \in new : Earlier(d, c)})
           lost == Dropped(scope \ found)
           fresh(r) == CHOOSE c \in new : key(c) = r
<1>1. /\ rows' = [r \in (DOMAIN rows \ lost) \cup {key(c) : c \in new} |->
                      IF r > issued THEN AsRow(fresh(r))
                      ELSE IF r \in found THEN AsRow(Oriented(keeper[r], rows[r].hops))
                      ELSE IF r \in scope THEN HopLess(rows[r])
                      ELSE rows[r]]
      /\ issued' = issued + Cardinality(new)
      /\ dirty' = {}
      /\ plant' = plant /\ assigned' = assigned /\ changes' = changes
  BY DEF WriteResults
<1>2. \A c \in chains : match[c] = mt(c)
  OBVIOUS
<1>3. found \subseteq scope /\ scope \subseteq DOMAIN rows
  <2>1. \A c \in chains : mt(c) # NoMatch => mt(c) \in scope
    BY MatchIs DEF Fits
  <2> HIDE DEF mt, scope
  <2> QED BY <2>1 DEF scope
<1>4. ASSUME NEW r \in found
      PROVE  /\ keeper[r] = Keeper(rows[r].hops, claims(r)) /\ keeper[r] \in chains
             /\ mt(keeper[r]) = r
  <2>1. claims(r) # {} /\ claims(r) \in SUBSET ChainRecord
    OBVIOUS
  <2>2. keeper[r] = Keeper(rows[r].hops, claims(r))
    OBVIOUS
  <2>3. keeper[r] \in claims(r)
    <3> HIDE DEF claims, keeper
    <3> QED BY <2>1, <2>2, KeeperIs
  <2> HIDE DEF keeper, mt
  <2> QED BY <2>2, <2>3, <1>2
<1>5. \A c \in new : c \in chains /\ c \in ChainRecord
  OBVIOUS
<1>6. IsFiniteSet(new) /\ Cardinality(new) \in Nat /\ issued \in Nat
  BY FS_Subset, FS_CardinalityType DEF TypeOK
<1> HIDE DEF mt, match, found, keeper, new
<1>7. ASSUME NEW c \in new
      PROVE  key(c) \in issued + 1 .. issued + Cardinality(new) /\ key(c) > issued /\ key(c) \in Nat
  <2>1. PICK S : S = {d \in new : Earlier(d, c)}
    OBVIOUS
  <2>2. c.rank[1] \in Nat /\ c.rank[2] \in Nat
    BY <1>5 DEF ChainRecord
  <2>3. c \in S
    BY <2>1, <2>2 DEF Earlier
  <2>4. S \in SUBSET new /\ S # {}
    BY <2>1, <2>3
  <2>5. IsFiniteSet(S) /\ Cardinality(S) \in Nat /\ Cardinality(S) <= Cardinality(new)
    BY <2>4, <1>6, FS_Subset, FS_CardinalityType
  <2>6. Cardinality(S) # 0
    BY <2>4, <2>5, FS_EmptySet
  <2>7. key(c) = issued + Cardinality(S)
    BY <2>1
  <2> HIDE DEF key
  <2> QED BY <2>5, <2>6, <2>7, <1>6
<1>8. \A r \in DOMAIN rows : r \in Nat /\ r <= issued /\ r # NoMatch
  BY RowsAre
<1> HIDE DEF key, scope, claims, lost
<1>9. ASSUME NEW r \in DOMAIN rows', r > issued
      PROVE  fresh(r) \in new /\ r \in issued + 1 .. issued + Cardinality(new) /\ rows'[r] = AsRow(fresh(r))
                /\ key(fresh(r)) = r
  <2>1. r \in (DOMAIN rows \ lost) \cup {key(c) : c \in new}
    BY <1>1
  <2>2. r \notin DOMAIN rows
    BY <1>8, <1>9, <1>6
  <2>3. PICK c \in new : key(c) = r
    BY <2>1, <2>2
  <2>4. fresh(r) \in new /\ key(fresh(r)) = r
    BY <2>3
  <2> HIDE DEF fresh
  <2> QED BY <2>1, <2>3, <2>4, <1>1, <1>7, <1>9
<1>10. ASSUME NEW r \in DOMAIN rows', ~ r > issued
       PROVE  /\ r \in DOMAIN rows
              /\ rows'[r] = IF r \in found THEN AsRow(Oriented(keeper[r], rows[r].hops))
                            ELSE IF r \in scope THEN HopLess(rows[r])
                            ELSE rows[r]
  <2>1. r \in (DOMAIN rows \ lost) \cup {key(c) : c \in new}
    BY <1>1
  <2>2. r \notin {key(c) : c \in new}
    BY <1>7, <1>10
  <2> HIDE DEF fresh
  <2> QED BY <2>1, <2>2, <1>1, <1>10
<1>11. DOMAIN rows \ lost \subseteq DOMAIN rows' /\ {key(c) : c \in new} \subseteq DOMAIN rows'
  BY <1>1
<1>12. found \subseteq DOMAIN rows' /\ assigned \subseteq DOMAIN rows'
  <2>1. found \cap lost = {} /\ assigned \cap lost = {}
    BY DEF lost, Dropped
  <2>2. assigned \subseteq DOMAIN rows
    BY DEF TypeOK
  <2> QED BY <2>1, <2>2, <1>3, <1>11
<1> HIDE DEF fresh
<1>13. ASSUME NEW r \in DOMAIN rows'
       PROVE  r \in 1 .. issued' /\ rows'[r] \in Row
  <2>1. CASE r > issued
    <3>1. rows'[r] \in Row
      BY <2>1, <1>9, <1>5, AsRowIs
    <3> QED BY <3>1, <2>1, <1>1, <1>6, <1>9
  <2>2. CASE ~ r > issued
    <3>1. r \in DOMAIN rows /\ rows[r] \in Row
      BY <2>2, <1>10, RowsAre
    <3>2. r \in 1 .. issued'
      BY <3>1, <1>1, <1>6, <1>8 DEF NoMatch
    <3>3. CASE r \in found
      <4>1. Oriented(keeper[r], rows[r].hops) \in ChainRecord
        BY <3>3, <1>4, OrientedIs
      <4> QED BY <4>1, <3>2, <3>3, <2>2, <1>10, AsRowIs
    <3>4. HopLess(rows[r]) \in Row
      <4>1. PICK row : row = rows[r]
        OBVIOUS
      <4>2. <<>> \in Seq(Hop)
        OBVIOUS
      <4> QED BY <3>1, <4>1, <4>2 DEF HopLess, Row
    <3> QED BY <3>1, <3>2, <3>3, <3>4, <2>2, <1>10
  <2> QED BY <2>1, <2>2
<1>14. TypeOK' \/ unheard' \notin BOOLEAN
  <2>1. SUFFICES ASSUME unheard' \in BOOLEAN
                 PROVE  TypeOK'
    OBVIOUS
  <2>2. issued' \in Nat
    BY <1>1, <1>6
  <2>3. DOMAIN rows' \subseteq 1 .. issued' /\ \A r \in DOMAIN rows' : rows'[r] \in Row
    BY <1>13
  <2>4. plant' \in Plant /\ changes' \in 0 .. MaxChanges /\ assigned' \subseteq DOMAIN rows' /\ dirty' \subseteq Device
    BY <1>1, <1>12 DEF TypeOK
  <2> QED BY <2>1, <2>2, <2>3, <2>4 DEF TypeOK
<1>15. PICK held : held = found \cup {r \in DOMAIN rows' : r > issued}
  OBVIOUS
<1>16. PICK owner : owner = [r \in held |-> IF r > issued THEN fresh(r) ELSE keeper[r]]
  OBVIOUS
<1>17. DOMAIN owner = held /\ held \subseteq DOMAIN rows'
  BY <1>15, <1>16, <1>12
<1>18. ASSUME NEW r \in held
       PROVE  \/ r > issued /\ r \notin DOMAIN rows /\ r \notin found /\ owner[r] = fresh(r) /\ fresh(r) \in new
              \/ ~ r > issued /\ r \in DOMAIN rows /\ r \in found /\ owner[r] = keeper[r]
  <2>1. CASE r > issued
    <3>1. r \notin DOMAIN rows
      BY <2>1, <1>8, <1>6
    <3> QED BY <3>1, <2>1, <1>3, <1>9, <1>16, <1>17
  <2>2. CASE ~ r > issued
    BY <2>2, <1>3, <1>15, <1>16
  <2> QED BY <2>1, <2>2
<1>19. ASSUME NEW r \in held
       PROVE  /\ owner[r] \in chains
              /\ Range(rows'[r].hops) = Range(owner[r].hops)
              /\ Single(owner[r].hops) => Single(rows'[r].hops)
  <2>1. CASE r > issued
    <3>1. owner[r] = fresh(r) /\ fresh(r) \in chains /\ fresh(r) \in ChainRecord
      BY <2>1, <1>18, <1>5
    <3>2. rows'[r] = AsRow(fresh(r))
      BY <2>1, <1>9, <1>17
    <3> QED BY <3>1, <3>2, AsRowIs
  <2>2. CASE ~ r > issued
    <3>1. r \in found /\ owner[r] = keeper[r] /\ keeper[r] \in chains /\ keeper[r] \in ChainRecord
      BY <2>2, <1>18, <1>4
    <3>2. rows'[r] = AsRow(Oriented(keeper[r], rows[r].hops))
      BY <3>1, <2>2, <1>10, <1>17
    <3> QED BY <3>1, <3>2, AsRowIs, OrientedIs
  <2> QED BY <2>1, <2>2
<1>20. \A r \in found : keeper[r] \notin new
  BY DEF new
<1>21. ASSUME NEW r \in held, NEW q \in held, owner[r] = owner[q]
       PROVE  r = q
  <2>1. CASE r > issued /\ q > issued
    BY <2>1, <1>9, <1>17, <1>18, <1>21
  <2>2. CASE ~ r > issued /\ ~ q > issued
    BY <2>2, <1>4, <1>18, <1>21
  <2> QED BY <2>1, <2>2, <1>18, <1>20, <1>21
<1>22. ASSUME NEW r \in DOMAIN rows' \ held
       PROVE  r \in DOMAIN rows /\ (rows'[r].hops # <<>> => r \notin scope /\ rows'[r] = rows[r])
  <2>1. ~ r > issued /\ r \notin found
    BY <1>15
  <2>2. r \in DOMAIN rows /\ rows[r] \in Row
    BY <2>1, <1>10, RowsAre
  <2>3. HopLess(rows[r]).hops = <<>>
    BY <2>2 DEF HopLess, Row
  <2> QED BY <2>1, <2>2, <2>3, <1>10
<1>23. ASSUME NEW r \in held \cap DOMAIN rows
       PROVE  r \in scope /\ mt(owner[r]) = r
  BY <1>3, <1>4, <1>18
<1>24. ASSUME NEW r \in held \ DOMAIN rows, mt(owner[r]) # NoMatch
       PROVE  /\ mt(owner[r]) \in held
              /\ owner[mt(owner[r])] = Keeper(rows[mt(owner[r])].hops, {c \in chains : mt(c) = mt(owner[r])})
  <2>1. owner[r] \in chains
    BY <1>19
  <2>2. PICK m : m = mt(owner[r])
    OBVIOUS
  <2>3. m \in found /\ m \in held
    BY <2>1, <2>2, <1>2, <1>24, <1>15 DEF found
  <2>4. m \in DOMAIN rows /\ owner[m] = keeper[m]
    BY <2>3, <1>3, <1>18
  <2>5. claims(m) = {c \in chains : mt(c) = m}
    BY <1>2 DEF claims
  <2> QED BY <2>2, <2>3, <2>4, <2>5, <1>4
<1>25. Written(chains, inScope, joined, owner)
  BY <1>17, <1>19, <1>21, <1>22, <1>23, <1>24 DEF Written, mt, scope
<1> QED BY <1>14, <1>25

(***************************************************************************)
(* Changes of the plant.                                                   *)
(***************************************************************************)

\* Cables and jumpers end on devices.
LEMMA CableDevicesIs ==
    ASSUME NEW pl \in Plant, NEW k \in Cable
    PROVE  CableDevices(pl, k) \subseteq Device
<1>1. pl.sides[k] \subseteq {"A", "B"}
  BY DEF Plant
<1>2. Positions[k] \subseteq RearPos \X RearPos
  BY FiberGraphAssumption
<1>3. \A x \in Positions[k] : DeviceOf[x[1]] \in Device /\ DeviceOf[x[2]] \in Device
  BY <1>2 DEF Device, Node
<1>4. EndDevices(k)["A"] \subseteq Device /\ EndDevices(k)["B"] \subseteq Device
  BY <1>3 DEF EndDevices
<1> QED BY <1>1, <1>4 DEF CableDevices

\* Jumpers end on devices.
LEMMA JumperDevicesIs ==
    ASSUME NEW j \in Jumper
    PROVE  JumperDevices(j) \subseteq Device
<1>1. j[1] \subseteq FrontPort /\ j[2] \subseteq FrontPort
  BY FiberGraphAssumption
<1> QED BY <1>1 DEF JumperDevices, JumperPorts, Device, Node

\* Strands land on front ports.
LEMMA LandingsAre ==
    ASSUME NEW pl \in Plant, NEW s \in Strand
    PROVE  Landings(pl, s) \subseteq FrontPort
<1>1. pl.landed[s] \in [{"A", "B"} -> FrontPort \cup {NoPort}]
  BY DEF Plant
<1> QED BY <1>1 DEF Landings

\* Every change of the plant is a commit that leaves a plant and queues devices.
LEMMA ChangeIs ==
    ASSUME TypeOK, PlantChange
    PROVE  \E pl \in Plant : \E gone, touched : \E devs \in SUBSET Device : Commit(pl, gone, touched, devs)
<1>1. plant \in Plant
  BY DEF TypeOK
<1>2. /\ plant.cables \in SUBSET Cable /\ plant.fiber \in SUBSET Cable
      /\ plant.sides \in [Cable -> SUBSET {"A", "B"}]
      /\ plant.landed \in [Strand -> [{"A", "B"} -> FrontPort \cup {NoPort}]]
      /\ plant.jumpers \in SUBSET Jumper /\ plant.faults \in SUBSET Hop
  BY <1>1 DEF Plant
<1>3. ASSUME NEW pl \in Plant, NEW gone, NEW devs \in SUBSET Device, Heard(pl, gone, devs)
      PROVE  \E p \in Plant : \E g, touched : \E d \in SUBSET Device : Commit(p, g, touched, d)
  BY <1>3 DEF Heard
<1>4. ASSUME NEW k \in Cable, NEW side \in {"A", "B"}, Terminate(k, side)
      PROVE  \E pl \in Plant : \E gone : \E devs \in SUBSET Device : Heard(pl, gone, devs)
  <2>1. PICK pl : pl = [plant EXCEPT !.sides[k] = @ \cup {side}]
    OBVIOUS
  <2>2. pl \in Plant
    BY <1>1, <1>2, <2>1 DEF Plant
  <2> QED BY <1>4, <2>1, <2>2, CableDevicesIs DEF Terminate
<1>5. ASSUME NEW k \in Cable, NEW side \in {"A", "B"}, Detach(k, side)
      PROVE  \E pl \in Plant : \E gone : \E devs \in SUBSET Device : Heard(pl, gone, devs)
  <2>1. PICK pl : pl = [plant EXCEPT !.sides[k] = @ \ {side}]
    OBVIOUS
  <2>2. pl \in Plant
    BY <1>1, <1>2, <2>1 DEF Plant
  <2> QED BY <1>1, <1>5, <2>1, <2>2, CableDevicesIs DEF Detach
<1>6. ASSUME NEW gone PROVE [s \in Strand |-> IF s \in gone THEN Off ELSE plant.landed[s]]
                               \in [Strand -> [{"A", "B"} -> FrontPort \cup {NoPort}]]
  BY <1>2 DEF Off
<1>7. ASSUME NEW k \in Cable, DeleteCable(k)
      PROVE  \E pl \in Plant : \E gone : \E devs \in SUBSET Device : Heard(pl, gone, devs)
  <2>1. PICK gone : gone = {k} \cup StrandsOn(k)
    OBVIOUS
  <2>2. PICK landed : landed = [s \in Strand |-> IF s \in gone THEN Off ELSE plant.landed[s]]
    OBVIOUS
  <2>3. PICK pl : pl = [plant EXCEPT !.cables = @ \ {k}, !.fiber = @ \ {k}, !.sides[k] = {},
                           !.landed = landed, !.faults = @ \ gone]
    OBVIOUS
  <2>4. pl \in Plant
    BY <1>1, <1>2, <1>6, <2>2, <2>3 DEF Plant
  <2>5. Heard(pl, gone, CableDevices(plant, k))
    BY <1>7, <2>1, <2>2, <2>3 DEF DeleteCable
  <2> QED BY <1>1, <2>4, <2>5, CableDevicesIs
<1>8. ASSUME NEW k \in Cable, DeleteFiberCable(k)
      PROVE  \E pl \in Plant : \E gone : \E devs \in SUBSET Device : Heard(pl, gone, devs)
  <2>1. PICK landed : landed = [s \in Strand |-> IF CableOf[s] = k THEN Off ELSE plant.landed[s]]
    OBVIOUS
  <2>2. landed \in [Strand -> [{"A", "B"} -> FrontPort \cup {NoPort}]]
    BY <1>2, <2>1 DEF Off
  <2>3. PICK pl : pl = [plant EXCEPT !.fiber = @ \ {k}, !.landed = landed,
                                     !.faults = @ \ ({k} \cup StrandsOn(k))]
    OBVIOUS
  <2>4. pl \in Plant
    BY <1>1, <1>2, <2>2, <2>3 DEF Plant
  <2>5. Heard(pl, StrandsOn(k), CableDevices(plant, k))
    BY <1>8, <2>1, <2>3 DEF DeleteFiberCable
  <2> QED BY <1>1, <2>4, <2>5, CableDevicesIs
<1>9. ASSUME NEW j \in Jumper, Splice(j) \/ Unsplice(j)
      PROVE  \E pl \in Plant : \E gone : \E devs \in SUBSET Device : Heard(pl, gone, devs)
  <2>1. [plant EXCEPT !.jumpers = @ \cup {j}] \in Plant /\ [plant EXCEPT !.jumpers = @ \ {j}] \in Plant
    BY <1>1, <1>2 DEF Plant
  <2> QED BY <1>9, <2>1, JumperDevicesIs DEF Splice, Unsplice
<1>10. ASSUME NEW s \in Strand, NEW side \in {"A", "B"}, NEW q \in MayLand[s][side] \cup {NoPort},
              Land(s, side, q)
       PROVE  \E pl \in Plant : \E gone, touched : \E devs \in SUBSET Device : Commit(pl, gone, touched, devs)
  <2>1. q \in FrontPort \cup {NoPort}
    BY PathStoreAssumption
  <2>2. PICK pl : pl = [plant EXCEPT !.landed[s][side] = q]
    OBVIOUS
  <2>3. pl \in Plant
    <3>1. PICK at : at = [plant.landed[s] EXCEPT ![side] = q]
      OBVIOUS
    <3>2. at \in [{"A", "B"} -> FrontPort \cup {NoPort}]
      BY <1>2, <2>1, <3>1
    <3>3. PICK landed : landed = [plant.landed EXCEPT ![s] = at]
      OBVIOUS
    <3>4. landed \in [Strand -> [{"A", "B"} -> FrontPort \cup {NoPort}]]
      BY <1>2, <3>2, <3>3
    <3>5. pl = [plant EXCEPT !.landed = landed]
      BY <2>2, <3>1, <3>3
    <3> QED BY <1>1, <3>4, <3>5 DEF Plant
  <2>4. PICK devs : devs = {DeviceOf[r] : r \in Landings(pl, s)}
    OBVIOUS
  <2>5. devs \in SUBSET Device
    BY <2>3, <2>4, LandingsAre DEF Device, Node
  <2>6. Commit(pl, {}, {DeviceOf[r] : r \in Landings(plant, s)}, devs)
    BY <1>10, <2>2, <2>4 DEF Land
  <2> QED BY <2>3, <2>5, <2>6
<1>11. ASSUME NEW h \in Hop, Report(h) \/ Resolve(h)
       PROVE  \E pl \in Plant : \E gone : \E devs \in SUBSET Device : Heard(pl, gone, devs)
  <2>1. [plant EXCEPT !.faults = @ \cup {h}] \in Plant /\ [plant EXCEPT !.faults = @ \ {h}] \in Plant
    BY <1>1, <1>2 DEF Plant
  <2>2. CableOfHop(h) \in Cable
    BY FiberGraphAssumption DEF CableOfHop, Hop
  <2> QED BY <1>1, <1>11, <2>1, <2>2, CableDevicesIs DEF Report, Resolve
<1> QED BY <1>3, <1>4, <1>5, <1>7, <1>8, <1>9, <1>10, <1>11 DEF PlantChange

(***************************************************************************)
(* The two analyses.                                                       *)
(***************************************************************************)

\* What an analysis hands to write_results: chains of the plant, each strand on one of
\* them at most, and a scope that has every row with one of their strands.
Analyzed(chains, inScope, joined) ==
    /\ IsFiniteSet(chains)
    /\ CrossesOnce(plant) => Apart(chains)
    /\ \A r \in DOMAIN rows \ (inScope \cup joined) : \A c \in chains :
          StrandsOf(rows[r].hops) \cap StrandsOf(c.hops) = {}
    /\ WriteResults(chains, inScope, joined)

\* What analyze_devices hands to write_results.
LEMMA RunIs ==
    ASSUME TypeOK, Run
    PROVE  \E chains \in SUBSET ChainRecord : \E inScope \in SUBSET DOMAIN rows : \E joined \in SUBSET DOMAIN rows :
              Analyzed(chains, inScope, joined)
<1>1. plant \in Plant
  BY DEF TypeOK
<1>2. PICK g : g = Load(plant, dirty)
  OBVIOUS
<1>3. Region(plant, g) /\ (CrossesOnce(plant) => Once(g))
  BY <1>1, <1>2, LoadIs
<1>4. PICK inScope : inScope = {r \in DOMAIN rows : PathDevices(plant, rows[r]) \cap dirty # {}}
  OBVIOUS
<1>5. PICK starts : starts = {q \in FrontPort : DeviceOf[q] \in dirty}
                     \cup (UNION {Ports(rows[r]) : r \in inScope})
                     \cup (UNION {Landings(plant, s) : s \in
                             g.strands \cap (UNION {StrandsOf(rows[r].hops) : r \in inScope})})
  OBVIOUS
<1>6. starts \in SUBSET Node
  <2>1. \A r \in inScope : Ports(rows[r]) \subseteq Node
    <3>1. ASSUME NEW r \in inScope PROVE Ports(rows[r]) \subseteq Node
      <4>1. rows[r] \in Row
        BY <1>4, RowsAre
      <4>2. PICK row : row = rows[r]
        OBVIOUS
      <4>3. row.a.port \in FrontPort \cup {NoPort} /\ row.b.port \in FrontPort \cup {NoPort}
        BY <4>1, <4>2 DEF Row, EndOfPath
      <4> QED BY <4>2, <4>3 DEF Ports, Node
    <3> QED BY <3>1
  <2>2. \A s \in g.strands : Landings(plant, s) \subseteq Node
    BY <1>1, <1>3, LandingsAre DEF Region, Node
  <2> QED BY <1>5, <2>1, <2>2 DEF Node
<1>7. PICK chains : chains = Walk(plant, g, starts)
  OBVIOUS
<1>8. IsFiniteSet(chains) /\ chains \subseteq ChainRecord /\ (CrossesOnce(plant) => Apart(chains))
  BY <1>3, <1>6, <1>7, WalkIs
<1>9. PICK strands : strands = UNION {StrandsOf(c.hops) : c \in chains}
  OBVIOUS
<1>10. PICK joined : joined = Joined(strands, inScope)
  OBVIOUS
<1>11. joined = {r \in DOMAIN rows \ inScope : StrandsOf(rows[r].hops) \cap strands # {}}
  BY <1>10 DEF Joined
<1>12. WriteResults(chains, inScope, joined)
  BY <1>2, <1>4, <1>5, <1>7, <1>9, <1>10 DEF Run
<1>13. ASSUME NEW r \in DOMAIN rows \ (inScope \cup joined), NEW c \in chains
       PROVE  StrandsOf(rows[r].hops) \cap StrandsOf(c.hops) = {}
  <2>1. StrandsOf(rows[r].hops) \cap strands = {}
    BY <1>11
  <2>2. StrandsOf(c.hops) \subseteq strands
    BY <1>9
  <2> QED BY <2>1, <2>2
<1>14. inScope \in SUBSET DOMAIN rows /\ joined \in SUBSET DOMAIN rows
  BY <1>4, <1>11
<1>15. Analyzed(chains, inScope, joined)
  BY <1>8, <1>12, <1>13 DEF Analyzed
<1> QED BY <1>8, <1>14, <1>15

\* What run_reconcile hands to write_results: every row is in its scope.
LEMMA ReconcileIs ==
    ASSUME TypeOK, Reconcile
    PROVE  \E chains \in SUBSET ChainRecord : Analyzed(chains, DOMAIN rows, {})
<1>1. plant \in Plant
  BY DEF TypeOK
<1>2. PICK g : g = LoadAll(plant, rows)
  OBVIOUS
<1>3. Region(plant, g) /\ (CrossesOnce(plant) => Once(g))
  BY <1>1, <1>2, LoadIs DEF LoadAll
<1>4. PICK starts : starts = (UNION g.links) \cup (UNION {Landings(plant, s) : s \in g.strands})
  OBVIOUS
<1>5. starts \in SUBSET Node
  <2>1. UNION g.links \subseteq Node
    BY <1>3 DEF Region, Linking
  <2>2. \A s \in g.strands : Landings(plant, s) \subseteq Node
    BY <1>1, <1>3, LandingsAre DEF Region, Node
  <2> QED BY <1>4, <2>1, <2>2
<1>6. PICK chains : chains = Walk(plant, g, starts)
  OBVIOUS
<1>7. IsFiniteSet(chains) /\ chains \subseteq ChainRecord /\ (CrossesOnce(plant) => Apart(chains))
  BY <1>3, <1>5, <1>6, WalkIs
<1>8. WriteResults(chains, DOMAIN rows, {})
  BY <1>2, <1>4, <1>6 DEF Reconcile, WalkAll
<1> QED BY <1>7, <1>8 DEF Analyzed

\* Both analyses, and what their rows become.
LEMMA AnalysisIs ==
    ASSUME TypeOK, Run \/ Reconcile
    PROVE  /\ TypeOK'
           /\ \E chains \in SUBSET ChainRecord : \E inScope \in SUBSET DOMAIN rows : \E joined \in SUBSET DOMAIN rows :
                 /\ Analyzed(chains, inScope, joined)
                 /\ \E owner : Written(chains, inScope, joined, owner)
<1>1. PICK chains \in SUBSET ChainRecord :
         \E inScope \in SUBSET DOMAIN rows : \E joined \in SUBSET DOMAIN rows : Analyzed(chains, inScope, joined)
  <2>1. {} \in SUBSET DOMAIN rows /\ DOMAIN rows \in SUBSET DOMAIN rows
    OBVIOUS
  <2> QED BY <2>1, RunIs, ReconcileIs
<1>2. PICK inScope \in SUBSET DOMAIN rows : \E joined \in SUBSET DOMAIN rows : Analyzed(chains, inScope, joined)
  BY <1>1
<1>3. PICK joined \in SUBSET DOMAIN rows : Analyzed(chains, inScope, joined)
  BY <1>2
<1>4. IsFiniteSet(chains) /\ WriteResults(chains, inScope, joined)
  BY <1>3 DEF Analyzed
<1>5. (TypeOK' \/ unheard' \notin BOOLEAN) /\ \E owner : Written(chains, inScope, joined, owner)
  BY <1>4, WriteIs
<1>6. unheard' \in BOOLEAN
  BY DEF Run, Reconcile, TypeOK
<1> QED BY <1>3, <1>5, <1>6

(***************************************************************************)
(* Types.                                                                  *)
(***************************************************************************)

\* The first strand of a path is one of its strands.
LEMMA AnchorIs ==
    ASSUME NEW hops \in Seq(Hop), StrandsOf(hops) # {}
    PROVE  Anchor(hops) \in StrandsOf(hops)
<1>1. PICK I : I = {i \in DOMAIN hops : hops[i] \in Strand}
  OBVIOUS
<1>2. I \in SUBSET Nat /\ I # {}
  BY <1>1, StrandsOfIs
<1>3. PICK i \in I : i = Min(I)
  BY <1>2, MinOf
<1>4. Anchor(hops) = hops[i]
  BY <1>1, <1>2, <1>3 DEF Anchor
<1> QED BY <1>1, <1>3, <1>4, StrandsOfIs

\* A commit only takes hops away.
Shortened ==
    /\ DOMAIN rows' = DOMAIN rows
    /\ assigned' = assigned
    /\ \A r \in DOMAIN rows : /\ Range(rows'[r].hops) \subseteq Range(rows[r].hops)
                              /\ Single(rows[r].hops) => Single(rows'[r].hops)

\* Every commit of a change does.
LEMMA CommitIs ==
    ASSUME TypeOK, NEW pl \in Plant, NEW gone, NEW touched, NEW devs \in SUBSET Device,
           Commit(pl, gone, touched, devs)
    PROVE  TypeOK' /\ Shortened
<1>1. ASSUME NEW r \in DOMAIN rows
      PROVE  /\ [rows[r] EXCEPT !.hops = Spared(@, gone)] \in Row
             /\ Range([rows[r] EXCEPT !.hops = Spared(@, gone)].hops) \subseteq Range(rows[r].hops)
             /\ Single(rows[r].hops) => Single([rows[r] EXCEPT !.hops = Spared(@, gone)].hops)
  <2>1. PICK row \in Row : row = rows[r]
    BY RowsAre
  <2>2. row.hops \in Seq(Hop)
    BY DEF Row
  <2>3. PICK hops : hops = Spared(row.hops, gone)
    OBVIOUS
  <2>4. hops \in Seq(Hop) /\ Range(hops) \subseteq Range(row.hops) /\ (Single(row.hops) => Single(hops))
    BY <2>2, <2>3, SparedIs
  <2>5. PICK short : short = [row EXCEPT !.hops = hops]
    OBVIOUS
  <2>6. short \in Row /\ short.hops = hops
    BY <2>4, <2>5 DEF Row
  <2>7. short = [rows[r] EXCEPT !.hops = Spared(@, gone)]
    BY <2>1, <2>3, <2>5
  <2> QED BY <2>1, <2>4, <2>6, <2>7
<1>2. rows' = [r \in DOMAIN rows |-> [rows[r] EXCEPT !.hops = Spared(@, gone)]]
  BY DEF Commit, Without
<1>3. DOMAIN rows' = DOMAIN rows
      /\ \A r \in DOMAIN rows : rows'[r] = [rows[r] EXCEPT !.hops = Spared(@, gone)]
  BY <1>2
<1>4. /\ plant' \in Plant /\ issued' = issued /\ assigned' = assigned
      /\ changes' \in 0 .. MaxChanges /\ unheard' \in BOOLEAN
  <2>1. plant' = pl /\ issued' = issued /\ assigned' = assigned
    BY DEF Commit
  <2>2. changes' \in 0 .. MaxChanges
    <3>1. changes \in 0 .. MaxChanges /\ changes < MaxChanges /\ changes' = changes + 1
      BY DEF Commit, TypeOK
    <3>2. MaxChanges \in Nat
      BY PathStoreAssumption
    <3> QED BY <3>1, <3>2
  <2>3. unheard' \in BOOLEAN
    BY DEF Commit, TypeOK
  <2> QED BY <2>1, <2>2, <2>3
<1>5. dirty \subseteq Device => dirty' \subseteq Device
  BY DEF Commit, Relevant
<1>6. \A r \in DOMAIN rows' : rows'[r] \in Row
  BY <1>1, <1>3
<1>7. TypeOK'
  BY <1>3, <1>4, <1>5, <1>6 DEF TypeOK
<1>8. \A r \in DOMAIN rows : /\ Range(rows'[r].hops) \subseteq Range(rows[r].hops)
                             /\ Single(rows[r].hops) => Single(rows'[r].hops)
  BY <1>1, <1>3
<1> QED BY <1>3, <1>4, <1>7, <1>8 DEF Shortened

\* A change of the plant, as the rows see it.
LEMMA ChangeShortens ==
    ASSUME TypeOK, PlantChange
    PROVE  TypeOK' /\ Shortened
<1>1. PICK pl \in Plant : \E gone, touched : \E devs \in SUBSET Device : Commit(pl, gone, touched, devs)
  BY ChangeIs
<1>2. PICK gone, touched : \E devs \in SUBSET Device : Commit(pl, gone, touched, devs)
  BY <1>1
<1>3. PICK devs \in SUBSET Device : Commit(pl, gone, touched, devs)
  BY <1>2
<1> QED BY <1>3, CommitIs

\* The initial state has its types.
LEMMA TypeInit == Init => TypeOK
<1> SUFFICES ASSUME Init PROVE TypeOK
  OBVIOUS
<1>1. plant \in Plant
  BY PathStoreAssumption DEF Init
<1>2. FiberDevices(plant) \subseteq Device
  <2>1. \A k \in plant.fiber : k \in Cable
    BY <1>1 DEF Plant
  <2> QED BY <1>1, <2>1, CableDevicesIs DEF FiberDevices
<1>3. DOMAIN rows = {} /\ assigned = {} /\ issued = 0 /\ changes = 0 /\ unheard = FALSE
  BY DEF Init
<1>4. 0 \in 0 .. MaxChanges
  BY PathStoreAssumption
<1>5. dirty \subseteq Device
  BY <1>2 DEF Init
<1> QED BY <1>1, <1>3, <1>4, <1>5 DEF TypeOK

\* Every step keeps the types.
LEMMA TypeStep ==
    ASSUME TypeOK, [Next]_vars
    PROVE  TypeOK'
<1>1. CASE PlantChange
  BY <1>1, ChangeShortens
<1>2. CASE \E r \in DOMAIN rows : Assign(r) \/ Unassign(r)
  BY <1>2 DEF Assign, Unassign, TypeOK
<1>3. CASE Run \/ Reconcile
  BY <1>3, AnalysisIs
<1>4. CASE UNCHANGED vars
  BY <1>4 DEF vars, TypeOK
<1> QED BY <1>1, <1>2, <1>3, <1>4 DEF Next

\* Stored rows stay rows of their own fields, under the keys handed out, and the assigned
\* ones exist: no change of the plant and no analysis leaves a malformed path.
THEOREM TypeCorrect == Spec => []TypeOK
<1>1. TypeOK /\ [Next]_vars => TypeOK'
  BY TypeStep
<1> QED BY <1>1, TypeInit, PTL DEF Spec

(***************************************************************************)
(* One row for a strand.                                                   *)
(***************************************************************************)

\* The inductive invariant of the rows: no strand twice on a row, none on two.
OneRow ==
    /\ \A r \in DOMAIN rows : Single(rows[r].hops)
    /\ \A r, q \in DOMAIN rows : StrandsOf(rows[r].hops) \cap StrandsOf(rows[q].hops) # {} => r = q

\* There are no rows at first.
LEMMA OneRowInit == Init => OneRow
<1> SUFFICES ASSUME Init PROVE OneRow
  OBVIOUS
<1>1. DOMAIN rows = {}
  BY DEF Init
<1> QED BY <1>1 DEF OneRow

\* Rows that only lose hops share no more strands than before.
LEMMA OneRowShortened ==
    ASSUME OneRow, Shortened
    PROVE  OneRow'
<1>1. \A r \in DOMAIN rows' : Single(rows'[r].hops)
  BY DEF OneRow, Shortened
<1>2. \A r \in DOMAIN rows : StrandsOf(rows'[r].hops) \subseteq StrandsOf(rows[r].hops)
  BY DEF Shortened, StrandsOf
<1>3. \A r, q \in DOMAIN rows' : StrandsOf(rows'[r].hops) \cap StrandsOf(rows'[q].hops) # {} => r = q
  <2>1. SUFFICES ASSUME NEW r \in DOMAIN rows', NEW q \in DOMAIN rows',
                        StrandsOf(rows'[r].hops) \cap StrandsOf(rows'[q].hops) # {}
                 PROVE  r = q
    OBVIOUS
  <2>2. r \in DOMAIN rows /\ q \in DOMAIN rows
    BY DEF Shortened
  <2>3. StrandsOf(rows[r].hops) \cap StrandsOf(rows[q].hops) # {}
    BY <2>1, <2>2, <1>2
  <2> QED BY <2>2, <2>3 DEF OneRow
<1> QED BY <1>1, <1>3 DEF OneRow

\* The rows after an analysis: those written have a chain of their own, and the others
\* share no strand with any chain.
LEMMA OneRowWritten ==
    ASSUME OneRow, NEW chains \in SUBSET ChainRecord, NEW inScope \in SUBSET DOMAIN rows,
           NEW joined \in SUBSET DOMAIN rows, Analyzed(chains, inScope, joined), CrossesOnce(plant),
           NEW owner, Written(chains, inScope, joined, owner)
    PROVE  OneRow'
<1>1. PICK held : held = DOMAIN owner
  OBVIOUS
<1>2. \A r \in held : /\ owner[r] \in chains /\ Single(rows'[r].hops)
                      /\ StrandsOf(rows'[r].hops) = StrandsOf(owner[r].hops)
  <2>1. ASSUME NEW r \in held
        PROVE  /\ owner[r] \in chains /\ Range(rows'[r].hops) = Range(owner[r].hops)
               /\ Single(owner[r].hops) => Single(rows'[r].hops)
    BY <1>1 DEF Written
  <2> QED BY <2>1 DEF Analyzed, Apart, StrandsOf
<1>3. \A r \in DOMAIN rows' \ held : r \in DOMAIN rows
         /\ (rows'[r].hops # <<>> => r \notin inScope \cup joined /\ rows'[r] = rows[r])
  BY <1>1 DEF Written
<1>4. Single(<<>>) /\ StrandsOf(<<>>) = {}
  BY DEF Single, StrandsOf, Range
<1>5. \A r \in DOMAIN rows' : Single(rows'[r].hops)
  BY <1>2, <1>3, <1>4 DEF OneRow
<1>6. ASSUME NEW r \in DOMAIN rows', NEW q \in DOMAIN rows',
             NEW s \in StrandsOf(rows'[r].hops) \cap StrandsOf(rows'[q].hops)
      PROVE  r = q
  <2>1. CASE r \in held /\ q \in held
    <3>1. owner[r] = owner[q]
      BY <2>1, <1>2, <1>6 DEF Analyzed, Apart
    <3> QED BY <2>1, <3>1, <1>1 DEF Written
  <2>2. ASSUME NEW p \in held, NEW o \in DOMAIN rows' \ held, s \in StrandsOf(rows'[p].hops), s \in StrandsOf(rows'[o].hops)
        PROVE  FALSE
    <3>1. o \in DOMAIN rows \ (inScope \cup joined) /\ rows'[o] = rows[o]
      BY <2>2, <1>3, <1>4
    <3>2. owner[p] \in chains /\ s \in StrandsOf(owner[p].hops) /\ s \in StrandsOf(rows[o].hops)
      BY <2>2, <3>1, <1>2
    <3> QED BY <3>1, <3>2 DEF Analyzed
  <2>3. CASE r \notin held /\ q \notin held
    <3>1. r \in DOMAIN rows /\ q \in DOMAIN rows /\ rows'[r] = rows[r] /\ rows'[q] = rows[q]
      BY <2>3, <1>3, <1>4, <1>6
    <3> QED BY <3>1, <1>6 DEF OneRow
  <2> QED BY <2>1, <2>2, <2>3, <1>6
<1> QED BY <1>5, <1>6 DEF OneRow

\* Every step keeps strands on one row.
LEMMA OneRowStep ==
    ASSUME TypeOK, OneRow, CrossesOnce(plant), [Next]_vars
    PROVE  OneRow'
<1>1. CASE PlantChange
  BY <1>1, ChangeShortens, OneRowShortened
<1>2. CASE \E r \in DOMAIN rows : Assign(r) \/ Unassign(r)
  BY <1>2 DEF Assign, Unassign, OneRow
<1>3. CASE Run \/ Reconcile
  <2>1. PICK chains \in SUBSET ChainRecord, inScope \in SUBSET DOMAIN rows, joined \in SUBSET DOMAIN rows :
              /\ Analyzed(chains, inScope, joined)
              /\ \E owner : Written(chains, inScope, joined, owner)
    BY <1>3, AnalysisIs
  <2>2. PICK owner : Written(chains, inScope, joined, owner)
    BY <2>1
  <2> QED BY <2>1, <2>2, OneRowWritten
<1>4. CASE UNCHANGED vars
  BY <1>4 DEF vars, OneRow
<1> QED BY <1>1, <1>2, <1>3, <1>4 DEF Next

\* The invariant, as the run counts it.
LEMMA OneRowCounts ==
    ASSUME OneRow
    PROVE  OneRowPerStrand
<1> SUFFICES ASSUME NEW s \in Strand
             PROVE  Cardinality({at \in UNION {{r} \X DOMAIN rows[r].hops : r \in DOMAIN rows} :
                       rows[at[1]].hops[at[2]] = s}) <= 1
  BY DEF OneRowPerStrand
<1>1. PICK places : places = {at \in UNION {{r} \X DOMAIN rows[r].hops : r \in DOMAIN rows} :
                       rows[at[1]].hops[at[2]] = s}
  OBVIOUS
<1>2. \A at \in places : /\ at = <<at[1], at[2]>> /\ at[1] \in DOMAIN rows /\ at[2] \in DOMAIN rows[at[1]].hops
                         /\ rows[at[1]].hops[at[2]] = s
  BY <1>1
<1>3. ASSUME NEW x \in places, NEW y \in places
      PROVE  x = y
  <2>1. s \in StrandsOf(rows[x[1]].hops) /\ s \in StrandsOf(rows[y[1]].hops)
    BY <1>2 DEF StrandsOf, Range
  <2>2. x[1] = y[1]
    BY <1>2, <2>1 DEF OneRow
  <2>3. x[2] = y[2]
    <3>1. Single(rows[x[1]].hops)
      BY <1>2 DEF OneRow
    <3> QED BY <3>1, <2>2, <1>2 DEF Single
  <2> QED BY <1>2, <2>2, <2>3
<1>4. CASE places = {}
  BY <1>4, <1>1, FS_EmptySet
<1>5. CASE places # {}
  <2>1. PICK x \in places : TRUE
    BY <1>5
  <2>2. places = {x}
    BY <1>3, <2>1
  <2>3. Cardinality(places) = 1
    BY <2>2, FS_Singleton
  <2> QED BY <1>1, <2>3
<1> QED BY <1>4, <1>5

\* No strand is on two stored rows, or twice on one, after any sequence of changes, runs
\* and reconciles, lost flushes included, while no strand lands across two crossings.
THEOREM StrandsOnOneRow == Spec /\ []CrossesOnce(plant) => []OneRowPerStrand
<1>1. TypeOK /\ OneRow /\ CrossesOnce(plant) /\ [Next]_vars => OneRow'
  BY OneRowStep
<1>2. OneRow => OneRowPerStrand
  BY OneRowCounts
<1> QED BY <1>1, <1>2, OneRowInit, TypeCorrect, PTL DEF Spec

(***************************************************************************)
(* What rows keep.                                                         *)
(***************************************************************************)

\* What a row holds after an analysis shares a hop with what it held.
LEMMA KeptWritten ==
    ASSUME TypeOK, TypeOK', NEW chains \in SUBSET ChainRecord, NEW inScope \in SUBSET DOMAIN rows,
           NEW joined \in SUBSET DOMAIN rows, NEW owner, Written(chains, inScope, joined, owner)
    PROVE  \A r \in DOMAIN rows \cap DOMAIN rows' :
              rows'[r].hops # <<>> => Range(rows[r].hops) \cap Range(rows'[r].hops) # {}
<1> SUFFICES ASSUME NEW r \in DOMAIN rows \cap DOMAIN rows', rows'[r].hops # <<>>
             PROVE  Range(rows[r].hops) \cap Range(rows'[r].hops) # {}
  OBVIOUS
<1>1. rows'[r].hops \in Seq(Hop)
  BY DEF TypeOK, Row
<1>2. PICK h : h \in Range(rows'[r].hops)
  <2>1. 1 \in DOMAIN rows'[r].hops
    BY <1>1
  <2> QED BY <2>1 DEF Range
<1>3. CASE r \in DOMAIN owner
  <2>1. owner[r] \in chains /\ Range(rows'[r].hops) = Range(owner[r].hops)
    BY <1>3 DEF Written
  <2>2. Match(owner[r], inScope, joined) = r
    BY <1>3 DEF Written
  <2>3. owner[r].hops # <<>>
    BY <1>2, <2>1 DEF Range
  <2>4. r # NoMatch
    BY RowsAre
  <2>5. Fits(owner[r], inScope \cup joined, r)
    BY <2>1, <2>2, MatchIs
  <2> QED BY <2>1, <2>3, <2>4, <2>5 DEF Fits
<1>4. CASE r \notin DOMAIN owner
  <2>1. rows'[r] = rows[r]
    BY <1>4 DEF Written
  <2> QED BY <1>2, <2>1
<1> QED BY <1>3, <1>4

\* Every step leaves a row some of its hops, and keeps the rows that are assigned.
LEMMA KeptStep ==
    ASSUME TypeOK, Next
    PROVE  /\ assigned \subseteq DOMAIN rows'
           /\ \A r \in DOMAIN rows \cap DOMAIN rows' :
                rows'[r].hops # <<>> => Range(rows[r].hops) \cap Range(rows'[r].hops) # {}
<1>1. TypeOK'
  BY TypeStep
<1>2. ASSUME NEW r \in DOMAIN rows', rows'[r].hops # <<>>
      PROVE  Range(rows'[r].hops) # {}
  <2>1. rows'[r].hops \in Seq(Hop)
    BY <1>1 DEF TypeOK, Row
  <2>2. 1 \in DOMAIN rows'[r].hops
    BY <1>2, <2>1
  <2> QED BY <2>2 DEF Range
<1>3. CASE PlantChange
  <2>1. Shortened
    BY <1>3, ChangeShortens
  <2>2. assigned \subseteq DOMAIN rows'
    BY <2>1 DEF Shortened, TypeOK
  <2>3. \A r \in DOMAIN rows : Range(rows'[r].hops) \subseteq Range(rows[r].hops)
    BY <2>1 DEF Shortened
  <2> QED BY <1>2, <2>2, <2>3
<1>4. CASE \E r \in DOMAIN rows : Assign(r) \/ Unassign(r)
  <2>1. rows' = rows /\ assigned \subseteq DOMAIN rows
    BY <1>4 DEF Assign, Unassign, TypeOK
  <2> QED BY <1>2, <2>1
<1>5. CASE Run \/ Reconcile
  <2>1. PICK chains \in SUBSET ChainRecord, inScope \in SUBSET DOMAIN rows, joined \in SUBSET DOMAIN rows :
              /\ Analyzed(chains, inScope, joined)
              /\ \E owner : Written(chains, inScope, joined, owner)
    BY <1>5, AnalysisIs
  <2>2. PICK owner : Written(chains, inScope, joined, owner)
    BY <2>1
  <2>3. assigned' = assigned
    BY <2>1 DEF Analyzed, WriteResults
  <2>4. assigned \subseteq DOMAIN rows'
    BY <1>1, <2>3 DEF TypeOK
  <2> QED BY <1>1, <2>2, <2>4, KeptWritten
<1> QED BY <1>3, <1>4, <1>5 DEF Next

\* Rows never move to other fiber, and assigned rows stay (_match, _drop_lost).
THEOREM RowsKeep == Spec => RowsKeepTheirFiber
<1>1. TypeOK /\ [Next]_vars =>
        [/\ assigned \subseteq DOMAIN rows'
         /\ \A r \in DOMAIN rows \cap DOMAIN rows' :
              rows'[r].hops # <<>> => Range(rows[r].hops) \cap Range(rows'[r].hops) # {}]_vars
  BY KeptStep
<1> QED BY <1>1, TypeCorrect, PTL DEF Spec, RowsKeepTheirFiber

\* A row with the first strand of another has fiber of a third, or of its own past.
Elsewhere(r, q) ==
    \E p \in DOMAIN rows \ {r} : StrandsOf(rows[p].hops) \cap StrandsOf(rows'[q].hops) # {}

\* After an analysis: had another row the first strand of r and fiber of nobody else,
\* its chain would have matched r, and r would have kept the chain with that strand.
LEMMA CutWritten ==
    ASSUME TypeOK, NEW chains \in SUBSET ChainRecord, NEW inScope \in SUBSET DOMAIN rows,
           NEW joined \in SUBSET DOMAIN rows, Analyzed(chains, inScope, joined), CrossesOnce(plant),
           NEW owner, Written(chains, inScope, joined, owner),
           NEW r \in DOMAIN rows, StrandsOf(rows[r].hops) # {},
           NEW q \in DOMAIN rows' \ {r}, Anchor(rows[r].hops) \in Range(rows'[q].hops)
    PROVE  Elsewhere(r, q)
<1>1. PICK s : s = Anchor(rows[r].hops)
  OBVIOUS
<1>2. rows[r].hops \in Seq(Hop)
  BY RowsAre
<1>3. s \in StrandsOf(rows[r].hops)
  BY <1>1, <1>2, AnchorIs
<1>4. s \in Strand /\ s \in StrandsOf(rows'[q].hops)
  BY <1>1, <1>3 DEF StrandsOf
<1>5. CASE q \notin DOMAIN owner
  <2>1. rows'[q].hops # <<>>
    BY <1>4 DEF StrandsOf, Range
  <2>2. q \in DOMAIN rows /\ rows'[q] = rows[q]
    BY <1>5, <2>1 DEF Written
  <2> QED BY <1>4, <2>2 DEF Elsewhere
<1>6. CASE q \in DOMAIN owner
  <2>1. PICK c \in chains : c = owner[q] /\ Range(rows'[q].hops) = Range(c.hops)
    BY <1>6 DEF Written
  <2>2. s \in StrandsOf(c.hops) /\ StrandsOf(rows'[q].hops) = StrandsOf(c.hops)
    BY <1>4, <2>1 DEF StrandsOf
  <2>3. r \in inScope \cup joined
    BY <1>3, <2>2 DEF Analyzed
  <2>4. PICK m : m = Match(c, inScope, joined)
    OBVIOUS
  <2>5. Fits(c, inScope \cup joined, m)
    BY <2>4, MatchIs
  <2>6. m # NoMatch
    BY <1>3, <2>2, <2>3, <2>5 DEF Fits
  <2>7. m \in DOMAIN rows /\ StrandsOf(rows[m].hops) \cap StrandsOf(c.hops) # {}
    BY <2>2, <2>5, <2>6 DEF Fits
  <2>8. CASE m # r
    BY <2>2, <2>7, <2>8 DEF Elsewhere
  <2>9. CASE m = r
    <3>1. q \notin DOMAIN rows
      BY <1>6, <2>1, <2>4, <2>9 DEF Written
    <3>2. r \in DOMAIN owner
          /\ owner[r] = Keeper(rows[r].hops, {d \in chains : Match(d, inScope, joined) = r})
      <4>1. q \in DOMAIN owner \ DOMAIN rows /\ Match(owner[q], inScope, joined) = r /\ r # NoMatch
        BY <1>6, <2>1, <2>4, <2>6, <2>9, <3>1
      <4>2. /\ Match(owner[q], inScope, joined) \in DOMAIN owner
            /\ owner[Match(owner[q], inScope, joined)] =
                 Keeper(rows[Match(owner[q], inScope, joined)].hops,
                        {d \in chains : Match(d, inScope, joined) = Match(owner[q], inScope, joined)})
        BY <4>1, Zenon DEF Written
      <4> QED BY <4>1, <4>2
    <3>3. PICK S : S = {d \in chains : Match(d, inScope, joined) = r}
      OBVIOUS
    <3>4. S \in SUBSET ChainRecord /\ c \in S
      BY <2>4, <2>9, <3>3
    <3>5. s \in Range(owner[r].hops) /\ owner[r] \in chains
      <4>1. s \in Range(c.hops)
        BY <2>2 DEF StrandsOf
      <4>2. owner[r] = Keeper(rows[r].hops, S)
        BY <3>2, <3>3
      <4>3. owner[r] \in S /\ s \in Range(owner[r].hops)
        BY <1>1, <3>4, <4>1, <4>2, KeeperIs
      <4> QED BY <3>3, <4>3
    <3>6. owner[r] = owner[q]
      BY <1>4, <2>1, <2>2, <3>5 DEF Analyzed, Apart, StrandsOf
    <3>7. r = q
      BY <1>6, <3>2, <3>6 DEF Written
    <3> QED BY <3>7
  <2> QED BY <2>8, <2>9
<1> QED BY <1>5, <1>6

\* The same after any step: changes of the plant only take hops away.
LEMMA CutStep ==
    ASSUME TypeOK, CrossesOnce(plant), Next,
           NEW r \in DOMAIN rows, StrandsOf(rows[r].hops) # {},
           NEW q \in DOMAIN rows' \ {r}, Anchor(rows[r].hops) \in Range(rows'[q].hops)
    PROVE  Elsewhere(r, q)
<1>1. Anchor(rows[r].hops) \in Strand
  <2>1. rows[r].hops \in Seq(Hop)
    BY RowsAre
  <2> QED BY <2>1, AnchorIs DEF StrandsOf
<1>2. ASSUME q \in DOMAIN rows, Range(rows'[q].hops) \subseteq Range(rows[q].hops)
      PROVE  Elsewhere(r, q)
  <2>1. Anchor(rows[r].hops) \in StrandsOf(rows[q].hops) \cap StrandsOf(rows'[q].hops)
    BY <1>1, <1>2 DEF StrandsOf
  <2> QED BY <1>2, <2>1 DEF Elsewhere
<1>3. CASE PlantChange
  BY <1>2, <1>3, ChangeShortens DEF Shortened
<1>4. CASE \E p \in DOMAIN rows : Assign(p) \/ Unassign(p)
  BY <1>2, <1>4 DEF Assign, Unassign
<1>5. CASE Run \/ Reconcile
  <2>1. PICK chains \in SUBSET ChainRecord, inScope \in SUBSET DOMAIN rows, joined \in SUBSET DOMAIN rows :
              /\ Analyzed(chains, inScope, joined)
              /\ \E owner : Written(chains, inScope, joined, owner)
    BY <1>5, AnalysisIs
  <2>2. PICK owner : Written(chains, inScope, joined, owner)
    BY <2>1
  <2> QED BY <2>1, <2>2, CutWritten
<1> QED BY <1>3, <1>4, <1>5 DEF Next

\* A cut leaves the row with the piece that holds its first strand (_keeper).
THEOREM CutKeeps == Spec /\ []CrossesOnce(plant) => CutKeepsFirst
<1>1. TypeOK /\ CrossesOnce(plant) /\ [Next]_vars =>
        [\A r \in DOMAIN rows : StrandsOf(rows[r].hops) # {} =>
           \A q \in DOMAIN rows' \ {r} : Anchor(rows[r].hops) \in Range(rows'[q].hops) =>
              \E p \in DOMAIN rows \ {r} :
                StrandsOf(rows[p].hops) \cap StrandsOf(rows'[q].hops) # {}]_vars
  BY CutStep DEF Elsewhere
<1> QED BY <1>1, TypeCorrect, PTL DEF Spec, CutKeepsFirst
=============================================================================
