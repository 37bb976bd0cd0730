----------------------------- MODULE ListProofs -----------------------------
(***************************************************************************)
(* What the list operations of Lists do to the set of nodes a list links   *)
(* and to the absence of repetitions, for lists of any length; and the     *)
(* extreme elements of sets of numbers.                                    *)
(***************************************************************************)
EXTENDS Lists, FiniteSetTheorems, WellFoundedInduction, TLAPS

(* A list of nodes of some kind links nodes of that kind only.             *)
LEMMA ElemsType ==
  ASSUME NEW T, NEW s \in Seq(T)
  PROVE  Elems(s) \subseteq T
BY DEF Elems

(* PushBack adds one node, and a node that is not linked yet is linked     *)
(* once afterwards (IntrusiveDoublyLinkedList::PushBack).                  *)
LEMMA AppendElems ==
  ASSUME NEW T, NEW s \in Seq(T), NEW e
  PROVE  /\ Elems(Append(s, e)) = Elems(s) \cup {e}
         /\ NoRepeat(s) /\ e \notin Elems(s) => NoRepeat(Append(s, e))
<1>1. /\ DOMAIN Append(s, e) = 1..(Len(s) + 1)
      /\ \A i \in 1..Len(s) : Append(s, e)[i] = s[i]
      /\ Append(s, e)[Len(s) + 1] = e
      /\ DOMAIN s = 1..Len(s)
      /\ Len(s) \in Nat
  OBVIOUS
<1>2. Elems(Append(s, e)) = Elems(s) \cup {e}
  BY <1>1 DEF Elems
<1>3. ASSUME NoRepeat(s), e \notin Elems(s)
      PROVE  NoRepeat(Append(s, e))
  BY <1>1, <1>3 DEF Elems, NoRepeat
<1> QED  BY <1>2, <1>3

(* Splicing one list after another links the nodes of both, once each      *)
(* exactly when neither repeats a node and they share none.                *)
LEMMA ConcatElems ==
  ASSUME NEW T, NEW s \in Seq(T), NEW u \in Seq(T)
  PROVE  /\ Elems(s \o u) = Elems(s) \cup Elems(u)
         /\ NoRepeat(s \o u) <=> /\ NoRepeat(s)
                                 /\ NoRepeat(u)
                                 /\ Elems(s) \cap Elems(u) = {}
<1>1. /\ DOMAIN (s \o u) = 1..(Len(s) + Len(u))
      /\ \A i \in 1..Len(s) : (s \o u)[i] = s[i]
      /\ \A i \in 1..Len(u) : (s \o u)[Len(s) + i] = u[i]
      /\ DOMAIN s = 1..Len(s)
      /\ DOMAIN u = 1..Len(u)
      /\ Len(s) \in Nat
      /\ Len(u) \in Nat
  OBVIOUS
<1>2. \A i \in 1..(Len(s) + Len(u)) :
        \/ i \in 1..Len(s)
        \/ i - Len(s) \in 1..Len(u) /\ i = Len(s) + (i - Len(s))
  BY <1>1
<1>3. Elems(s \o u) = Elems(s) \cup Elems(u)
  <2>1. Elems(s \o u) \subseteq Elems(s) \cup Elems(u)
    BY <1>1, <1>2 DEF Elems
  <2>2. Elems(s) \subseteq Elems(s \o u)
    BY <1>1 DEF Elems
  <2>3. Elems(u) \subseteq Elems(s \o u)
    <3>1. \A i \in 1..Len(u) : Len(s) + i \in 1..(Len(s) + Len(u))
      BY <1>1
    <3> QED  BY <3>1, <1>1 DEF Elems
  <2> QED  BY <2>1, <2>2, <2>3
<1>4. ASSUME NoRepeat(s), NoRepeat(u), Elems(s) \cap Elems(u) = {}
      PROVE  NoRepeat(s \o u)
  <2> SUFFICES ASSUME NEW i \in 1..(Len(s) + Len(u)), NEW j \in 1..(Len(s) + Len(u)),
                      (s \o u)[i] = (s \o u)[j]
               PROVE  i = j
    BY <1>1 DEF NoRepeat
  <2>1. CASE i \in 1..Len(s) /\ j \in 1..Len(s)
    BY <2>1, <1>1, <1>4 DEF NoRepeat
  <2>2. CASE i \notin 1..Len(s) /\ j \notin 1..Len(s)
    <3>1. i - Len(s) \in 1..Len(u) /\ j - Len(s) \in 1..Len(u)
      BY <2>2, <1>2
    <3>2. u[i - Len(s)] = u[j - Len(s)]
      BY <3>1, <1>1, <1>2, <2>2
    <3>3. i - Len(s) = j - Len(s)
      BY <3>1, <3>2, <1>1, <1>4 DEF NoRepeat
    <3> QED  BY <3>3, <1>1
  <2>3. ASSUME NEW a \in 1..Len(s), NEW b \in 1..Len(u)
        PROVE  s[a] # u[b]
    BY <1>1, <1>4 DEF Elems
  <2>4. CASE i \in 1..Len(s) /\ j \notin 1..Len(s)
    BY <2>3, <2>4, <1>1, <1>2
  <2>5. CASE i \notin 1..Len(s) /\ j \in 1..Len(s)
    BY <2>3, <2>5, <1>1, <1>2
  <2> QED  BY <2>1, <2>2, <2>4, <2>5
<1>5. ASSUME NoRepeat(s \o u)
      PROVE  NoRepeat(s) /\ NoRepeat(u) /\ Elems(s) \cap Elems(u) = {}
  <2>1. NoRepeat(s)
    BY <1>1, <1>5 DEF NoRepeat
  <2>2. \A i \in 1..Len(u) : Len(s) + i \in 1..(Len(s) + Len(u))
    BY <1>1
  <2>3. NoRepeat(u)
    <3> SUFFICES ASSUME NEW i \in 1..Len(u), NEW j \in 1..Len(u), u[i] = u[j]
                 PROVE  i = j
      BY <1>1 DEF NoRepeat
    <3>1. Len(s) + i = Len(s) + j
      BY <2>2, <1>1, <1>5 DEF NoRepeat
    <3> QED  BY <3>1, <1>1
  <2>4. ASSUME NEW i \in 1..Len(s), NEW j \in 1..Len(u), s[i] = u[j]
        PROVE  FALSE
    <3>1. /\ i \in DOMAIN (s \o u)
          /\ Len(s) + j \in DOMAIN (s \o u)
          /\ (s \o u)[i] = (s \o u)[Len(s) + j]
      BY <2>2, <2>4, <1>1
    <3>2. i = Len(s) + j
      BY <3>1, <1>5 DEF NoRepeat
    <3> QED  BY <3>2, <1>1
  <2>5. Elems(s) \cap Elems(u) = {}
    BY <2>4, <1>1 DEF Elems
  <2> QED  BY <2>1, <2>3, <2>5
<1> QED  BY <1>3, <1>4, <1>5

(* The same for three lists, none of which shares a node with another.     *)
LEMMA ConcatElems3 ==
  ASSUME NEW T, NEW s \in Seq(T), NEW u \in Seq(T), NEW v \in Seq(T)
  PROVE  /\ s \o u \o v \in Seq(T)
         /\ Elems(s \o u \o v) = Elems(s) \cup Elems(u) \cup Elems(v)
         /\ NoRepeat(s \o u \o v) <=>
              /\ NoRepeat(s) /\ NoRepeat(u) /\ NoRepeat(v)
              /\ Elems(s) \cap Elems(u) = {}
              /\ Elems(s) \cap Elems(v) = {}
              /\ Elems(u) \cap Elems(v) = {}
<1> DEFINE w == s \o u
<1>1. w \in Seq(T)
  OBVIOUS
<1>2. /\ Elems(w) = Elems(s) \cup Elems(u)
      /\ NoRepeat(w) <=> NoRepeat(s) /\ NoRepeat(u) /\ Elems(s) \cap Elems(u) = {}
  BY ConcatElems
<1> HIDE DEF w
<1>3. /\ w \o v \in Seq(T)
      /\ Elems(w \o v) = Elems(w) \cup Elems(v)
      /\ NoRepeat(w \o v) <=> NoRepeat(w) /\ NoRepeat(v) /\ Elems(w) \cap Elems(v) = {}
  BY <1>1, ConcatElems
<1>4. Elems(w) \cap Elems(v) = {} <=> /\ Elems(s) \cap Elems(v) = {}
                                    /\ Elems(u) \cap Elems(v) = {}
  BY <1>2
<1>5. /\ w \o v \in Seq(T)
      /\ Elems(w \o v) = Elems(s) \cup Elems(u) \cup Elems(v)
      /\ NoRepeat(w \o v) <=>
              /\ NoRepeat(s) /\ NoRepeat(u) /\ NoRepeat(v)
              /\ Elems(s) \cap Elems(u) = {}
              /\ Elems(s) \cap Elems(v) = {}
              /\ Elems(u) \cap Elems(v) = {}
  BY <1>2, <1>3, <1>4, Zenon
<1> QED  BY <1>5, Zenon DEF w

(* PopFront unlinks the head: it is linked no more, the others still are   *)
(* (IntrusiveDoublyLinkedList::PopFront).                                  *)
LEMMA TailElems ==
  ASSUME NEW T, NEW s \in Seq(T), s # <<>>
  PROVE  /\ Head(s) \in T
         /\ Tail(s) \in Seq(T)
         /\ Elems(s) = {Head(s)} \cup Elems(Tail(s))
         /\ NoRepeat(s) => NoRepeat(Tail(s)) /\ Head(s) \notin Elems(Tail(s))
<1>1. /\ Len(s) \in Nat \ {0}
      /\ DOMAIN s = 1..Len(s)
      /\ Head(s) = s[1]
      /\ Tail(s) \in Seq(T)
      /\ Len(Tail(s)) = Len(s) - 1
      /\ DOMAIN Tail(s) = 1..(Len(s) - 1)
      /\ \A i \in 1..(Len(s) - 1) : Tail(s)[i] = s[i + 1]
  OBVIOUS
<1>2. Elems(s) \subseteq {Head(s)} \cup Elems(Tail(s))
  <2> SUFFICES ASSUME NEW i \in 1..Len(s), i # 1
               PROVE  s[i] \in Elems(Tail(s))
    BY <1>1 DEF Elems
  <2>1. i - 1 \in 1..(Len(s) - 1) /\ (i - 1) + 1 = i
    BY <1>1
  <2> QED  BY <2>1, <1>1 DEF Elems
<1>3. {Head(s)} \cup Elems(Tail(s)) \subseteq Elems(s)
  <2>1. \A i \in 1..(Len(s) - 1) : i + 1 \in 1..Len(s)
    BY <1>1
  <2> QED  BY <2>1, <1>1 DEF Elems
<1>4. ASSUME NoRepeat(s)
      PROVE  NoRepeat(Tail(s)) /\ Head(s) \notin Elems(Tail(s))
  <2>1. \A i \in 1..(Len(s) - 1) : i + 1 \in 1..Len(s) /\ i + 1 # 1
    BY <1>1
  <2>2. Head(s) \notin Elems(Tail(s))
    BY <2>1, <1>1, <1>4 DEF Elems, NoRepeat
  <2>3. NoRepeat(Tail(s))
    <3> SUFFICES ASSUME NEW i \in 1..(Len(s) - 1), NEW j \in 1..(Len(s) - 1),
                        Tail(s)[i] = Tail(s)[j]
                 PROVE  i = j
      BY <1>1 DEF NoRepeat
    <3>1. i + 1 = j + 1
      BY <2>1, <1>1, <1>4 DEF NoRepeat
    <3> QED  BY <3>1
  <2> QED  BY <2>2, <2>3
<1> QED  BY <1>1, <1>2, <1>3, <1>4

(* Positions have distinct ranks, and every rank up to the number of       *)
(* positions is taken: Sublist is well defined.                            *)
LEMMA RankBijection ==
  ASSUME NEW n \in Nat, NEW W \in SUBSET (1..n)
  PROVE  /\ Cardinality(W) \in Nat
         /\ \A i \in W : Rank(W, i) \in 1..Cardinality(W)
         /\ \A i, j \in W : Rank(W, i) = Rank(W, j) => i = j
         /\ \A k \in 1..Cardinality(W) : \E i \in W : Rank(W, i) = k
<1> DEFINE Below(i) == {j \in W : j <= i}
<1>1. IsFiniteSet(W) /\ Cardinality(W) \in Nat
  <2>1. IsFiniteSet(1..n)
    BY FS_Interval
  <2>2. IsFiniteSet(W)
    BY <2>1, FS_Subset
  <2> QED  BY <2>2, FS_CardinalityType
<1>2. ASSUME NEW i \in W
      PROVE  /\ IsFiniteSet(Below(i))
             /\ Cardinality(Below(i)) \in Nat
             /\ Cardinality(Below(i)) <= Cardinality(W)
             /\ Cardinality(Below(i)) # 0
             /\ Rank(W, i) = Cardinality(Below(i))
  <2>1. Below(i) \in SUBSET W /\ i \in Below(i)
    OBVIOUS
  <2>2. IsFiniteSet(Below(i)) /\ Cardinality(Below(i)) <= Cardinality(W)
    BY <1>1, <2>1, FS_Subset
  <2>3. Cardinality(Below(i)) \in Nat
    BY <2>2, FS_CardinalityType
  <2>4. Cardinality(Below(i)) # 0
    BY <2>1, <2>2, FS_EmptySet
  <2> QED  BY <2>2, <2>3, <2>4 DEF Rank
<1>3. ASSUME NEW i \in W
      PROVE  Rank(W, i) \in 1..Cardinality(W)
  <2>1. /\ Rank(W, i) \in Nat
        /\ Rank(W, i) <= Cardinality(W)
        /\ Rank(W, i) # 0
    BY <1>2
  <2> QED  BY <1>1, <2>1
<1>4. ASSUME NEW i \in W, NEW j \in W, i < j
      PROVE  Rank(W, i) # Rank(W, j)
  <2>0. W \subseteq Int
    OBVIOUS
  <2>1. Below(i) \in SUBSET Below(j) /\ j \in Below(j) /\ j \notin Below(i)
    <3>1. \A m \in W : m <= i => m <= j
      BY <1>4, <2>0
    <3>2. j <= j /\ ~(j <= i)
      BY <1>4, <2>0
    <3> QED  BY <3>1, <3>2
  <2>2. Cardinality(Below(j)) # Cardinality(Below(i))
    <3>1. Cardinality(Below(j)) = Cardinality(Below(i)) => Below(j) = Below(i)
      BY <1>2, <2>1, FS_Subset
    <3> QED  BY <3>1, <2>1
  <2> QED  BY <2>2, <1>2
<1>5. \A i, j \in W : Rank(W, i) = Rank(W, j) => i = j
  BY <1>4
<1>6. \A k \in 1..Cardinality(W) : \E i \in W : Rank(W, i) = k
  <2> DEFINE r == [i \in W |-> Rank(W, i)]
  <2>1. r \in Injection(W, 1..Cardinality(W))
    BY <1>3, <1>5 DEF Injection, IsInjective
  <2>2. IsFiniteSet(1..Cardinality(W)) /\ Cardinality(1..Cardinality(W)) = Cardinality(W)
    BY <1>1, FS_Interval
  <2>3. r \in Surjection(W, 1..Cardinality(W))
    BY <2>1, <2>2, FS_Injection
  <2> QED  BY <2>3 DEF Surjection
<1> QED  BY <1>1, <1>3, <1>5, <1>6

(* A traversal that keeps the positions W of a list keeps exactly their    *)
(* nodes, and none of them twice (the loop of Scheduler::Wake).            *)
LEMMA SublistElems ==
  ASSUME NEW T, NEW s \in Seq(T), NEW W \in SUBSET (DOMAIN s)
  PROVE  /\ Sublist(s, W) \in Seq(T)
         /\ Elems(Sublist(s, W)) = {s[i] : i \in W}
         /\ NoRepeat(s) => NoRepeat(Sublist(s, W))
<1> DEFINE At(k) == CHOOSE i \in W : Rank(W, i) = k
<1>1. Len(s) \in Nat /\ DOMAIN s = 1..Len(s)
  OBVIOUS
<1>2. /\ Cardinality(W) \in Nat
      /\ \A i \in W : Rank(W, i) \in 1..Cardinality(W)
      /\ \A i, j \in W : Rank(W, i) = Rank(W, j) => i = j
      /\ \A k \in 1..Cardinality(W) : \E i \in W : Rank(W, i) = k
  BY <1>1, RankBijection
<1>3. \A k \in 1..Cardinality(W) : At(k) \in W /\ Rank(W, At(k)) = k
  BY <1>2
<1>4. Sublist(s, W) = [k \in 1..Cardinality(W) |-> s[At(k)]]
  BY DEF Sublist
<1> HIDE DEF At
<1>5. \A i \in W : At(Rank(W, i)) = i
  BY <1>2, <1>3
<1>6. Sublist(s, W) \in Seq(T)
  BY <1>1, <1>2, <1>3, <1>4
<1>7. Elems(Sublist(s, W)) = {s[i] : i \in W}
  <2>1. DOMAIN Sublist(s, W) = 1..Cardinality(W)
    BY <1>4
  <2>2. Elems(Sublist(s, W)) \subseteq {s[i] : i \in W}
    BY <2>1, <1>3, <1>4 DEF Elems
  <2>3. {s[i] : i \in W} \subseteq Elems(Sublist(s, W))
    BY <2>1, <1>2, <1>4, <1>5 DEF Elems
  <2> QED  BY <2>2, <2>3
<1>8. ASSUME NoRepeat(s)
      PROVE  NoRepeat(Sublist(s, W))
  <2> SUFFICES ASSUME NEW i \in 1..Cardinality(W), NEW j \in 1..Cardinality(W),
                      s[At(i)] = s[At(j)]
               PROVE  i = j
    BY <1>4 DEF NoRepeat
  <2>1. At(i) = At(j)
    BY <1>1, <1>3, <1>8 DEF NoRepeat
  <2> QED  BY <2>1, <1>3
<1> QED  BY <1>6, <1>7, <1>8

(* A nonempty set of naturals has a least element.                         *)
LEMMA LeastElement ==
  ASSUME NEW S, S \subseteq Nat, S # {}
  PROVE  \E m \in S : \A n \in S : m <= n
<1>1. PICK m \in S : \A n \in S : ~ (<<n, m>> \in OpToRel(<, Nat))
  BY NatLessThanWellFounded, WFMin, Zenon
<1>2. \A n \in S : <<n, m>> \in OpToRel(<, Nat) <=> n < m
  BY DEF OpToRel
<1>3. \A n \in S : ~ (n < m)
  BY <1>1, <1>2, Zenon
<1>4. m \in Nat /\ \A n \in S : m <= n
  BY <1>3
<1> QED  BY <1>4

(* A finite nonempty set of naturals has a greatest element.  (A smallest  *)
(* set without one would have one element too many.)                       *)
LEMMA GreatestElement ==
  ASSUME NEW S, S \subseteq Nat, IsFiniteSet(S), S # {}
  PROVE  \E m \in S : \A n \in S : n <= m
<1> DEFINE NoMax(T) == /\ T \subseteq Nat /\ IsFiniteSet(T) /\ T # {}
                       /\ ~ \E m \in T : \A n \in T : n <= m
           bad == {k \in Nat : \E T \in SUBSET Nat : NoMax(T) /\ Cardinality(T) = k}
<1> SUFFICES ASSUME NoMax(S) PROVE FALSE
  OBVIOUS
<1>1. bad \subseteq Nat /\ bad # {}
  <2>1. Cardinality(S) \in Nat
    BY FS_CardinalityType
  <2> QED  BY <2>1
<1>2. PICK k \in bad : \A j \in bad : k <= j
  BY <1>1, LeastElement
<1>3. PICK T \in SUBSET Nat : NoMax(T) /\ Cardinality(T) = k
  BY <1>2
<1>4. PICK x : x \in T
  BY <1>3
<1> DEFINE U == T \ {x}
<1>5. IsFiniteSet(U) /\ Cardinality(U) = Cardinality(T) - 1
  BY <1>3, <1>4, FS_RemoveElement
<1>6. Cardinality(U) \in Nat /\ k \in Nat /\ Cardinality(U) = k - 1
  BY <1>2, <1>3, <1>5, FS_CardinalityType
<1> HIDE DEF bad
<1>7. Cardinality(U) \notin bad
  <2>1. ~(k <= Cardinality(U))
    BY <1>6
  <2> QED  BY <1>2, <2>1
<1> USE DEF bad
<1>8. U \in SUBSET Nat /\ ~NoMax(U)
  BY <1>6, <1>7
<1>9. CASE U = {}
  <2>1. T = {x} /\ x \in Nat
    BY <1>4, <1>9
  <2> QED  BY <1>3, <2>1
<1>10. CASE U # {}
  <2>1. PICK m \in U : \A n \in U : n <= m
    BY <1>5, <1>8, <1>10
  <2>2. m \in Nat /\ x \in Nat /\ m \in T
    BY <1>4
  <2>3. CASE x <= m
    <3>1. \A n \in T : n <= m
      BY <2>1, <2>3
    <3> QED  BY <1>3, <2>2, <3>1
  <2>4. CASE m <= x
    <3>1. \A n \in T : n <= x
      BY <2>1, <2>2, <2>4
    <3> QED  BY <1>3, <1>4, <3>1
  <2> QED  BY <2>2, <2>3, <2>4
<1> QED  BY <1>9, <1>10

-----------------------------------------------------------------------------
(* The values of a step that is iterated from a start.                     *)
Iterated(g, T, start, step, m) ==
    /\ g \in [0..m -> T] /\ g[0] = start
    /\ \A k \in 1..m : g[k] = step[<<g[k - 1], k>>]

(* A step may be iterated any number of times.                             *)
LEMMA Iterates ==
    ASSUME NEW T, NEW start \in T, NEW step \in [T \X Nat -> T], NEW len \in Nat
    PROVE  \E g : Iterated(g, T, start, step, len)
<1> DEFINE Iter(g, m) == Iterated(g, T, start, step, m)
           B == {m \in Nat : ~ \E g : Iter(g, m)}
<1>1. Iter([k \in 0..0 |-> start], 0)
  BY DEF Iterated
<1>2. ASSUME NEW m \in Nat, NEW g, Iter(g, m)
      PROVE  \E h : Iter(h, m + 1)
  <2> USE <1>2 DEF Iterated
  <2> DEFINE x == step[<<g[m], m + 1>>]
             h == [k \in 0..(m + 1) |-> IF k = m + 1 THEN x ELSE g[k]]
  <2>1. x \in T
    BY <1>2
  <2>2. \A k \in 0..m : h[k] = g[k]
    OBVIOUS
  <2>3. h[m + 1] = x
    OBVIOUS
  <2>4. h \in [0..(m + 1) -> T]
    BY <1>2, <2>1
  <2> HIDE DEF h
  <2>5. ASSUME NEW k \in 1..(m + 1) PROVE h[k] = step[<<h[k - 1], k>>]
    <3>1. CASE k = m + 1
      <4>1. h[k - 1] = g[m]
        BY <2>2, <3>1
      <4> QED
        BY <2>3, <3>1, <4>1
    <3>2. CASE k # m + 1
      <4>1. k \in 1..m /\ k \in 0..m /\ k - 1 \in 0..m
        BY <3>2
      <4> QED
        BY <1>2, <2>2, <4>1
    <3> QED
      BY <3>1, <3>2
  <2>6. h[0] = start
    BY <1>2, <2>2
  <2> QED
    BY <2>4, <2>5, <2>6
<1> HIDE DEF Iter
<1>3. B = {}
  <2> SUFFICES ASSUME B # {} PROVE FALSE
    OBVIOUS
  <2>1. PICK m \in B : \A j \in B : m <= j
    BY LeastElement
  <2>2. m \in Nat /\ m # 0
    BY <1>1
  <2>3. m - 1 \in Nat /\ m - 1 \notin B
    BY <2>1, <2>2
  <2>4. PICK g : Iter(g, m - 1)
    BY <2>3
  <2>5. \E h : Iter(h, (m - 1) + 1)
    BY <1>2, <2>3, <2>4
  <2>6. (m - 1) + 1 = m
    BY <2>2
  <2> QED
    BY <2>5, <2>6
<1>4. PICK g : Iter(g, len)
  BY <1>3
<1> QED
  BY <1>4 DEF Iter
=============================================================================
