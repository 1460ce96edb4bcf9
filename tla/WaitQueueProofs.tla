--------------------------- MODULE WaitQueueProofs ---------------------------
(***************************************************************************)
(* What the operations of WaitQueue do to the set of waiters and to their  *)
(* order, for every queue.  The specifications built on WaitQueue cite     *)
(* these lemmas instead of reasoning about sequences.                      *)
(***************************************************************************)
EXTENDS WaitQueue, SequenceTheorems, WellFoundedInduction, TLAPS

(***************************************************************************)
(* InsertAt and RemoveAt of SequencesExt, position by position.            *)
(***************************************************************************)

\* RemoveAt shifts the elements behind place i to the front by one.
LEMMA RemoveAtElements ==
    ASSUME NEW S, NEW s \in Seq(S), NEW i \in 1 .. Len(s)
    PROVE  /\ RemoveAt(s, i) \in Seq(S)
           /\ Len(RemoveAt(s, i)) = Len(s) - 1
           /\ \A j \in 1 .. Len(s) - 1 :
                RemoveAt(s, i)[j] = IF j < i THEN s[j] ELSE s[j + 1]
<1> DEFINE a == SubSeq(s, 1, i - 1)
           b == SubSeq(s, i + 1, Len(s))
           c == a \o b
<1>1. a \in Seq(S) /\ Len(a) = i - 1 /\ \A j \in 1 .. i - 1 : a[j] = s[j]
  BY SubSeqProperties
<1>2. /\ b \in Seq(S) /\ Len(b) = Len(s) - i
      /\ \A j \in 1 .. Len(s) - i : b[j] = s[i + j]
  BY SubSeqProperties
<1>3. RemoveAt(s, i) = c
  BY DEF RemoveAt
<1> HIDE DEF a, b
<1>4. /\ c \in Seq(S) /\ Len(c) = Len(a) + Len(b)
      /\ \A j \in 1 .. Len(a) + Len(b) :
           c[j] = IF j <= Len(a) THEN a[j] ELSE b[j - Len(a)]
  BY <1>1, <1>2, ConcatProperties
<1> HIDE DEF c
<1>5. Len(a) + Len(b) = Len(s) - 1 /\ Len(s) \in Nat
  BY <1>1, <1>2
<1>6. ASSUME NEW j \in 1 .. Len(s) - 1
      PROVE  c[j] = IF j < i THEN s[j] ELSE s[j + 1]
  <2>1. CASE j < i
    BY <1>1, <1>4, <1>5, <2>1
  <2>2. CASE j >= i
    <3>1. j - Len(a) \in 1 .. Len(s) - i /\ i + (j - Len(a)) = j + 1
      BY <1>1, <1>5, <2>2
    <3>2. c[j] = b[j - Len(a)]
      BY <1>1, <1>4, <1>5, <2>2
    <3>3. QED
      BY <1>2, <3>1, <3>2, <2>2
  <2>3. QED
    BY <2>1, <2>2
<1>7. QED
  BY <1>3, <1>4, <1>5, <1>6

\* InsertAt shifts the elements from place i on to the back by one.
LEMMA InsertAtElements ==
    ASSUME NEW S, NEW s \in Seq(S), NEW i \in 1 .. Len(s) + 1, NEW e \in S
    PROVE  /\ InsertAt(s, i, e) \in Seq(S)
           /\ Len(InsertAt(s, i, e)) = Len(s) + 1
           /\ \A j \in 1 .. Len(s) + 1 :
                InsertAt(s, i, e)[j] =
                    IF j < i THEN s[j] ELSE IF j = i THEN e ELSE s[j - 1]
<1> DEFINE a == SubSeq(s, 1, i - 1)
           m == <<e>>
           b == SubSeq(s, i, Len(s))
           am == a \o m
           c == am \o b
<1>1. a \in Seq(S) /\ Len(a) = i - 1 /\ \A j \in 1 .. i - 1 : a[j] = s[j]
  BY SubSeqProperties
<1>2. /\ b \in Seq(S) /\ Len(b) = Len(s) - i + 1
      /\ \A j \in 1 .. Len(s) - i + 1 : b[j] = s[i + j - 1]
  BY SubSeqProperties
<1>3. m \in Seq(S) /\ Len(m) = 1 /\ m[1] = e
  OBVIOUS
<1>4. InsertAt(s, i, e) = c
  BY DEF InsertAt
<1> HIDE DEF a, b, m
<1>5. /\ am \in Seq(S) /\ Len(am) = Len(a) + Len(m)
      /\ \A j \in 1 .. Len(a) + Len(m) :
           am[j] = IF j <= Len(a) THEN a[j] ELSE m[j - Len(a)]
  BY <1>1, <1>3, ConcatProperties
<1>6. /\ Len(am) = i
      /\ \A j \in 1 .. i : am[j] = IF j < i THEN s[j] ELSE e
  BY <1>1, <1>3, <1>5
<1> HIDE DEF am
<1>7. /\ c \in Seq(S) /\ Len(c) = Len(am) + Len(b)
      /\ \A j \in 1 .. Len(am) + Len(b) :
           c[j] = IF j <= Len(am) THEN am[j] ELSE b[j - Len(am)]
  <2>1. am \in Seq(S) /\ b \in Seq(S)
    BY <1>2, <1>5
  <2>2. QED
    BY <2>1, ConcatProperties
<1> HIDE DEF c
<1>8. Len(am) + Len(b) = Len(s) + 1 /\ Len(s) \in Nat
  BY <1>2, <1>6
<1>9. ASSUME NEW j \in 1 .. Len(s) + 1
      PROVE  c[j] = IF j < i THEN s[j] ELSE IF j = i THEN e ELSE s[j - 1]
  <2>1. CASE j <= i
    BY <1>6, <1>7, <1>8, <2>1
  <2>2. CASE j > i
    <3>1. j - i \in 1 .. Len(s) - i + 1 /\ i + (j - i) - 1 = j - 1
      BY <1>8, <2>2
    <3>2. c[j] = b[j - i]
      BY <1>6, <1>7, <1>8, <2>2
    <3>3. QED
      BY <1>2, <3>1, <3>2, <2>2
  <2>3. QED
    BY <2>1, <2>2
<1>10. QED
  BY <1>4, <1>7, <1>8, <1>9

\* Every set of natural numbers that is not empty has a least member.
LEMMA LeastMember ==
    ASSUME NEW T \in SUBSET Nat, T # {}
    PROVE  \E m \in T : \A n \in T : m <= n
<1> DEFINE R == {ss \in Nat \X Nat : ss[1] < ss[2]}
<1>1. IsWellFoundedOn(R, Nat)
  BY NatLessThanWellFounded, Zenon DEF OpToRel
<1>2. \A m, n \in Nat : n < m => <<n, m>> \in R
  OBVIOUS
<1> HIDE DEF R
<1>3. PICK m \in T : \A n \in T : ~(<<n, m>> \in R)
  BY <1>1, WFMin, Zenon
<1>4. ASSUME NEW n \in T PROVE m <= n
  <2>1. m \in Nat /\ n \in Nat
    OBVIOUS
  <2>2. ~(n < m)
    BY <1>2, <1>3, <2>1, Zenon
  <2>3. QED
    BY <2>1, <2>2
<1>5. QED
  BY <1>4

(***************************************************************************)
(* Adding, deleting and taking the first waiter.                           *)
(***************************************************************************)

\* There is a place for every priority, and no waiter of lower priority
\* stands before it nor one of the same or higher priority right at it.
LEMMA PriorityPlaceExists ==
    ASSUME NEW S, NEW q \in Seq(S), NEW prio \in [S -> Nat], NEW p \in Nat
    PROVE  /\ PriorityPlace(q, p, prio) \in 1 .. Len(q) + 1
           /\ PriorityPlace(q, p, prio) <= Len(q) =>
                p < prio[q[PriorityPlace(q, p, prio)]]
           /\ \A j \in 1 .. PriorityPlace(q, p, prio) - 1 : prio[q[j]] <= p
<1> DEFINE T == {i \in 1 .. Len(q) + 1 : i <= Len(q) => p < prio[q[i]]}
<1>1. T \in SUBSET Nat /\ Len(q) + 1 \in T
  OBVIOUS
<1>2. PICK m \in T : \A n \in T : m <= n
  BY <1>1, LeastMember
<1>3. ASSUME NEW j \in 1 .. m - 1 PROVE prio[q[j]] <= p
  <2>1. j \in 1 .. Len(q) /\ j \notin T
    BY <1>2
  <2>2. prio[q[j]] \in Nat
    BY <2>1
  <2>3. QED
    BY <2>1, <2>2
<1>4. \E i \in 1 .. Len(q) + 1 :
         /\ i <= Len(q) => p < prio[q[i]]
         /\ \A j \in 1 .. i - 1 : prio[q[j]] <= p
  BY <1>2, <1>3
<1>5. QED
  BY <1>4 DEF PriorityPlace

\* The elements of a sequence by position, and what it is to be injective.
LEMMA ByPosition ==
    ASSUME NEW S, NEW q \in Seq(S)
    PROVE  /\ \A k \in 1 .. Len(q) : q[k] \in ToSet(q)
           /\ \A x \in ToSet(q) : \E k \in 1 .. Len(q) : q[k] = x
           /\ ToSet(q) \subseteq S
           /\ IsInjective(q) <=>
                \A a, b \in 1 .. Len(q) : q[a] = q[b] => a = b
<1>1. DOMAIN q = 1 .. Len(q)
  OBVIOUS
<1>2. \A k \in 1 .. Len(q) : q[k] \in ToSet(q)
  BY <1>1, Zenon DEF ToSet
<1>3. \A x \in ToSet(q) : \E k \in 1 .. Len(q) : q[k] = x
  BY <1>1, Zenon DEF ToSet
<1>4. ToSet(q) \subseteq S
  BY <1>3
<1>5. IsInjective(q) <=> \A a, b \in 1 .. Len(q) : q[a] = q[b] => a = b
  BY <1>1, Zenon DEF IsInjective
<1>6. QED
  BY <1>2, <1>3, <1>4, <1>5

(***************************************************************************)
(* Adding and removing seen as one relation: r has, beside the elements of *)
(* q in their order, one more at place i; up takes a place in q to the     *)
(* place of the same element in r.                                         *)
(***************************************************************************)
OneMore(q, r, i, up) ==
    /\ i \in 1 .. Len(r)
    /\ up \in [1 .. Len(q) -> 1 .. Len(r)]
    /\ \A k \in 1 .. Len(q) : up[k] # i /\ r[up[k]] = q[k]
    /\ \A a, b \in 1 .. Len(q) : a < b <=> up[a] < up[b]
    /\ \A j \in 1 .. Len(r) : j # i => \E k \in 1 .. Len(q) : up[k] = j

\* The set of the elements grows by r[i], and stays one of distinct elements.
LEMMA OneMoreElement ==
    ASSUME NEW S, NEW q \in Seq(S), NEW r \in Seq(S), NEW i, NEW up,
           OneMore(q, r, i, up)
    PROVE  /\ ToSet(r) = ToSet(q) \union {r[i]}
           /\ IsInjective(q) /\ r[i] \notin ToSet(q) => IsInjective(r)
           /\ IsInjective(r) => IsInjective(q) /\ r[i] \notin ToSet(q)
<1>1. \A k \in 1 .. Len(q) : up[k] \in 1 .. Len(r) /\ up[k] # i /\ r[up[k]] = q[k]
  BY DEF OneMore
<1>2. \A j \in 1 .. Len(r) : j # i => \E k \in 1 .. Len(q) : up[k] = j
  BY DEF OneMore
<1>3. \A a, b \in 1 .. Len(q) : up[a] = up[b] => a = b
  <2>1. ASSUME NEW a \in 1 .. Len(q), NEW b \in 1 .. Len(q), up[a] = up[b]
        PROVE  ~(a < b) /\ ~(b < a)
    BY <1>1, <2>1 DEF OneMore
  <2>2. QED
    BY <2>1
<1>4. i \in 1 .. Len(r)
  BY DEF OneMore
<1>5. ASSUME NEW x \in ToSet(r) PROVE x \in ToSet(q) \union {r[i]}
  <2>1. PICK j \in 1 .. Len(r) : r[j] = x
    BY ByPosition
  <2>2. CASE j # i
    <3>1. PICK k \in 1 .. Len(q) : up[k] = j
      BY <1>2, <2>2
    <3>2. q[k] = x
      BY <1>1, <2>1, <3>1
    <3>3. QED
      BY <3>2, ByPosition
  <2>3. QED
    BY <2>1, <2>2
<1>6. ASSUME NEW x \in ToSet(q) PROVE x \in ToSet(r)
  <2>1. PICK k \in 1 .. Len(q) : q[k] = x
    BY ByPosition
  <2>2. up[k] \in 1 .. Len(r) /\ r[up[k]] = x
    BY <1>1, <2>1
  <2>3. QED
    BY <2>2, ByPosition
<1>7. r[i] \in ToSet(r)
  BY <1>4, ByPosition
<1>8. ASSUME IsInjective(q), r[i] \notin ToSet(q),
             NEW a \in 1 .. Len(r), NEW b \in 1 .. Len(r), r[a] = r[b]
      PROVE  a = b
  <2>1. ASSUME NEW j \in 1 .. Len(r), j # i PROVE r[j] # r[i]
    <3>1. PICK k \in 1 .. Len(q) : up[k] = j
      BY <1>2, <2>1
    <3>2. r[j] = q[k] /\ q[k] \in ToSet(q)
      BY <1>1, <3>1, ByPosition
    <3>3. QED
      BY <1>8, <3>2
  <2>2. CASE a = i \/ b = i
    BY <1>8, <2>1, <2>2
  <2>3. CASE a # i /\ b # i
    <3>1. PICK k \in 1 .. Len(q), l \in 1 .. Len(q) : up[k] = a /\ up[l] = b
      BY <1>2, <2>3
    <3>2. q[k] = q[l]
      BY <1>1, <1>8, <3>1
    <3>3. k = l
      BY <1>8, <3>2, ByPosition
    <3>4. QED
      BY <3>1, <3>3
  <2>4. QED
    BY <2>2, <2>3
<1>9. ASSUME IsInjective(r), NEW a \in 1 .. Len(q), NEW b \in 1 .. Len(q),
             q[a] = q[b]
      PROVE  a = b
  <2>1. r[up[a]] = r[up[b]]
    BY <1>1, <1>9
  <2>2. up[a] = up[b]
    BY <1>1, <1>9, <2>1, ByPosition
  <2>3. QED
    BY <1>3, <2>2
<1>10. ASSUME IsInjective(r) PROVE r[i] \notin ToSet(q)
  <2>1. ASSUME NEW k \in 1 .. Len(q) PROVE q[k] # r[i]
    <3>1. up[k] \in 1 .. Len(r) /\ up[k] # i /\ r[up[k]] = q[k]
      BY <1>1
    <3>2. QED
      BY <1>4, <1>10, <3>1, ByPosition
  <2>2. QED
    BY <2>1, ByPosition
<1>11. QED
  BY <1>5, <1>6, <1>7, <1>8, <1>9, <1>10, ByPosition

\* The new element is not before a smaller one nor after a larger one.
Fits(q, r, i, up, prio) ==
    \A k \in 1 .. Len(q) : /\ up[k] < i => prio[q[k]] <= prio[r[i]]
                           /\ i < up[k] => prio[r[i]] <= prio[q[k]]

\* Both directions keep the order: removing always, adding when the new
\* element fits its place.
LEMMA OneMoreSorted ==
    ASSUME NEW S, NEW q \in Seq(S), NEW r \in Seq(S), NEW i, NEW up,
           NEW prio \in [S -> Nat], OneMore(q, r, i, up)
    PROVE  /\ Sorted(r, prio) => Sorted(q, prio)
           /\ Sorted(q, prio) /\ Fits(q, r, i, up, prio) => Sorted(r, prio)
<1>1. \A k \in 1 .. Len(q) : up[k] \in 1 .. Len(r) /\ up[k] # i /\ r[up[k]] = q[k]
  BY DEF OneMore
<1>2. \A j \in 1 .. Len(r) : j # i => \E k \in 1 .. Len(q) : up[k] = j
  BY DEF OneMore
<1>3. \A a, b \in 1 .. Len(q) : a < b <=> up[a] < up[b]
  BY DEF OneMore
<1>4. i \in 1 .. Len(r)
  BY DEF OneMore
<1>5. ASSUME Sorted(r, prio), NEW a \in 1 .. Len(q), NEW b \in 1 .. Len(q), a < b
      PROVE  prio[q[a]] <= prio[q[b]]
  <2>1. up[a] < up[b]
    BY <1>3, <1>5
  <2>2. prio[r[up[a]]] <= prio[r[up[b]]]
    BY <1>1, <1>5, <2>1 DEF Sorted
  <2>3. QED
    BY <1>1, <2>2
<1>6. ASSUME Sorted(q, prio), Fits(q, r, i, up, prio),
             NEW a \in 1 .. Len(r), NEW b \in 1 .. Len(r), a < b
      PROVE  prio[r[a]] <= prio[r[b]]
  <2>1. CASE a # i /\ b # i
    <3>1. PICK k \in 1 .. Len(q), l \in 1 .. Len(q) : up[k] = a /\ up[l] = b
      BY <1>2, <2>1
    <3>2. k < l
      BY <1>3, <1>6, <3>1
    <3>3. prio[q[k]] <= prio[q[l]]
      BY <1>6, <3>2 DEF Sorted
    <3>4. QED
      BY <1>1, <3>1, <3>3
  <2>2. CASE a = i
    <3> b # i
      BY <1>4, <1>6, <2>2
    <3>1. PICK l \in 1 .. Len(q) : up[l] = b
      BY <1>2
    <3>2. QED
      BY <1>1, <1>6, <2>2, <3>1 DEF Fits
  <2>3. CASE b = i
    <3> a # i
      BY <1>4, <1>6, <2>3
    <3>1. PICK k \in 1 .. Len(q) : up[k] = a
      BY <1>2
    <3>2. QED
      BY <1>1, <1>6, <2>3, <3>1 DEF Fits
  <2>4. QED
    BY <2>1, <2>2, <2>3
<1>7. QED
  BY <1>5, <1>6 DEF Sorted

\* The places of the elements before and after one is put at place i.
Up(n, i) == [k \in 1 .. n |-> IF k < i THEN k ELSE k + 1]

\* Up is the map OneMore asks for.
LEMMA UpFits ==
    ASSUME NEW S, NEW q \in Seq(S), NEW r \in Seq(S), Len(r) = Len(q) + 1,
           NEW i \in 1 .. Len(r),
           \A k \in 1 .. Len(q) : r[IF k < i THEN k ELSE k + 1] = q[k]
    PROVE  OneMore(q, r, i, Up(Len(q), i))
<1> DEFINE up == Up(Len(q), i)
<1>1. \A k \in 1 .. Len(q) : up[k] = IF k < i THEN k ELSE k + 1
  BY DEF Up
<1>2. up \in [1 .. Len(q) -> 1 .. Len(r)]
  BY DEF Up
<1> HIDE DEF up
<1>3. \A k \in 1 .. Len(q) : up[k] # i /\ r[up[k]] = q[k]
  BY <1>1
<1>4. \A a, b \in 1 .. Len(q) : a < b <=> up[a] < up[b]
  BY <1>1
<1>5. ASSUME NEW j \in 1 .. Len(r), j # i
      PROVE  \E k \in 1 .. Len(q) : up[k] = j
  <2>1. CASE j < i
    <3>1. j \in 1 .. Len(q) /\ up[j] = j
      BY <1>1, <2>1
    <3>2. QED
      BY <3>1
  <2>2. CASE j > i
    <3>1. j - 1 \in 1 .. Len(q) /\ up[j - 1] = j
      BY <1>1, <2>2
    <3>2. QED
      BY <3>1
  <2>3. QED
    BY <1>5, <2>1, <2>2
<1>6. QED
  BY <1>2, <1>3, <1>4, <1>5 DEF OneMore, up

\* A thread that joins the queue, in either discipline, is added to the
\* waiters once, and a queue in order of priority stays so.
LEMMA AddedIsWaiting ==
    ASSUME NEW S, NEW q \in Seq(S), NEW t \in S, NEW prio \in [S -> Nat],
           NEW byPriority \in BOOLEAN, IsInjective(q), t \notin ToSet(q)
    PROVE  /\ Added(q, t, byPriority, prio) \in Seq(S)
           /\ Added(q, t, byPriority, prio) # <<>>
           /\ ToSet(Added(q, t, byPriority, prio)) = ToSet(q) \union {t}
           /\ IsInjective(Added(q, t, byPriority, prio))
           /\ byPriority /\ Sorted(q, prio) =>
                Sorted(Added(q, t, byPriority, prio), prio)
<1>1. CASE byPriority
  <2>1. Added(q, t, byPriority, prio) =
            InsertAt(q, PriorityPlace(q, prio[t], prio), t)
    BY <1>1 DEF Added, AddPriority
  <2>2. PICK i \in 1 .. Len(q) + 1 :
            /\ Added(q, t, byPriority, prio) = InsertAt(q, i, t)
            /\ i <= Len(q) => prio[t] < prio[q[i]]
            /\ \A j \in 1 .. i - 1 : prio[q[j]] <= prio[t]
    <3>1. prio[t] \in Nat
      OBVIOUS
    <3>2. QED
      BY <2>1, <3>1, PriorityPlaceExists
  <2>3. /\ InsertAt(q, i, t) \in Seq(S) /\ Len(InsertAt(q, i, t)) = Len(q) + 1
        /\ \A j \in 1 .. Len(q) + 1 :
             InsertAt(q, i, t)[j] =
                IF j < i THEN q[j] ELSE IF j = i THEN t ELSE q[j - 1]
    BY InsertAtElements
  <2> DEFINE r == InsertAt(q, i, t)
  <2>4. /\ r \in Seq(S) /\ Len(r) = Len(q) + 1
        /\ \A j \in 1 .. Len(q) + 1 :
             r[j] = IF j < i THEN q[j] ELSE IF j = i THEN t ELSE q[j - 1]
    BY <2>3
  <2> HIDE DEF r
  <2>5. r[i] = t /\ i \in 1 .. Len(r) /\ r # <<>>
    BY <2>4
  <2>6. \A k \in 1 .. Len(q) : r[IF k < i THEN k ELSE k + 1] = q[k]
    <3>1. ASSUME NEW k \in 1 .. Len(q), k < i PROVE r[k] = q[k]
      <4>1. k \in 1 .. Len(q) + 1
        OBVIOUS
      <4>2. QED
        BY <2>4, <3>1, <4>1
    <3>2. ASSUME NEW k \in 1 .. Len(q), ~(k < i) PROVE r[k + 1] = q[k]
      <4>1. /\ k + 1 \in 1 .. Len(q) + 1 /\ ~(k + 1 < i) /\ k + 1 # i
            /\ (k + 1) - 1 = k
        BY <3>2
      <4>2. QED
        BY <2>4, <4>1
    <3>3. QED
      BY <3>1, <3>2
  <2>7. PICK up : up = Up(Len(q), i) /\ OneMore(q, r, i, up)
    BY <2>4, <2>5, <2>6, UpFits
  <2>8. ToSet(r) = ToSet(q) \union {t} /\ IsInjective(r)
    BY <2>4, <2>5, <2>7, OneMoreElement
  <2>9. ASSUME Sorted(q, prio), NEW k \in 1 .. Len(q)
        PROVE  /\ up[k] < i => prio[q[k]] <= prio[r[i]]
               /\ i < up[k] => prio[r[i]] <= prio[q[k]]
    <3>1. up[k] = IF k < i THEN k ELSE k + 1
      BY <2>7 DEF Up
    <3>2. CASE k < i
      BY <2>2, <2>5, <3>1, <3>2
    <3>3. CASE k >= i
      <4>1. i \in 1 .. Len(q) /\ prio[t] < prio[q[i]]
        BY <2>2, <3>3
      <4>2. prio[q[i]] <= prio[q[k]]
        <5>1. CASE i = k
          BY <4>1, <5>1
        <5>2. CASE i < k
          BY <2>9, <4>1, <5>2 DEF Sorted
        <5>3. QED
          BY <3>3, <5>1, <5>2
      <4>3. prio[t] \in Nat /\ prio[q[i]] \in Nat /\ prio[q[k]] \in Nat
        BY <4>1
      <4>4. QED
        BY <2>5, <3>1, <3>3, <4>1, <4>2, <4>3
    <3>4. QED
      BY <3>2, <3>3
  <2>10. ASSUME Sorted(q, prio) PROVE Sorted(r, prio)
    <3>1. Fits(q, r, i, up, prio)
      BY <2>9, <2>10 DEF Fits
    <3>2. QED
      BY <2>4, <2>7, <2>10, <3>1, OneMoreSorted
  <2>11. QED
    BY <2>2, <2>4, <2>5, <2>8, <2>10 DEF r
<1>2. CASE ~byPriority
  <2>1. PICK r : r = Append(q, t)
    OBVIOUS
  <2>2. Added(q, t, byPriority, prio) = r
    BY <1>2, <2>1 DEF Added, AddFifo
  <2>3. PICK i : i = Len(q) + 1
    OBVIOUS
  <2>4. /\ r \in Seq(S) /\ Len(r) = Len(q) + 1 /\ r # <<>>
        /\ r[i] = t /\ i \in 1 .. Len(r)
        /\ \A k \in 1 .. Len(q) : r[IF k < i THEN k ELSE k + 1] = q[k]
    BY <2>1, <2>3
  <2>5. PICK up : OneMore(q, r, i, up)
    BY <2>4, UpFits
  <2>6. ToSet(r) = ToSet(q) \union {t} /\ IsInjective(r)
    BY <2>4, <2>5, OneMoreElement
  <2>7. QED
    BY <1>2, <2>2, <2>4, <2>6
<1>3. QED
  BY <1>1, <1>2

\* Removing place i from a queue of distinct waiters removes that waiter only,
\* and keeps the order of the others.
LEMMA RemovedElements ==
    ASSUME NEW S, NEW q \in Seq(S), NEW i \in 1 .. Len(q),
           NEW r \in Seq(S), Len(r) = Len(q) - 1,
           \A j \in 1 .. Len(q) - 1 : r[j] = IF j < i THEN q[j] ELSE q[j + 1],
           NEW prio \in [S -> Nat], IsInjective(q)
    PROVE  /\ ToSet(r) = ToSet(q) \ {q[i]}
           /\ IsInjective(r)
           /\ Sorted(q, prio) => Sorted(r, prio)
<1>1. Len(q) = Len(r) + 1
  OBVIOUS
<1>2. \A k \in 1 .. Len(r) : q[IF k < i THEN k ELSE k + 1] = r[k]
  BY <1>1
<1>3. PICK up : OneMore(r, q, i, up)
  BY <1>1, <1>2, UpFits
<1>4. ToSet(q) = ToSet(r) \union {q[i]} /\ IsInjective(r) /\ q[i] \notin ToSet(r)
  BY <1>3, OneMoreElement
<1>5. Sorted(q, prio) => Sorted(r, prio)
  BY <1>3, OneMoreSorted
<1>6. QED
  BY <1>4, <1>5

\* A thread that leaves the queue from the middle (_EventUnQueue).
LEMMA DeletedIsGone ==
    ASSUME NEW S, NEW q \in Seq(S), NEW t \in S, NEW prio \in [S -> Nat],
           IsInjective(q), t \in ToSet(q)
    PROVE  /\ Deleted(q, t) \in Seq(S)
           /\ ToSet(Deleted(q, t)) = ToSet(q) \ {t}
           /\ IsInjective(Deleted(q, t))
           /\ Sorted(q, prio) => Sorted(Deleted(q, t), prio)
<1>1. \E i \in 1 .. Len(q) : q[i] = t
  BY ByPosition
<1>2. PICK i \in 1 .. Len(q) : q[i] = t /\ Deleted(q, t) = RemoveAt(q, i)
  BY <1>1 DEF Deleted
<1>3. PICK r : r = RemoveAt(q, i)
  OBVIOUS
<1>4. /\ r \in Seq(S) /\ Len(r) = Len(q) - 1
      /\ \A j \in 1 .. Len(q) - 1 : r[j] = IF j < i THEN q[j] ELSE q[j + 1]
  BY <1>3, RemoveAtElements
<1>5. /\ ToSet(r) = ToSet(q) \ {q[i]}
      /\ IsInjective(r)
      /\ Sorted(q, prio) => Sorted(r, prio)
  BY <1>4, RemovedElements
<1>6. QED
  BY <1>2, <1>3, <1>4, <1>5

\* The first waiter leaves the queue (_EventReady...LowLevel).
LEMMA TailIsRest ==
    ASSUME NEW S, NEW q \in Seq(S), NEW prio \in [S -> Nat],
           IsInjective(q), q # <<>>
    PROVE  /\ Head(q) \in ToSet(q) /\ Head(q) \in S
           /\ Tail(q) \in Seq(S)
           /\ ToSet(Tail(q)) = ToSet(q) \ {Head(q)}
           /\ IsInjective(Tail(q))
           /\ Sorted(q, prio) => Sorted(Tail(q), prio)
<1>1. PICK i \in 1 .. Len(q) : i = 1 /\ q[i] = Head(q)
  OBVIOUS
<1>2. PICK r : r = Tail(q)
  OBVIOUS
<1>3. /\ r \in Seq(S) /\ Len(r) = Len(q) - 1
      /\ \A j \in 1 .. Len(q) - 1 : r[j] = IF j < i THEN q[j] ELSE q[j + 1]
  BY <1>1, <1>2, HeadTailProperties
<1>4. /\ ToSet(r) = ToSet(q) \ {q[i]}
      /\ IsInjective(r)
      /\ Sorted(q, prio) => Sorted(r, prio)
  BY <1>3, RemovedElements
<1>5. Head(q) \in ToSet(q) /\ Head(q) \in S
  BY <1>1, ByPosition
<1>6. QED
  BY <1>1, <1>2, <1>3, <1>4, <1>5

\* The empty queue.
LEMMA EmptyQueue ==
    ASSUME NEW S, NEW prio
    PROVE  /\ <<>> \in Seq(S) /\ ToSet(<<>>) = {} /\ IsInjective(<<>>)
           /\ Sorted(<<>>, prio)
           /\ \A q \in Seq(S) : ToSet(q) = {} => q = <<>>
<1>1. <<>> \in Seq(S) /\ Len(<<>>) = 0
  OBVIOUS
<1>2. ToSet(<<>>) = {} /\ IsInjective(<<>>)
  BY DEF ToSet, IsInjective
<1>3. ASSUME NEW q \in Seq(S), q # <<>> PROVE ToSet(q) # {}
  <2>1. 1 \in 1 .. Len(q)
    BY <1>3
  <2>2. QED
    BY <2>1, ByPosition
<1>4. QED
  BY <1>1, <1>2, <1>3 DEF Sorted
=============================================================================
