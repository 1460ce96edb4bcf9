---------------------------- MODULE TimerProofs ----------------------------
(***************************************************************************)
(* Proofs about the wakeup line and the timers that wait on it, for every  *)
(* line, every set of timers and of counts.  A line stores differences;    *)
(* the first part says what each operation does to the sums of them, the   *)
(* time each node has to wait.  From it, the hardware timers: the line     *)
(* stays a line, the scan stays on it, and every timer is called at the    *)
(* tick its count asks for.  Then the application timers, whose line is    *)
(* charged with the time that passed: their thread never oversleeps, and   *)
(* when it runs in the tick it is woken in, no timer is called early.      *)
(***************************************************************************)
EXTENDS HTimer, ITimer, WaitQueueProofs, FiniteSetTheorems

Lines(S) == Seq([node : S, counter : Nat])

\* The nodes and counts of a line.
LEMMA LineTypes ==
    ASSUME NEW S, NEW line \in Lines(S)
    PROVE  /\ Len(line) \in Nat /\ DOMAIN line = 1 .. Len(line)
           /\ \A i \in 1 .. Len(line) :
                 /\ line[i] \in [node : S, counter : Nat]
                 /\ line[i].node \in S /\ line[i].counter \in Nat
<1> DEFINE R == [node : S, counter : Nat]
<1>1. line \in Seq(R)
  BY DEF Lines
<1>2. \A r \in R : r.node \in S /\ r.counter \in Nat
  OBVIOUS
<1> HIDE DEF R
<1>3. Len(line) \in Nat /\ DOMAIN line = 1 .. Len(line) /\ \A i \in 1 .. Len(line) : line[i] \in R
  BY <1>1
<1>4. QED
  BY <1>2, <1>3 DEF R

\* h gives the sum of the first counts of the line.
Sums(line, n, h) ==
    /\ h \in [0 .. n -> Int]
    /\ h[0] = 0
    /\ \A i \in 1 .. n : h[i] = h[i - 1] + line[i].counter

\* There are such sums.
LEMMA SumsExist ==
    ASSUME NEW S, NEW line \in Lines(S)
    PROVE  \A n \in 0 .. Len(line) : \E h : Sums(line, n, h)
<1> DEFINE T == {n \in 0 .. Len(line) : ~ \E h : Sums(line, n, h)}
<1>1. Len(line) \in Nat /\ \A i \in 1 .. Len(line) : line[i].counter \in Nat
  BY LineTypes
<1>2. T \in SUBSET Nat
  BY <1>1
<1>3. SUFFICES ASSUME T # {} PROVE FALSE
  OBVIOUS
<1>4. PICK m \in T : \A n \in T : m <= n
  BY <1>2, <1>3, LeastMember
<1>5. m # 0
  <2> DEFINE h == [i \in 0 .. 0 |-> 0]
  <2>1. Sums(line, 0, h)
    BY DEF Sums
  <2>2. QED
    BY <1>4, <2>1
<1>6. m \in 1 .. Len(line) /\ m - 1 \in 0 .. Len(line) /\ ~(m <= m - 1)
  BY <1>1, <1>4, <1>5
<1>7. PICK h : Sums(line, m - 1, h)
  <2>1. m - 1 \notin T
    <3> HIDE DEF T
    <3>1. QED
      BY <1>4, <1>6
  <2>2. QED
    BY <1>6, <2>1
<1> DEFINE g == [i \in 0 .. m |-> IF i < m THEN h[i] ELSE h[m - 1] + line[m].counter]
<1>8. h \in [0 .. m - 1 -> Int] /\ h[0] = 0
      /\ \A i \in 1 .. m - 1 : h[i] = h[i - 1] + line[i].counter
  BY <1>7 DEF Sums
<1>9. line[m].counter \in Nat /\ m \in Nat
  BY <1>1, <1>6
<1>10. \A i \in 0 .. m - 1 : g[i] = h[i]
  BY <1>9
<1>11. g[m] = h[m - 1] + line[m].counter
  BY <1>9
<1>12. g \in [0 .. m -> Int]
  <2>1. \A i \in 0 .. m : g[i] \in Int
    <3>1. m - 1 \in 0 .. m - 1
      BY <1>6, <1>9
    <3>2. h[m - 1] + line[m].counter \in Int
      BY <1>8, <1>9, <3>1
    <3>3. \A i \in 0 .. m - 1 : h[i] \in Int
      BY <1>8
    <3> HIDE DEF g
    <3>4. \A i \in 0 .. m : i = m \/ i \in 0 .. m - 1
      BY <1>9
    <3>5. QED
      BY <1>10, <1>11, <3>2, <3>3, <3>4
  <2>2. QED
    BY <2>1
<1> HIDE DEF g
<1>13. \A i \in 1 .. m : g[i] = g[i - 1] + line[i].counter
  <2> SUFFICES ASSUME NEW i \in 1 .. m PROVE g[i] = g[i - 1] + line[i].counter
    OBVIOUS
  <2>1. CASE i = m
    BY <1>6, <1>9, <1>10, <1>11, <2>1
  <2>2. CASE i # m
    <3>1. i \in 1 .. m - 1 /\ i - 1 \in 0 .. m - 1 /\ i \in 0 .. m - 1
      BY <1>9, <2>2
    <3>2. QED
      BY <1>8, <1>10, <3>1
  <2>3. QED
    BY <2>1, <2>2
<1>14. Sums(line, m, g)
  <2>1. g[0] = 0
    BY <1>6, <1>8, <1>10
  <2>2. QED
    BY <1>12, <1>13, <2>1 DEF Sums
<1>15. QED
  BY <1>4, <1>14

\* They are unique.
LEMMA SumsUnique ==
    ASSUME NEW S, NEW line \in Lines(S), NEW n \in 0 .. Len(line), NEW m \in 0 .. Len(line),
           NEW h, Sums(line, n, h), NEW g, Sums(line, m, g)
    PROVE  \A i \in 0 .. n : i <= m => h[i] = g[i]
<1> DEFINE T == {i \in 0 .. n : i <= m /\ h[i] # g[i]}
<1>1. n \in Nat /\ m \in Nat /\ T \in SUBSET Nat
  BY LineTypes
<1>2. SUFFICES ASSUME T # {} PROVE FALSE
  OBVIOUS
<1>3. PICK k \in T : \A i \in T : k <= i
  BY <1>1, <1>2, LeastMember
<1>4. k # 0
  BY <1>3 DEF Sums
<1>5. k - 1 \in 0 .. n /\ k - 1 \notin T /\ k - 1 <= m /\ k \in 1 .. n /\ k \in 1 .. m
  BY <1>1, <1>3, <1>4
<1>6. h[k - 1] = g[k - 1]
  BY <1>5
<1>7. h[k] = h[k - 1] + line[k].counter /\ g[k] = g[k - 1] + line[k].counter
  BY <1>5 DEF Sums
<1>8. QED
  BY <1>3, <1>6, <1>7

\* Expiry is the sum.
LEMMA ExpirySum ==
    ASSUME NEW S, NEW line \in Lines(S), NEW k \in 0 .. Len(line)
    PROVE  \E h : Sums(line, k, h) /\ Expiry(line, k) = h[k]
<1> DEFINE F(f) == [i \in 0 .. k |-> IF i = 0 THEN 0 ELSE f[i - 1] + line[i].counter]
           sum  == CHOOSE f : f = F(f)
<1>1. PICK h : Sums(line, k, h)
  BY SumsExist
<1>2. h = F(h)
  <2>1. \A i \in 0 .. k : h[i] = IF i = 0 THEN 0 ELSE h[i - 1] + line[i].counter
    BY <1>1, LineTypes DEF Sums
  <2>2. QED
    BY <1>1, <2>1 DEF Sums
<1>3. sum = F(sum)
  BY <1>2
<1>4. Expiry(line, k) = sum[k]
  BY DEF Expiry
<1>5. \A i \in 0 .. k : sum[i] = IF i = 0 THEN 0 ELSE sum[i - 1] + line[i].counter
  BY <1>3
<1> HIDE DEF sum
<1>6. k \in Nat /\ k \in 0 .. k
  BY LineTypes
<1>7. \A i \in 0 .. k : sum[i] = h[i]
  <2> DEFINE T == {i \in 0 .. k : sum[i] # h[i]}
  <2>1. SUFFICES ASSUME T # {} PROVE FALSE
    OBVIOUS
  <2>0. T \in SUBSET Nat
    BY <1>6
  <2>2. PICK m \in T : \A i \in T : m <= i
    BY <2>0, <2>1, LeastMember
  <2>3. m # 0
    BY <1>1, <1>5, <2>2 DEF Sums
  <2>4. m \in 1 .. k /\ m \in 0 .. k /\ m - 1 \in 0 .. k /\ ~(m <= m - 1)
    BY <1>6, <2>2, <2>3
  <2>5. sum[m - 1] = h[m - 1]
    BY <2>2, <2>4
  <2>6. h[m] = h[m - 1] + line[m].counter
    BY <1>1, <2>4 DEF Sums
  <2>7. QED
    BY <1>5, <2>2, <2>3, <2>4, <2>5, <2>6
<1>8. QED
  BY <1>1, <1>4, <1>6, <1>7

\* What sums up the counts is the expiry.
LEMMA ExpiryIs ==
    ASSUME NEW S, NEW line \in Lines(S), NEW g, Sums(line, Len(line), g)
    PROVE  \A k \in 0 .. Len(line) : Expiry(line, k) = g[k]
<1> SUFFICES ASSUME NEW k \in 0 .. Len(line) PROVE Expiry(line, k) = g[k]
  OBVIOUS
<1>1. PICK h : Sums(line, k, h) /\ Expiry(line, k) = h[k]
  BY ExpirySum
<1>2. Len(line) \in Nat
  BY LineTypes
<1>3. Len(line) \in 0 .. Len(line) /\ k \in 0 .. k /\ k <= Len(line)
  BY <1>2
<1>4. \A i \in 0 .. k : i <= Len(line) => h[i] = g[i]
  BY <1>1, <1>3, SumsUnique
<1>5. QED
  BY <1>1, <1>3, <1>4

\* The expiry grows along the line by the counts.
LEMMA ExpirySteps ==
    ASSUME NEW S, NEW line \in Lines(S)
    PROVE  /\ Expiry(line, 0) = 0
           /\ \A k \in 0 .. Len(line) : Expiry(line, k) \in Nat
           /\ \A k \in 1 .. Len(line) :
                 Expiry(line, k) = Expiry(line, k - 1) + line[k].counter
           /\ \A j, k \in 0 .. Len(line) : j <= k => Expiry(line, j) <= Expiry(line, k)
<1>1. Len(line) \in Nat /\ \A i \in 1 .. Len(line) : line[i].counter \in Nat
  BY LineTypes
<1>2. Len(line) \in 0 .. Len(line) /\ 0 \in 0 .. Len(line)
  BY <1>1
<1>3. PICK g : Sums(line, Len(line), g)
  BY <1>2, SumsExist
<1>4. \A k \in 0 .. Len(line) : Expiry(line, k) = g[k]
  BY <1>3, ExpiryIs
<1>5. /\ g \in [0 .. Len(line) -> Int] /\ g[0] = 0
      /\ \A i \in 1 .. Len(line) : g[i] = g[i - 1] + line[i].counter
  BY <1>3 DEF Sums
<1>6. \A j, k \in 0 .. Len(line) : j <= k => g[j] <= g[k]
  <2> SUFFICES ASSUME NEW j \in 0 .. Len(line) PROVE \A k \in 0 .. Len(line) : j <= k => g[j] <= g[k]
    OBVIOUS
  <2> DEFINE T == {k \in 0 .. Len(line) : j <= k /\ ~(g[j] <= g[k])}
  <2>1. SUFFICES ASSUME T # {} PROVE FALSE
    OBVIOUS
  <2>2. T \in SUBSET Nat
    BY <1>1
  <2>3. PICK m \in T : \A i \in T : m <= i
    BY <2>1, <2>2, LeastMember
  <2>4. m \in 0 .. Len(line) /\ j <= m /\ ~(g[j] <= g[m])
    BY <2>3
  <2>5. m # j
    BY <1>5, <2>4
  <2>6. m \in 1 .. Len(line) /\ m - 1 \in 0 .. Len(line) /\ j <= m - 1 /\ ~(m <= m - 1)
    BY <1>1, <2>4, <2>5
  <2>7. g[j] <= g[m - 1]
    BY <2>3, <2>6
  <2>8. g[m] = g[m - 1] + line[m].counter /\ line[m].counter \in Nat
    BY <1>1, <1>5, <2>6
  <2>9. g[j] \in Int /\ g[m - 1] \in Int /\ g[m] \in Int
    BY <1>5, <2>4, <2>6
  <2>10. QED
    BY <2>4, <2>7, <2>8, <2>9
<1>7. \A k \in 0 .. Len(line) : g[k] \in Nat
  <2> SUFFICES ASSUME NEW k \in 0 .. Len(line) PROVE g[k] \in Nat
    OBVIOUS
  <2>1. g[0] <= g[k] /\ g[k] \in Int
    BY <1>1, <1>2, <1>5, <1>6
  <2>2. QED
    BY <1>5, <2>1
<1>8. \A k \in 1 .. Len(line) : k \in 0 .. Len(line) /\ k - 1 \in 0 .. Len(line)
  BY <1>1
<1>9. QED
  BY <1>2, <1>4, <1>5, <1>6, <1>7, <1>8

\* Where a node of count c goes: behind the nodes that are not later.
LEMMA InsertionPlace ==
    ASSUME NEW S, NEW line \in Lines(S), NEW c \in Nat
    PROVE  LET k == Cardinality({j \in DOMAIN line : Expiry(line, j) <= c})
           IN  /\ k \in 0 .. Len(line)
               /\ \A j \in 0 .. k : Expiry(line, j) <= c
               /\ \A j \in k + 1 .. Len(line) : c < Expiry(line, j)
<1> DEFINE A == {j \in DOMAIN line : Expiry(line, j) <= c}
           T == {j \in 1 .. Len(line) + 1 : j <= Len(line) => c < Expiry(line, j)}
<1>1. Len(line) \in Nat /\ DOMAIN line = 1 .. Len(line)
  BY LineTypes
<1>2. /\ \A j \in 0 .. Len(line) : Expiry(line, j) \in Nat
      /\ \A i, j \in 0 .. Len(line) : i <= j => Expiry(line, i) <= Expiry(line, j)
      /\ Expiry(line, 0) = 0
  BY ExpirySteps
<1>3. T \in SUBSET Nat /\ Len(line) + 1 \in T
  BY <1>1
<1>4. PICK m \in T : \A i \in T : m <= i
  BY <1>3, LeastMember
<1>5. m \in 1 .. Len(line) + 1 /\ (m <= Len(line) => c < Expiry(line, m))
  BY <1>4
<1>6. \A j \in 1 .. m - 1 : j \in 1 .. Len(line) /\ Expiry(line, j) <= c
  <2> SUFFICES ASSUME NEW j \in 1 .. m - 1
               PROVE  j \in 1 .. Len(line) /\ Expiry(line, j) <= c
    OBVIOUS
  <2>1. j \in 1 .. Len(line) /\ j \in 0 .. Len(line) /\ ~(m <= j) /\ j \in 1 .. Len(line) + 1
    BY <1>1, <1>5
  <2>2. j \notin T
    <3> HIDE DEF T
    <3>1. QED
      BY <1>4, <2>1
  <2>3. ~(c < Expiry(line, j))
    BY <2>1, <2>2
  <2>4. QED
    BY <1>2, <2>1, <2>3
<1>7. \A j \in m .. Len(line) : c < Expiry(line, j)
  <2> SUFFICES ASSUME NEW j \in m .. Len(line) PROVE c < Expiry(line, j)
    OBVIOUS
  <2>1. m <= Len(line) /\ m \in 0 .. Len(line) /\ j \in 0 .. Len(line) /\ m <= j
    BY <1>1, <1>5
  <2>2. Expiry(line, m) <= Expiry(line, j) /\ Expiry(line, m) \in Nat /\ Expiry(line, j) \in Nat
    BY <1>2, <2>1
  <2>3. QED
    BY <1>5, <2>1, <2>2
<1>8. A = 1 .. m - 1
  <2>1. \A j \in A : j \in 1 .. m - 1
    <3> SUFFICES ASSUME NEW j \in A PROVE j \in 1 .. m - 1
      OBVIOUS
    <3>1. j \in 1 .. Len(line) /\ Expiry(line, j) <= c /\ j \in 0 .. Len(line)
      BY <1>1
    <3>2. Expiry(line, j) \in Nat
      BY <1>2, <3>1
    <3>3. ~(j \in m .. Len(line))
      BY <1>7, <3>1, <3>2
    <3>4. QED
      BY <1>1, <1>5, <3>1, <3>3
  <2>2. \A j \in 1 .. m - 1 : j \in A
    BY <1>1, <1>6
  <2>3. QED
    BY <2>1, <2>2
<1>9. Cardinality(1 .. m - 1) = m - 1
  <2>1. 1 \in Int /\ m - 1 \in Int /\ (IF 1 > m - 1 THEN 0 ELSE (m - 1) - 1 + 1) = m - 1
    BY <1>1, <1>5
  <2>2. QED
    BY <2>1, FS_Interval
<1>10. Cardinality(A) = m - 1
  BY <1>8, <1>9
<1>11. /\ m - 1 \in 0 .. Len(line) /\ (m - 1) + 1 = m
       /\ \A j \in 0 .. m - 1 : j = 0 \/ j \in 1 .. m - 1
  BY <1>1, <1>5
<1>12. \A j \in 0 .. m - 1 : Expiry(line, j) <= c
  BY <1>2, <1>6, <1>11
<1> DEFINE k == Cardinality(A)
<1>13. k \in 0 .. Len(line) /\ k = m - 1 /\ k + 1 = m
  BY <1>10, <1>11
<1> HIDE DEF k
<1>14. /\ k \in 0 .. Len(line)
       /\ \A j \in 0 .. k : Expiry(line, j) <= c
       /\ \A j \in k + 1 .. Len(line) : c < Expiry(line, j)
  BY <1>7, <1>12, <1>13
<1>15. QED
  BY <1>14 DEF k

-----------------------------------------------------------------------------
(* Inserting and removing a node, by the places and the expiries. *)

\* r is the line with n at place p, to expire after c ticks.
InsertedAt(S, line, r, p, n, c) ==
    /\ p \in 1 .. Len(line) + 1
    /\ r \in Lines(S) /\ Len(r) = Len(line) + 1
    /\ r[p].node = n /\ Expiry(r, p) = c
    /\ \A j \in 1 .. p - 1 :
          r[j].node = line[j].node /\ Expiry(r, j) = Expiry(line, j) /\ Expiry(line, j) <= c
    /\ \A j \in p .. Len(line) :
          /\ r[j + 1].node = line[j].node /\ Expiry(r, j + 1) = Expiry(line, j)
          /\ c < Expiry(line, j)

\* r is the line without the node at place p.
RemovedAt(S, line, r, p) ==
    /\ r \in Lines(S) /\ Len(r) = Len(line) - 1
    /\ \A j \in 1 .. p - 1 : r[j].node = line[j].node /\ Expiry(r, j) = Expiry(line, j)
    /\ \A j \in p .. Len(line) - 1 :
          r[j].node = line[j + 1].node /\ Expiry(r, j) = Expiry(line, j + 1)

\* A line whose counts change at one place.
Recounted(line, k, v) == [line EXCEPT ![k].counter = v]

\* Its nodes and the other counts stay.
LEMMA ChangedCount ==
    ASSUME NEW S, NEW line \in Lines(S), NEW k \in 1 .. Len(line), NEW v \in Nat
    PROVE  /\ Recounted(line, k, v) \in Lines(S)
           /\ Len(Recounted(line, k, v)) = Len(line)
           /\ \A j \in 1 .. Len(line) : Recounted(line, k, v)[j].node = line[j].node
           /\ \A j \in 1 .. Len(line) : j # k => Recounted(line, k, v)[j] = line[j]
           /\ Recounted(line, k, v)[k].counter = v
<1> DEFINE R == [node : S, counter : Nat]
           r == [line EXCEPT ![k].counter = v]
<1>0. Recounted(line, k, v) = r
  BY DEF Recounted
<1>1. /\ Len(line) \in Nat /\ DOMAIN line = 1 .. Len(line)
      /\ \A i \in 1 .. Len(line) : line[i] \in R
  BY LineTypes
<1>2. DOMAIN r = 1 .. Len(line)
  BY <1>1
<1>3. \A j \in 1 .. Len(line) : j # k => r[j] = line[j]
  BY <1>1
<1>4. r[k] = [line[k] EXCEPT !.counter = v]
  BY <1>1
<1>5. r[k] \in R /\ r[k].node = line[k].node /\ r[k].counter = v
  BY <1>1, <1>4
<1>6. \A j \in 1 .. Len(line) : r[j] \in R /\ r[j].node = line[j].node
  BY <1>1, <1>3, <1>5
<1>7. line \in Seq(R)
  BY DEF Lines
<1>8. r = [j \in 1 .. Len(line) |-> r[j]]
  BY <1>1, <1>2
<1> HIDE DEF R
<1> HIDE DEF r
<1>9. r \in [1 .. Len(line) -> R]
  BY <1>6, <1>8
<1>10. r \in Seq(R) /\ Len(r) = Len(line)
  BY <1>1, <1>2, <1>9
<1>11. QED
  BY <1>0, <1>3, <1>5, <1>6, <1>10 DEF Lines, R

\* Inserting puts one node somewhere and corrects the count behind it.
LEMMA InsertedLine ==
    ASSUME NEW S, NEW line \in Lines(S), NEW n \in S, NEW c \in Nat
    PROVE  \E p : InsertedAt(S, line, Inserted(line, n, c), p, n, c)
<1> DEFINE k     == Cardinality({j \in DOMAIN line : Expiry(line, j) <= c})
           delta == c - Expiry(line, k)
           right == IF k = Len(line) THEN line
                    ELSE [line EXCEPT ![k + 1].counter = @ - delta]
           node  == [node |-> n, counter |-> delta]
           R     == [node : S, counter : Nat]
           r     == InsertAt(right, k + 1, node)
<1>1. Inserted(line, n, c) = r
  BY DEF Inserted
<1>2. /\ k \in 0 .. Len(line)
      /\ \A j \in 0 .. k : Expiry(line, j) <= c
      /\ \A j \in k + 1 .. Len(line) : c < Expiry(line, j)
  BY InsertionPlace
<1> HIDE DEF k
<1>3. /\ Len(line) \in Nat /\ DOMAIN line = 1 .. Len(line)
      /\ \A i \in 1 .. Len(line) : line[i] \in R /\ line[i].counter \in Nat
  BY LineTypes
<1>4. /\ Expiry(line, 0) = 0
      /\ \A j \in 0 .. Len(line) : Expiry(line, j) \in Nat
      /\ \A j \in 1 .. Len(line) : Expiry(line, j) = Expiry(line, j - 1) + line[j].counter
  BY ExpirySteps
<1>5. delta \in Nat /\ node \in R
  <2>1. Expiry(line, k) <= c /\ Expiry(line, k) \in Nat
    BY <1>2, <1>3, <1>4
  <2>2. delta \in Nat
    BY <2>1
  <2>3. QED
    BY <2>2
<1>6. /\ right \in Lines(S) /\ Len(right) = Len(line)
      /\ \A j \in 1 .. Len(line) : right[j].node = line[j].node
      /\ \A j \in 1 .. Len(line) : j # k + 1 => right[j] = line[j]
      /\ k + 1 <= Len(line) => right[k + 1].counter = line[k + 1].counter - delta
  <2>1. CASE k = Len(line)
    BY <1>2, <1>3, <2>1
  <2>2. CASE k # Len(line)
    <3>0. k \in 0 .. Len(line) /\ Len(line) \in Nat
      BY <1>2, <1>3
    <3>1. /\ k + 1 \in 1 .. Len(line) /\ k + 1 \in k + 1 .. Len(line) /\ (k + 1) - 1 = k
          /\ k \in 0 .. Len(line) /\ k + 1 \in 0 .. Len(line)
      BY <2>2, <3>0
    <3>2. /\ c < Expiry(line, k + 1) /\ Expiry(line, k + 1) = Expiry(line, k) + line[k + 1].counter
          /\ Expiry(line, k) \in Nat /\ line[k + 1].counter \in Nat
      BY <1>2, <1>3, <1>4, <3>1
    <3> DEFINE v == line[k + 1].counter - delta
    <3>3. v \in Nat
      BY <3>2
    <3>4. right = Recounted(line, k + 1, v)
      BY <2>2 DEF Recounted
    <3> HIDE DEF v, right
    <3>5. /\ right \in Lines(S) /\ Len(right) = Len(line)
          /\ \A j \in 1 .. Len(line) : right[j].node = line[j].node
          /\ \A j \in 1 .. Len(line) : j # k + 1 => right[j] = line[j]
          /\ right[k + 1].counter = v
      <4>1. PICK m \in 1 .. Len(line) : m = k + 1
        BY <3>1
      <4>2. right = Recounted(line, m, v)
        BY <3>4, <4>1
      <4>3. QED
        BY <3>3, <4>1, <4>2, ChangedCount
    <3>6. QED
      BY <3>5 DEF v
  <2>3. QED
    BY <2>1, <2>2
<1> HIDE DEF right, node, delta
<1>7. /\ r \in Lines(S) /\ Len(r) = Len(line) + 1
      /\ \A j \in 1 .. Len(line) + 1 :
            r[j] = IF j < k + 1 THEN right[j] ELSE IF j = k + 1 THEN node ELSE right[j - 1]
  <2>1. right \in Seq(R) /\ k + 1 \in 1 .. Len(right) + 1
    BY <1>2, <1>3, <1>6 DEF Lines
  <2> HIDE DEF R
  <2>2. /\ r \in Seq(R) /\ Len(r) = Len(right) + 1
        /\ \A j \in 1 .. Len(right) + 1 :
              r[j] = IF j < k + 1 THEN right[j] ELSE IF j = k + 1 THEN node ELSE right[j - 1]
    <3>1. PICK m \in 1 .. Len(right) + 1 : m = k + 1
      BY <2>1
    <3>2. r = InsertAt(right, m, node) /\ node \in R
      BY <1>5, <3>1
    <3> HIDE DEF r
    <3>3. /\ r \in Seq(R) /\ Len(r) = Len(right) + 1
          /\ \A j \in 1 .. Len(right) + 1 :
                r[j] = IF j < m THEN right[j] ELSE IF j = m THEN node ELSE right[j - 1]
      <4> HIDE DEF R
      <4>1. right \in Seq(R) /\ m \in 1 .. Len(right) + 1 /\ node \in R
        BY <2>1, <3>1, <3>2
      <4>2. r \in Seq(R) /\ Len(r) = Len(right) + 1
        BY <3>2, <4>1, InsertAtElements
      <4>3. ASSUME NEW j \in 1 .. Len(right) + 1
            PROVE  r[j] = IF j < m THEN right[j] ELSE IF j = m THEN node ELSE right[j - 1]
        <5>1. InsertAt(right, m, node)[j] =
                  IF j < m THEN right[j] ELSE IF j = m THEN node ELSE right[j - 1]
          BY <4>1, InsertAtElements
        <5>2. QED
          BY <3>2, <5>1
      <4>4. QED
        BY <4>2, <4>3
    <3>4. QED
      BY <3>1, <3>3
  <2>3. r \in Lines(S)
    BY <2>2 DEF Lines, R
  <2>4. QED
    BY <1>6, <2>2, <2>3
<1> HIDE DEF r, R
<1> DEFINE h == [i \in 0 .. Len(line) + 1 |->
                   IF i <= k THEN Expiry(line, i)
                   ELSE IF i = k + 1 THEN c ELSE Expiry(line, i - 1)]
<1>8. /\ \A i \in 0 .. k : h[i] = Expiry(line, i)
      /\ h[k + 1] = c
      /\ \A i \in k + 2 .. Len(line) + 1 : h[i] = Expiry(line, i - 1)
  BY <1>2, <1>3
<1>9. h \in [0 .. Len(line) + 1 -> Int]
  <2>1. \A i \in 0 .. Len(line) + 1 : i <= k \/ i = k + 1 \/ i - 1 \in 0 .. Len(line)
    BY <1>2, <1>3
  <2>2. \A i \in 0 .. k : i \in 0 .. Len(line)
    BY <1>2, <1>3
  <2>3. \A i \in 0 .. Len(line) + 1 : i <= k => i \in 0 .. k
    BY <1>2, <1>3
  <2>4. QED
    BY <1>4, <2>1, <2>2, <2>3
<1> HIDE DEF h
<1>10. \A i \in 1 .. Len(line) + 1 : h[i] = h[i - 1] + r[i].counter
  <2> SUFFICES ASSUME NEW i \in 1 .. Len(line) + 1 PROVE h[i] = h[i - 1] + r[i].counter
    OBVIOUS
  <2>1. CASE i <= k
    <3>1. i \in 0 .. k /\ i - 1 \in 0 .. k /\ i \in 1 .. Len(line) /\ i < k + 1 /\ i # k + 1
      BY <1>2, <1>3, <2>1
    <3>2. r[i] = line[i]
      BY <1>6, <1>7, <3>1
    <3>3. QED
      BY <1>4, <1>8, <3>1, <3>2
  <2>2. CASE i = k + 1
    <3>1. k \in 0 .. k /\ k \in 0 .. Len(line) /\ i - 1 = k
      BY <1>2, <1>3, <2>2
    <3>2. r[i].counter = c - Expiry(line, k)
      BY <1>7, <2>2 DEF node, delta
    <3>3. h[i] = c /\ h[i - 1] = Expiry(line, k) /\ Expiry(line, k) \in Nat
      BY <1>4, <1>8, <2>2, <3>1
    <3>4. QED
      BY <3>2, <3>3
  <2>3. CASE i = k + 2
    <3>1. k + 1 \in 1 .. Len(line) /\ i - 1 = k + 1 /\ i \in k + 2 .. Len(line) + 1
          /\ ~(i < k + 1) /\ i # k + 1 /\ (k + 1) - 1 = k /\ k \in 0 .. Len(line)
          /\ k + 1 <= Len(line)
      BY <1>2, <1>3, <2>3
    <3>2. r[i] = right[k + 1] /\ right[k + 1].counter = line[k + 1].counter - delta
      BY <1>6, <1>7, <3>1
    <3>3. h[i] = Expiry(line, k + 1) /\ h[i - 1] = c
      BY <1>8, <3>1
    <3>4. Expiry(line, k + 1) = Expiry(line, k) + line[k + 1].counter /\ Expiry(line, k) \in Nat
          /\ line[k + 1].counter \in Nat
      BY <1>3, <1>4, <3>1
    <3>5. QED
      BY <3>2, <3>3, <3>4 DEF delta
  <2>4. CASE i > k + 2
    <3>1. i - 1 \in 1 .. Len(line) /\ i \in k + 2 .. Len(line) + 1 /\ i - 1 \in k + 2 .. Len(line) + 1
          /\ ~(i < k + 1) /\ i # k + 1 /\ i - 1 # k + 1
      BY <1>2, <1>3, <2>4
    <3>2. r[i] = line[i - 1]
      BY <1>6, <1>7, <3>1
    <3>3. h[i] = Expiry(line, i - 1) /\ h[i - 1] = Expiry(line, (i - 1) - 1)
      BY <1>8, <3>1
    <3>4. QED
      BY <1>4, <3>1, <3>2, <3>3
  <2>5. QED
    BY <1>2, <1>3, <2>1, <2>2, <2>3, <2>4
<1>11. \A i \in 0 .. Len(line) + 1 : Expiry(r, i) = h[i]
  <2>1. 0 \in 0 .. k
    BY <1>2, <1>3
  <2>2. Sums(r, Len(r), h)
    BY <1>4, <1>7, <1>8, <1>9, <1>10, <2>1 DEF Sums
  <2>3. QED
    BY <1>7, <2>2, ExpiryIs
<1>12. InsertedAt(S, line, r, k + 1, n, c)
  <2>1. k + 1 \in 1 .. Len(line) + 1 /\ k + 1 \in 0 .. Len(line) + 1
    BY <1>2, <1>3
  <2>2. r[k + 1].node = n /\ Expiry(r, k + 1) = c
    BY <1>7, <1>8, <1>11, <2>1 DEF node
  <2>3. ASSUME NEW j \in 1 .. (k + 1) - 1
        PROVE  r[j].node = line[j].node /\ Expiry(r, j) = Expiry(line, j) /\ Expiry(line, j) <= c
    <3>1. j \in 0 .. k /\ j \in 1 .. Len(line) /\ j \in 1 .. Len(line) + 1 /\ j < k + 1
          /\ j \in 0 .. Len(line) + 1
      BY <1>2, <1>3
    <3>2. QED
      BY <1>2, <1>6, <1>7, <1>8, <1>11, <3>1
  <2>4. ASSUME NEW j \in k + 1 .. Len(line)
        PROVE  /\ r[j + 1].node = line[j].node /\ Expiry(r, j + 1) = Expiry(line, j)
               /\ c < Expiry(line, j)
    <3>1. j + 1 \in k + 2 .. Len(line) + 1 /\ j + 1 \in 1 .. Len(line) + 1
          /\ j + 1 \in 0 .. Len(line) + 1 /\ ~(j + 1 < k + 1) /\ j + 1 # k + 1
          /\ (j + 1) - 1 = j /\ j \in 1 .. Len(line)
      BY <1>2, <1>3
    <3>2. r[j + 1] = right[j] /\ right[j].node = line[j].node
      BY <1>6, <1>7, <3>1
    <3>3. h[j + 1] = Expiry(line, j) /\ Expiry(r, j + 1) = h[j + 1]
      BY <1>8, <1>11, <3>1
    <3>4. QED
      BY <1>2, <3>2, <3>3
  <2>5. QED
    BY <1>7, <2>1, <2>2, <2>3, <2>4 DEF InsertedAt
<1>13. QED
  BY <1>1, <1>12

\* No node stands on the line twice.
Apart(line) ==
    \A i, j \in 1 .. Len(line) : line[i].node = line[j].node => i = j

\* A node has one place.
LEMMA PlaceIs ==
    ASSUME NEW S, NEW line \in Lines(S), Apart(line), NEW p \in 1 .. Len(line)
    PROVE  Place(line, line[p].node) = p
<1>1. DOMAIN line = 1 .. Len(line)
  BY LineTypes
<1>2. \A k \in DOMAIN line : line[k].node = line[p].node => k = p
  BY <1>1 DEF Apart
<1>3. QED
  BY <1>1, <1>2 DEF Place

\* Removing takes one node out and corrects the count behind it.
LEMMA RemovedLine ==
    ASSUME NEW S, NEW line \in Lines(S), Apart(line), NEW k \in 1 .. Len(line)
    PROVE  RemovedAt(S, line, Removed(line, line[k].node), k)
<1> DEFINE sum   == line[k + 1].counter + line[k].counter
           right == IF k = Len(line) THEN line ELSE Recounted(line, k + 1, sum)
           R     == [node : S, counter : Nat]
           r     == RemoveAt(right, k)
<1>1. Removed(line, line[k].node) = r
  BY PlaceIs DEF Removed, Recounted
<1>2. /\ Len(line) \in Nat /\ DOMAIN line = 1 .. Len(line)
      /\ \A i \in 1 .. Len(line) : line[i] \in R /\ line[i].counter \in Nat
  BY LineTypes
<1>3. /\ Expiry(line, 0) = 0
      /\ \A j \in 0 .. Len(line) : Expiry(line, j) \in Nat
      /\ \A j \in 1 .. Len(line) : Expiry(line, j) = Expiry(line, j - 1) + line[j].counter
  BY ExpirySteps
<1>4. /\ right \in Lines(S) /\ Len(right) = Len(line)
      /\ \A j \in 1 .. Len(line) : right[j].node = line[j].node
      /\ \A j \in 1 .. Len(line) : j # k + 1 => right[j] = line[j]
      /\ k + 1 <= Len(line) => right[k + 1].counter = sum
  <2>1. CASE k = Len(line)
    BY <1>2, <2>1
  <2>2. CASE k # Len(line)
    <3>0. k + 1 \in 1 .. Len(line)
      <4>1. Len(line) \in Nat
        BY <1>2
      <4>2. QED
        BY <2>2, <4>1
    <3>1. PICK m \in 1 .. Len(line) : m = k + 1
      BY <3>0
    <3>2. sum \in Nat
      <4>1. line[m].counter \in Nat /\ line[k].counter \in Nat
        BY <1>2
      <4>2. QED
        BY <3>1, <4>1
    <3>3. right = Recounted(line, m, sum)
      BY <2>2, <3>1
    <3> HIDE DEF sum, right
    <3>4. /\ right \in Lines(S) /\ Len(right) = Len(line)
          /\ \A j \in 1 .. Len(line) : right[j].node = line[j].node
          /\ \A j \in 1 .. Len(line) : j # m => right[j] = line[j]
          /\ right[m].counter = sum
      BY <3>1, <3>2, <3>3, ChangedCount
    <3>5. QED
      BY <3>1, <3>4
  <2>3. QED
    BY <2>1, <2>2
<1> HIDE DEF right, sum
<1>5. /\ r \in Lines(S) /\ Len(r) = Len(line) - 1
      /\ \A j \in 1 .. Len(line) - 1 : r[j] = IF j < k THEN right[j] ELSE right[j + 1]
  <2>1. right \in Seq(R) /\ k \in 1 .. Len(right)
    BY <1>4 DEF Lines
  <2> HIDE DEF R
  <2>2. r \in Seq(R) /\ Len(r) = Len(right) - 1
    BY <2>1, RemoveAtElements
  <2>3. ASSUME NEW j \in 1 .. Len(right) - 1
        PROVE  r[j] = IF j < k THEN right[j] ELSE right[j + 1]
    BY <2>1, RemoveAtElements
  <2>4. r \in Lines(S)
    BY <2>2 DEF Lines, R
  <2>5. QED
    BY <1>4, <2>2, <2>3, <2>4
<1> HIDE DEF r, R
<1> DEFINE h == [i \in 0 .. Len(line) - 1 |->
                   IF i < k THEN Expiry(line, i) ELSE Expiry(line, i + 1)]
<1>6. /\ \A i \in 0 .. k - 1 : h[i] = Expiry(line, i)
      /\ \A i \in k .. Len(line) - 1 : h[i] = Expiry(line, i + 1)
  BY <1>2
<1>7. h \in [0 .. Len(line) - 1 -> Int]
  <2>1. \A i \in 0 .. Len(line) - 1 : i \in 0 .. Len(line) /\ i + 1 \in 0 .. Len(line)
    BY <1>2
  <2>2. QED
    BY <1>3, <2>1
<1> HIDE DEF h
<1>8. \A i \in 1 .. Len(line) - 1 : h[i] = h[i - 1] + r[i].counter
  <2> SUFFICES ASSUME NEW i \in 1 .. Len(line) - 1 PROVE h[i] = h[i - 1] + r[i].counter
    OBVIOUS
  <2>1. CASE i < k
    <3>1. i \in 0 .. k - 1 /\ i - 1 \in 0 .. k - 1 /\ i \in 1 .. Len(line) /\ i # k + 1
      BY <1>2, <2>1
    <3>2. r[i] = line[i]
      BY <1>4, <1>5, <2>1, <3>1
    <3>3. QED
      BY <1>3, <1>6, <3>1, <3>2
  <2>2. CASE i = k
    <3>1. /\ k - 1 \in 0 .. k - 1 /\ k \in k .. Len(line) - 1 /\ k + 1 \in 1 .. Len(line)
          /\ (k + 1) - 1 = k /\ k + 1 <= Len(line) /\ k - 1 \in 0 .. Len(line) /\ ~(k < k)
      BY <1>2, <2>2
    <3>2. r[i] = right[k + 1] /\ right[k + 1].counter = sum
      BY <1>4, <1>5, <2>2, <3>1
    <3>3. h[i] = Expiry(line, k + 1) /\ h[i - 1] = Expiry(line, k - 1)
      BY <1>6, <2>2, <3>1
    <3>4. /\ Expiry(line, k + 1) = Expiry(line, k) + line[k + 1].counter
          /\ Expiry(line, k) = Expiry(line, k - 1) + line[k].counter
          /\ Expiry(line, k - 1) \in Nat /\ line[k].counter \in Nat
          /\ line[k + 1].counter \in Nat
      BY <1>2, <1>3, <3>1
    <3>5. QED
      BY <3>2, <3>3, <3>4 DEF sum
  <2>3. CASE i > k
    <3>1. /\ i \in k .. Len(line) - 1 /\ i - 1 \in k .. Len(line) - 1 /\ ~(i < k)
          /\ i + 1 \in 1 .. Len(line) /\ i + 1 # k + 1 /\ (i - 1) + 1 = (i + 1) - 1
      BY <1>2, <2>3
    <3>2. r[i] = line[i + 1]
      BY <1>4, <1>5, <3>1
    <3>3. h[i] = Expiry(line, i + 1) /\ h[i - 1] = Expiry(line, (i + 1) - 1)
      BY <1>6, <3>1
    <3>4. QED
      BY <1>3, <3>1, <3>2, <3>3
  <2>4. QED
    BY <1>2, <2>1, <2>2, <2>3
<1>9. \A i \in 0 .. Len(line) - 1 : Expiry(r, i) = h[i]
  <2>1. 0 \in 0 .. k - 1
    BY <1>2
  <2>2. Sums(r, Len(r), h)
    BY <1>3, <1>5, <1>6, <1>7, <1>8, <2>1 DEF Sums
  <2>3. QED
    BY <1>5, <2>2, ExpiryIs
<1>10. ASSUME NEW j \in 1 .. k - 1
       PROVE  r[j].node = line[j].node /\ Expiry(r, j) = Expiry(line, j)
  <2>1. /\ j \in 0 .. k - 1 /\ j \in 1 .. Len(line) - 1 /\ j < k /\ j \in 1 .. Len(line)
        /\ j \in 0 .. Len(line) - 1
    BY <1>2
  <2>2. QED
    BY <1>4, <1>5, <1>6, <1>9, <2>1
<1>11. ASSUME NEW j \in k .. Len(line) - 1
       PROVE  r[j].node = line[j + 1].node /\ Expiry(r, j) = Expiry(line, j + 1)
  <2>1. /\ j + 1 \in 1 .. Len(line) /\ j \in 1 .. Len(line) - 1 /\ ~(j < k)
        /\ j \in 0 .. Len(line) - 1
    BY <1>2
  <2>2. QED
    BY <1>4, <1>5, <1>6, <1>9, <2>1
<1>12. QED
  BY <1>1, <1>5, <1>10, <1>11 DEF RemovedAt

-----------------------------------------------------------------------------
(* The nodes of a line, and the time each has left. *)

Nodes(line) == {line[i].node : i \in 1 .. Len(line)}

LeftOn(line, n) == Expiry(line, Place(line, n))

\* b is the line a and one node more, at place p.
OneMoreNode(a, b, p) ==
    /\ p \in 1 .. Len(b) /\ Len(b) = Len(a) + 1
    /\ \A j \in 1 .. p - 1 : a[j].node = b[j].node /\ Expiry(a, j) = Expiry(b, j)
    /\ \A j \in p .. Len(a) : a[j].node = b[j + 1].node /\ Expiry(a, j) = Expiry(b, j + 1)

\* With one node more the others keep the time they have left.
LEMMA OneMoreNodeFacts ==
    ASSUME NEW S, NEW a \in Lines(S), NEW b \in Lines(S), NEW p, OneMoreNode(a, b, p)
    PROVE  /\ Nodes(b) = Nodes(a) \union {b[p].node}
           /\ Apart(b) <=> Apart(a) /\ b[p].node \notin Nodes(a)
           /\ Apart(b) => \A m \in Nodes(a) : LeftOn(a, m) = LeftOn(b, m)
<1> DEFINE From(j) == IF j < p THEN j ELSE j + 1
<1>1. Len(a) \in Nat /\ Len(b) \in Nat
  BY LineTypes
<1>2. p \in 1 .. Len(b) /\ Len(b) = Len(a) + 1
  BY DEF OneMoreNode
<1>3. \A j \in 1 .. Len(a) : From(j) \in 1 .. Len(b) /\ From(j) # p
  BY <1>1, <1>2
<1>4. \A i, j \in 1 .. Len(a) : From(i) = From(j) => i = j
  BY <1>1, <1>2
<1>5. \A i \in 1 .. Len(b) : i # p => \E j \in 1 .. Len(a) : i = From(j)
  <2> SUFFICES ASSUME NEW i \in 1 .. Len(b), i # p PROVE \E j \in 1 .. Len(a) : i = From(j)
    OBVIOUS
  <2>1. CASE i < p
    <3>1. i \in 1 .. Len(a) /\ i = From(i)
      BY <1>1, <1>2, <2>1
    <3>2. QED
      BY <3>1
  <2>2. CASE i > p
    <3>1. i - 1 \in 1 .. Len(a) /\ i = From(i - 1)
      BY <1>1, <1>2, <2>2
    <3>2. QED
      BY <3>1
  <2>3. QED
    BY <1>1, <1>2, <2>1, <2>2
<1>6. \A j \in 1 .. Len(a) : a[j].node = b[From(j)].node /\ Expiry(a, j) = Expiry(b, From(j))
  <2> SUFFICES ASSUME NEW j \in 1 .. Len(a)
               PROVE  a[j].node = b[From(j)].node /\ Expiry(a, j) = Expiry(b, From(j))
    OBVIOUS
  <2>1. CASE j < p
    <3>1. j \in 1 .. p - 1 /\ From(j) = j
      BY <1>1, <1>2, <2>1
    <3>2. QED
      BY <3>1 DEF OneMoreNode
  <2>2. CASE ~(j < p)
    <3>1. j \in p .. Len(a) /\ From(j) = j + 1
      BY <1>1, <1>2, <2>2
    <3>2. QED
      BY <3>1 DEF OneMoreNode
  <2>3. QED
    BY <2>1, <2>2
<1> HIDE DEF Up
<1>7. Nodes(b) = Nodes(a) \union {b[p].node}
  <2>1. \A x \in Nodes(b) : x \in Nodes(a) \/ x = b[p].node
    <3> SUFFICES ASSUME NEW i \in 1 .. Len(b), i # p PROVE b[i].node \in Nodes(a)
      BY DEF Nodes
    <3>1. PICK j \in 1 .. Len(a) : i = From(j)
      BY <1>5
    <3>2. QED
      BY <1>6, <3>1 DEF Nodes
  <2>2. \A x \in Nodes(a) : x \in Nodes(b)
    <3> SUFFICES ASSUME NEW j \in 1 .. Len(a) PROVE a[j].node \in Nodes(b)
      BY DEF Nodes
    <3>1. QED
      BY <1>3, <1>6 DEF Nodes
  <2>3. b[p].node \in Nodes(b)
    BY <1>2 DEF Nodes
  <2>4. QED
    BY <2>1, <2>2, <2>3
<1>8. ASSUME Apart(b) PROVE Apart(a) /\ b[p].node \notin Nodes(a)
  <2>1. ASSUME NEW i \in 1 .. Len(a), NEW j \in 1 .. Len(a), a[i].node = a[j].node
        PROVE  i = j
    <3>1. From(i) \in 1 .. Len(b) /\ From(j) \in 1 .. Len(b) /\ b[From(i)].node = b[From(j)].node
      BY <1>3, <1>6, <2>1
    <3>2. From(i) = From(j)
      BY <1>8, <3>1 DEF Apart
    <3>3. QED
      BY <1>4, <3>2
  <2>2. ASSUME NEW j \in 1 .. Len(a), b[p].node = a[j].node PROVE FALSE
    <3>1. From(j) \in 1 .. Len(b) /\ From(j) # p /\ b[From(j)].node = b[p].node
      BY <1>3, <1>6, <2>2
    <3>2. QED
      BY <1>2, <1>8, <3>1 DEF Apart
  <2>3. QED
    BY <2>1, <2>2 DEF Apart, Nodes
<1>9. ASSUME Apart(a), b[p].node \notin Nodes(a) PROVE Apart(b)
  <2>1. ASSUME NEW i \in 1 .. Len(b), i # p PROVE b[i].node \in Nodes(a)
    <3>1. PICK j \in 1 .. Len(a) : i = From(j)
      BY <1>5, <2>1
    <3>2. QED
      BY <1>6, <3>1 DEF Nodes
  <2>2. ASSUME NEW i \in 1 .. Len(b), NEW j \in 1 .. Len(b), i # p, j # p,
               b[i].node = b[j].node
        PROVE  i = j
    <3>1. PICK x \in 1 .. Len(a) : i = From(x)
      BY <1>5, <2>2
    <3>2. PICK y \in 1 .. Len(a) : j = From(y)
      BY <1>5, <2>2
    <3>3. a[x].node = a[y].node
      BY <1>6, <2>2, <3>1, <3>2
    <3>4. QED
      BY <1>9, <3>1, <3>2, <3>3 DEF Apart
  <2>3. QED
    BY <1>9, <2>1, <2>2 DEF Apart
<1>10. ASSUME Apart(b), NEW m \in Nodes(a) PROVE LeftOn(a, m) = LeftOn(b, m)
  <2>1. PICK j \in 1 .. Len(a) : a[j].node = m
    BY DEF Nodes
  <2>2. PICK i \in 1 .. Len(b) : i = From(j)
    BY <1>3
  <2>3. Place(a, m) = j
    BY <1>8, <1>10, <2>1, PlaceIs
  <2>4. b[i].node = m
    BY <1>6, <2>1, <2>2
  <2>5. Place(b, m) = i
    BY <1>10, <2>4, PlaceIs
  <2>6. QED
    BY <1>6, <2>2, <2>3, <2>5 DEF LeftOn
<1>11. QED
  BY <1>7, <1>8, <1>9, <1>10

-----------------------------------------------------------------------------
(* A line with the place of its scan. *)

Scanned(S, v) ==
    /\ v \in [line : Lines(S), op : S \union {Null}, last : {0}]
    /\ Apart(v.line)
    /\ v.op \in Nodes(v.line) \union {Null}

\* The node the scan visits next is the head, or later than the node before it.
OpLater(v) ==
    \A p \in 2 .. Len(v.line) :
       v.line[p].node = v.op => Expiry(v.line, p - 1) < Expiry(v.line, p)

\* No node before the place of the scan is due: the head is not due, or is the
\* node the scan visits next.
Ahead(v) ==
    /\ v.line # <<>> /\ Expiry(v.line, 1) = 0 => v.op = v.line[1].node
    /\ OpLater(v)

\* The first node expires when its count is used up.
LEMMA HeadExpiry ==
    ASSUME NEW S, NEW line \in Lines(S), line # <<>>
    PROVE  /\ 1 \in 1 .. Len(line)
           /\ Expiry(line, 1) = line[1].counter /\ line[1].counter \in Nat
           /\ line[1].node \in S
<1>1. 1 \in 1 .. Len(line) /\ 1 - 1 = 0
  BY DEF Lines
<1>2. Expiry(line, 1) = Expiry(line, 1 - 1) + line[1].counter /\ Expiry(line, 0) = 0
  BY <1>1, ExpirySteps
<1>3. line[1].counter \in Nat /\ line[1].node \in S
  BY <1>1, LineTypes
<1>4. QED
  BY <1>1, <1>2, <1>3

\* r is v with the node n added, which has to wait c ticks.
WithNode(S, v, n, c, r) ==
    /\ Scanned(S, r)
    /\ Nodes(r.line) = Nodes(v.line) \union {n}
    /\ LeftOn(r.line, n) = c
    /\ \A m \in Nodes(v.line) : LeftOn(r.line, m) = LeftOn(v.line, m)
    /\ OpLater(v) => OpLater(r)
    /\ Ahead(v) => Ahead(r)

\* _WakeupAdd, without the time of a charge.
LEMMA AddEffect ==
    ASSUME NEW S, Null \notin S, NEW v, Scanned(S, v), NEW n \in S, n \notin Nodes(v.line),
           NEW c \in Nat, c # 0, NEW r, r = WakeupAdd(v, n, c, FALSE, 0)
    PROVE  WithNode(S, v, n, c, r)
<1> DEFINE a == v.line
           b == Inserted(a, n, c)
<1>1. /\ v \in [line : Lines(S), op : S \union {Null}, last : {0}]
      /\ a \in Lines(S) /\ Apart(a) /\ v.op \in Nodes(a) \union {Null}
      /\ v.op \in S \union {Null} /\ v.last = 0
  BY DEF Scanned
<1>2. r.line = b /\ r.op = v.op /\ r.last = 0
      /\ (b \in Lines(S) => r \in [line : Lines(S), op : S \union {Null}, last : {0}])
  BY <1>1 DEF WakeupAdd
<1> HIDE DEF a, b
<1>3. PICK p : InsertedAt(S, a, b, p, n, c)
  BY <1>1, InsertedLine DEF b
<1>4. b \in Lines(S) /\ Len(a) \in Nat /\ Len(b) = Len(a) + 1 /\ p \in 1 .. Len(b)
      /\ b[p].node = n /\ Expiry(b, p) = c
  BY <1>1, <1>3, LineTypes DEF InsertedAt
<1>5. OneMoreNode(a, b, p)
  BY <1>3, <1>4 DEF OneMoreNode, InsertedAt
<1>6. /\ Nodes(b) = Nodes(a) \union {n} /\ Apart(b)
      /\ \A m \in Nodes(a) : LeftOn(a, m) = LeftOn(b, m)
  <2>1. n \notin Nodes(a)
    BY DEF a
  <2>2. QED
    BY <1>1, <1>4, <1>5, <2>1, OneMoreNodeFacts
<1>7. LeftOn(b, n) = c
  <2>1. Place(b, n) = p
    BY <1>4, <1>6, PlaceIs
  <2>2. QED
    BY <1>4, <2>1 DEF LeftOn
<1>8. Scanned(S, r)
  BY <1>1, <1>2, <1>4, <1>6 DEF Scanned
<1>9. Ahead(v) /\ OpLater(r) => Ahead(r)
  <2>1. SUFFICES ASSUME a # <<>> /\ Expiry(a, 1) = 0 => v.op = a[1].node
                 PROVE  Expiry(b, 1) = 0 => v.op = b[1].node
    BY <1>2 DEF Ahead, a
  <2>2. ASSUME Expiry(b, 1) = 0 PROVE v.op = b[1].node
    <3>1. p # 1 /\ 1 \in 1 .. p - 1 /\ Len(a) # 0
      BY <1>4, <2>2
    <3>2. b[1].node = a[1].node /\ Expiry(b, 1) = Expiry(a, 1)
      BY <1>3, <3>1 DEF InsertedAt
    <3>3. a # <<>>
      BY <3>1
    <3>4. QED
      BY <2>1, <2>2, <3>2, <3>3
  <2>3. QED
    BY <2>2
<1>10. ASSUME OpLater(v) PROVE OpLater(r)
  <2>1. \A i \in 2 .. Len(a) : a[i].node = v.op => Expiry(a, i - 1) < Expiry(a, i)
    BY <1>10 DEF OpLater, a
  <2>3. ASSUME NEW i \in 2 .. Len(b), b[i].node = v.op
        PROVE  Expiry(b, i - 1) < Expiry(b, i)
    <3>1. i # p
      <4>1. v.op # n
        BY <1>1 DEF a
      <4>2. QED
        BY <1>4, <2>3, <4>1
    <3>2. CASE i < p
      <4>1. i \in 1 .. p - 1 /\ i - 1 \in 1 .. p - 1 /\ i \in 2 .. Len(a)
        BY <1>4, <3>2
      <4>2. b[i].node = a[i].node /\ Expiry(b, i) = Expiry(a, i) /\ Expiry(b, i - 1) = Expiry(a, i - 1)
        BY <1>3, <4>1 DEF InsertedAt
      <4>3. QED
        BY <2>1, <2>3, <4>1, <4>2
    <3>3. CASE i = p + 1
      <4>1. p \in p .. Len(a) /\ i - 1 = p
        BY <1>4, <3>3
      <4>2. Expiry(b, p + 1) = Expiry(a, p) /\ c < Expiry(a, p)
        BY <1>3, <4>1 DEF InsertedAt
      <4>3. QED
        BY <1>4, <3>3, <4>1, <4>2
    <3>4. CASE i > p + 1
      <4>1. /\ i - 1 \in p .. Len(a) /\ (i - 1) - 1 \in p .. Len(a) /\ i - 1 \in 2 .. Len(a)
            /\ (i - 1) + 1 = i /\ ((i - 1) - 1) + 1 = i - 1
        BY <1>4, <3>4
      <4>2. /\ b[i].node = a[i - 1].node /\ Expiry(b, i) = Expiry(a, i - 1)
            /\ Expiry(b, i - 1) = Expiry(a, (i - 1) - 1)
        BY <1>3, <4>1 DEF InsertedAt
      <4>3. QED
        BY <2>1, <2>3, <4>1, <4>2
    <3>5. QED
      BY <1>4, <3>1, <3>2, <3>3, <3>4
  <2>4. QED
    BY <1>2, <2>3 DEF OpLater
<1>11. QED
  BY <1>2, <1>6, <1>7, <1>8, <1>9, <1>10 DEF a, WithNode, Ahead

\* r is v without the node n.
WithoutNode(S, v, n, r) ==
    /\ Scanned(S, r)
    /\ Nodes(r.line) = Nodes(v.line) \ {n}
    /\ \A m \in Nodes(r.line) : LeftOn(r.line, m) = LeftOn(v.line, m)
    /\ OpLater(v) => OpLater(r)
    /\ Ahead(v) => Ahead(r)

\* _WakeupDel, without the time of a charge.
LEMMA DelEffect ==
    ASSUME NEW S, Null \notin S, NEW v, Scanned(S, v), NEW n \in Nodes(v.line),
           NEW r, r = WakeupDel(v, n, FALSE, 0)
    PROVE  WithoutNode(S, v, n, r)
<1> DEFINE b == v.line
           a == Removed(b, n)
<1>1. /\ v \in [line : Lines(S), op : S \union {Null}, last : {0}]
      /\ b \in Lines(S) /\ Apart(b) /\ v.op \in Nodes(b) \union {Null}
      /\ v.op \in S \union {Null} /\ v.last = 0
  BY DEF Scanned
<1>2. r.line = a /\ r.last = 0 /\ r.op = (IF v.op = n THEN NextOf(b, n) ELSE v.op)
      /\ r = [line |-> a, op |-> r.op, last |-> 0]
  BY <1>1 DEF WakeupDel
<1>3. PICK p \in 1 .. Len(b) : b[p].node = n
  BY DEF Nodes
<1> HIDE DEF a, b
<1>4. RemovedAt(S, b, a, p)
  BY <1>1, <1>3, RemovedLine DEF a
<1>5. /\ Len(b) \in Nat /\ a \in Lines(S) /\ Len(a) = Len(b) - 1
      /\ \A i \in 1 .. Len(b) : b[i].node \in S
  BY <1>1, <1>4, LineTypes DEF RemovedAt
<1>6. OneMoreNode(a, b, p)
  <2>1. \A j : j \in p .. Len(a) => j \in p .. Len(b) - 1
    BY <1>5
  <2>2. p \in 1 .. Len(b) /\ Len(b) = Len(a) + 1
    BY <1>3, <1>5
  <2>3. QED
    BY <1>4, <2>1, <2>2 DEF OneMoreNode, RemovedAt
<1>7. /\ Nodes(b) = Nodes(a) \union {n} /\ n \notin Nodes(a) /\ Apart(a)
      /\ \A m \in Nodes(a) : LeftOn(a, m) = LeftOn(b, m)
  BY <1>1, <1>3, <1>5, <1>6, OneMoreNodeFacts
<1>8. Place(b, n) = p
  BY <1>1, <1>3, PlaceIs
<1>9. /\ v.op # n => r.op = v.op
      /\ v.op = n /\ p = Len(b) => r.op = Null
      /\ v.op = n /\ p # Len(b) => p \in 1 .. Len(a) /\ r.op = a[p].node
  <2>1. CASE v.op = n /\ p # Len(b)
    <3>1. p \in p .. Len(b) - 1 /\ p \in 1 .. Len(a)
      BY <1>3, <1>5, <2>1
    <3>2. a[p].node = b[p + 1].node
      BY <1>4, <3>1 DEF RemovedAt
    <3>3. QED
      BY <1>2, <1>8, <2>1, <3>1, <3>2 DEF NextOf
  <2>2. QED
    BY <1>2, <1>8, <2>1 DEF NextOf
<1>10. r.op \in Nodes(a) \union {Null} /\ r.op \in S \union {Null}
  <2>1. v.op # n => v.op \in Nodes(a) \union {Null}
    BY <1>1, <1>7
  <2>2. \A i \in 1 .. Len(a) : a[i].node \in Nodes(a)
    BY DEF Nodes
  <2>3. \A i \in 1 .. Len(a) : a[i].node \in S
    BY <1>5, LineTypes
  <2>4. QED
    BY <1>1, <1>9, <2>1, <2>2, <2>3
<1>11. Scanned(S, r)
  <2>1. r \in [line : Lines(S), op : S \union {Null}, last : {0}]
    BY <1>2, <1>5, <1>10
  <2>2. QED
    BY <1>2, <1>7, <1>10, <2>1 DEF Scanned
<1>13. /\ \A i, j \in 0 .. Len(b) : i <= j => Expiry(b, i) <= Expiry(b, j)
       /\ \A i \in 0 .. Len(b) : Expiry(b, i) \in Nat
  BY <1>1, ExpirySteps
<1>12. Ahead(v) /\ OpLater(r) => Ahead(r)
  <2>1. SUFFICES ASSUME b # <<>> /\ Expiry(b, 1) = 0 => v.op = b[1].node
                 PROVE  a # <<>> /\ Expiry(a, 1) = 0 => r.op = a[1].node
    BY <1>2 DEF Ahead, b
  <2>4. ASSUME a # <<>>, Expiry(a, 1) = 0 PROVE r.op = a[1].node
    <3>1. b # <<>> /\ Len(a) # 0 /\ Len(b) # 0 /\ 1 \in 1 .. Len(a)
      BY <1>5, <2>4, EmptySeq
    <3>2. CASE p = 1
      <4>1. 1 \in p .. Len(b) - 1 /\ 1 \in 0 .. Len(b) /\ 2 \in 0 .. Len(b) /\ p # Len(b)
        BY <1>5, <3>1, <3>2
      <4>2. Expiry(a, 1) = Expiry(b, 1 + 1)
        BY <1>4, <4>1 DEF RemovedAt
      <4>3. Expiry(b, 1) <= Expiry(b, 2) /\ Expiry(b, 1) \in Nat /\ Expiry(b, 2) \in Nat
        BY <1>13, <4>1
      <4>4. v.op = n
        BY <1>3, <2>1, <2>4, <3>1, <3>2, <4>2, <4>3
      <4>5. QED
        BY <1>9, <3>2, <4>1, <4>4
    <3>3. CASE p # 1
      <4>1. 1 \in 1 .. p - 1
        BY <1>3, <1>5, <3>3
      <4>2. a[1].node = b[1].node /\ Expiry(a, 1) = Expiry(b, 1)
        BY <1>4, <4>1 DEF RemovedAt
      <4>3. v.op = a[1].node /\ a[1].node \in Nodes(a)
        BY <2>1, <2>4, <3>1, <4>2 DEF Nodes
      <4>4. QED
        BY <1>7, <1>9, <4>3
    <3>4. QED
      BY <3>2, <3>3
  <2>5. QED
    BY <2>4
<1>14. ASSUME OpLater(v) PROVE OpLater(r)
  <2>1. \A i \in 2 .. Len(b) : b[i].node = v.op => Expiry(b, i - 1) < Expiry(b, i)
    BY <1>14 DEF OpLater, b
  <2>5. ASSUME NEW i \in 2 .. Len(a), a[i].node = r.op
        PROVE  Expiry(a, i - 1) < Expiry(a, i)
    <3>0. i \in 1 .. Len(a) /\ a[i].node \in Nodes(a) /\ a[i].node \in S
      <4>1. i \in 1 .. Len(a)
        BY <1>5
      <4>2. QED
        BY <1>5, <4>1, LineTypes DEF Nodes
    <3>1. CASE v.op = n
      <4>1. p # Len(b) /\ p \in 1 .. Len(a) /\ a[p].node = a[i].node
        BY <1>9, <2>5, <3>0, <3>1
      <4>2. i = p
        BY <1>7, <3>0, <4>1 DEF Apart
      <4>3. /\ p \in 2 .. Len(b) /\ p \in p .. Len(b) - 1 /\ p - 1 \in 1 .. p - 1
            /\ p \in 0 .. Len(b) /\ p + 1 \in 0 .. Len(b) /\ p - 1 \in 0 .. Len(b)
        BY <1>3, <1>5, <4>1, <4>2
      <4>4. Expiry(b, p - 1) < Expiry(b, p)
        BY <1>3, <2>1, <3>1, <4>3
      <4>5. Expiry(a, p) = Expiry(b, p + 1) /\ Expiry(a, p - 1) = Expiry(b, p - 1)
        BY <1>4, <4>3 DEF RemovedAt
      <4>6. /\ Expiry(b, p) <= Expiry(b, p + 1) /\ Expiry(b, p) \in Nat /\ Expiry(b, p + 1) \in Nat
            /\ Expiry(b, p - 1) \in Nat
        BY <1>13, <4>3
      <4>7. QED
        BY <4>2, <4>4, <4>5, <4>6
    <3>2. CASE v.op # n /\ i < p
      <4>1. i \in 1 .. p - 1 /\ i - 1 \in 1 .. p - 1 /\ i \in 2 .. Len(b)
        BY <1>3, <1>5, <3>2
      <4>2. a[i].node = b[i].node /\ Expiry(a, i) = Expiry(b, i) /\ Expiry(a, i - 1) = Expiry(b, i - 1)
        BY <1>4, <4>1 DEF RemovedAt
      <4>3. QED
        BY <1>9, <2>1, <2>5, <3>2, <4>1, <4>2
    <3>3. CASE v.op # n /\ i = p
      <4>1. /\ i \in p .. Len(b) - 1 /\ i + 1 \in 2 .. Len(b) /\ (i + 1) - 1 = i
            /\ i - 1 \in 1 .. p - 1 /\ i - 1 \in 0 .. Len(b) /\ i \in 0 .. Len(b)
            /\ i + 1 \in 0 .. Len(b) /\ i - 1 <= i
        BY <1>3, <1>5, <3>3
      <4>2. a[i].node = b[i + 1].node /\ Expiry(a, i) = Expiry(b, i + 1) /\ Expiry(a, i - 1) = Expiry(b, i - 1)
        BY <1>4, <4>1 DEF RemovedAt
      <4>3. Expiry(b, i) < Expiry(b, i + 1)
        BY <1>9, <2>1, <2>5, <3>3, <4>1, <4>2
      <4>4. /\ Expiry(b, i - 1) <= Expiry(b, i)
            /\ Expiry(b, i - 1) \in Nat /\ Expiry(b, i) \in Nat /\ Expiry(b, i + 1) \in Nat
        BY <1>13, <4>1
      <4>5. QED
        BY <4>2, <4>3, <4>4
    <3>4. CASE v.op # n /\ i > p
      <4>1. /\ i \in p .. Len(b) - 1 /\ i + 1 \in 2 .. Len(b) /\ (i + 1) - 1 = i
            /\ i - 1 \in p .. Len(b) - 1 /\ (i - 1) + 1 = i
        BY <1>3, <1>5, <3>4
      <4>2. a[i].node = b[i + 1].node /\ Expiry(a, i) = Expiry(b, i + 1) /\ Expiry(a, i - 1) = Expiry(b, i)
        BY <1>4, <4>1 DEF RemovedAt
      <4>3. QED
        BY <1>9, <2>1, <2>5, <3>4, <4>1, <4>2
    <3>5. QED
      BY <1>3, <1>5, <3>1, <3>2, <3>3, <3>4
  <2>6. QED
    BY <1>2, <2>5 DEF OpLater
<1>15. QED
  BY <1>2, <1>7, <1>11, <1>12, <1>14 DEF b, Ahead, WithoutNode

-----------------------------------------------------------------------------
(* The scan, __WAKEUP_PASS_FIRST and its macros. *)

\* A round of the scan, with the operators opened up.
LEMMA PassNodeIs ==
    ASSUME NEW S, NEW v \in [line : Lines(S), op : S \union {Null}, last : {0}],
           NEW k, k = Place(v.line, v.op), NEW d, NEW c, c = v.line[k].counter
    PROVE  PassNode(v, d) =
              [line |-> Recounted(v.line, k, IF c > d THEN c - d ELSE 0),
               op   |-> NextOf(v.line, v.op), last |-> v.last]
<1> DEFINE x == IF c > d THEN c - d ELSE 0
<1>1. PassNode(v, d) = [v EXCEPT !.op = NextOf(v.line, v.op),
                                     !.line = [v.line EXCEPT ![k].counter = x]]
  BY DEF PassNode
<1>2. PassNode(v, d) = [v EXCEPT !.op = NextOf(v.line, v.op), !.line = Recounted(v.line, k, x)]
  BY <1>1 DEF Recounted
<1> HIDE DEF x
<1>3. QED
  BY <1>2 DEF x

\* Setting a count to what it is changes nothing.
LEMMA SameCount ==
    ASSUME NEW S, NEW line \in Lines(S), NEW k \in 1 .. Len(line)
    PROVE  Recounted(line, k, line[k].counter) = line
<1> DEFINE r == Recounted(line, k, line[k].counter)
<1>1. DOMAIN line = 1 .. Len(line) /\ line[k] \in [node : S, counter : Nat]
  BY LineTypes
<1>2. [line[k] EXCEPT !.counter = line[k].counter] = line[k]
  BY <1>1
<1>3. r = [line EXCEPT ![k] = line[k]]
  BY <1>2 DEF Recounted
<1>4. QED
  BY <1>1, <1>3, LineTypes DEF Lines

\* At the place of a scan that is not behind a due node, with no ticks left to
\* charge: the scan finds a due node if there is one, at the head.
LEMMA ScanFinds ==
    ASSUME NEW S, Null \notin S, NEW u, Scanned(S, u), OpLater(u)
    PROVE  /\ PassDue(u, 0) =>
                 /\ u.op \in Nodes(u.line) /\ LeftOn(u.line, u.op) = 0
                 /\ WakeupDel(PassNode(u, 0), u.op, FALSE, 0) = WakeupDel(u, u.op, FALSE, 0)
                 /\ PassLeft(u, 0) = 0
           /\ ~PassDue(u, 0) =>
                 /\ Ahead(u) => \A n \in Nodes(u.line) : LeftOn(u.line, n) # 0
                 /\ u.op # Null => /\ PassNode(u, 0).line = u.line
                                   /\ Scanned(S, PassNode(u, 0))
<1> DEFINE line == u.line
<1>1. /\ u \in [line : Lines(S), op : S \union {Null}, last : {0}]
      /\ line \in Lines(S) /\ Apart(line) /\ u.op \in Nodes(line) \union {Null} /\ u.last = 0
      /\ u = [line |-> line, op |-> u.op, last |-> 0]
  BY DEF Scanned
<1>2. /\ Len(line) \in Nat
      /\ \A i \in 1 .. Len(line) : line[i].node \in S /\ line[i].counter \in Nat
  BY <1>1, LineTypes
<1>3. /\ Ahead(u) => (line # <<>> /\ Expiry(line, 1) = 0 => u.op = line[1].node)
      /\ \A p \in 2 .. Len(line) : line[p].node = u.op => Expiry(line, p - 1) < Expiry(line, p)
  BY DEF Ahead, OpLater
<1> HIDE DEF line
<1>4. ASSUME u.op # Null
      PROVE  \E k \in 1 .. Len(line) :
                /\ line[k].node = u.op /\ k = Place(line, u.op)
                /\ line[k].counter = 0 => k = 1
                /\ PassDue(u, 0) <=> line[k].counter = 0
                /\ PassNode(u, 0) = [line |-> line, op |-> NextOf(line, u.op), last |-> 0]
  <2>1. PICK k \in 1 .. Len(line) : line[k].node = u.op
    BY <1>1, <1>4 DEF Nodes
  <2>2. k = Place(line, u.op)
    BY <1>1, <2>1, PlaceIs
  <2>3. line[k].counter \in Nat
    BY <1>2
  <2>4. ASSUME line[k].counter = 0, k # 1 PROVE FALSE
    <3>1. k \in 2 .. Len(line) /\ k \in 1 .. Len(line) /\ k - 1 \in 0 .. Len(line)
      BY <1>2, <2>1, <2>4
    <3>2. /\ Expiry(line, k) = Expiry(line, k - 1) + line[k].counter
          /\ Expiry(line, k - 1) \in Nat
      BY <1>1, <3>1, ExpirySteps
    <3>3. Expiry(line, k - 1) < Expiry(line, k)
      BY <1>3, <2>1, <3>1
    <3>4. QED
      BY <2>4, <3>2, <3>3
  <2>5. PassDue(u, 0) <=> line[k].counter = 0
    BY <1>4, <2>2, <2>3 DEF PassDue, line
  <2>6. PassNode(u, 0) = [line |-> line, op |-> NextOf(line, u.op), last |-> 0]
    <3> DEFINE c == line[k].counter
    <3>1. PassNode(u, 0) = [line |-> Recounted(line, k, IF c > 0 THEN c - 0 ELSE 0),
                            op |-> NextOf(line, u.op), last |-> u.last]
      BY <1>1, <2>2, PassNodeIs DEF line
    <3>2. (IF c > 0 THEN c - 0 ELSE 0) = c
      BY <2>3
    <3>3. Recounted(line, k, c) = line
      BY <1>1, SameCount
    <3> HIDE DEF c
    <3>4. QED
      BY <1>1, <3>1, <3>2, <3>3
  <2>7. QED
    BY <2>1, <2>2, <2>4, <2>5, <2>6
<1>5. ASSUME PassDue(u, 0)
      PROVE  /\ u.op \in Nodes(line) /\ LeftOn(line, u.op) = 0
             /\ WakeupDel(PassNode(u, 0), u.op, FALSE, 0) = WakeupDel(u, u.op, FALSE, 0)
             /\ PassLeft(u, 0) = 0
  <2>1. u.op # Null
    BY <1>5 DEF PassDue
  <2>2. PICK k \in 1 .. Len(line) :
                /\ line[k].node = u.op /\ k = Place(line, u.op)
                /\ line[k].counter = 0 => k = 1
                /\ PassDue(u, 0) <=> line[k].counter = 0
                /\ PassNode(u, 0) = [line |-> line, op |-> NextOf(line, u.op), last |-> 0]
    BY <1>4, <2>1
  <2>3. line[k].counter = 0 /\ k = 1 /\ 1 \in 1 .. Len(line)
    BY <1>5, <2>2
  <2>4. line # <<>>
    BY <2>3
  <2>5. Expiry(line, 1) = 0
    BY <1>1, <2>3, <2>4, HeadExpiry
  <2>6. NextOf(line, u.op) # u.op
    <3>1. CASE k = Len(line)
      BY <2>1, <2>2, <3>1 DEF NextOf
    <3>2. CASE k # Len(line)
      <4>0. Len(line) \in Nat
        BY <1>2
      <4>1. k + 1 \in 1 .. Len(line) /\ k + 1 # k
        BY <3>2, <4>0
      <4>2. line[k + 1].node # line[k].node
        BY <1>1, <4>1 DEF Apart
      <4>3. QED
        BY <2>2, <3>2, <4>2 DEF NextOf
    <3>3. QED
      BY <3>1, <3>2
  <2>7. WakeupDel(PassNode(u, 0), u.op, FALSE, 0) = WakeupDel(u, u.op, FALSE, 0)
    <3>1. WakeupDel(u, u.op, FALSE, 0) =
             [line |-> Removed(line, u.op), op |-> NextOf(line, u.op), last |-> 0]
      <4>1. u.line = line /\ u.last = 0
        BY <1>1 DEF line
      <4>2. \A n : n = u.op => WakeupDel(u, n, FALSE, 0) =
                                 [line |-> Removed(line, n), op |-> NextOf(line, n), last |-> 0]
        BY <4>1 DEF WakeupDel
      <4>3. QED
        BY <4>2
    <3> DEFINE v == PassNode(u, 0)
    <3>2. v.line = line /\ v.op = NextOf(line, u.op) /\ v.last = 0
      BY <2>2
    <3> HIDE DEF v
    <3>3. WakeupDel(v, u.op, FALSE, 0) =
             [line |-> Removed(line, u.op), op |-> NextOf(line, u.op), last |-> 0]
      BY <2>6, <3>2 DEF WakeupDel
    <3>4. QED
      BY <3>1, <3>3 DEF v
  <2>8. PassLeft(u, 0) = 0
    <3>1. PassLeft(u, 0) = 0 - line[k].counter
      BY <2>2 DEF PassLeft, line
    <3>2. QED
      BY <2>3, <3>1
  <2>9. QED
    BY <2>2, <2>3, <2>5, <2>7, <2>8 DEF LeftOn, Nodes
<1>6. ASSUME ~PassDue(u, 0)
      PROVE  /\ Ahead(u) => \A n \in Nodes(line) : LeftOn(line, n) # 0
             /\ u.op # Null => PassNode(u, 0).line = line /\ Scanned(S, PassNode(u, 0))
  <2>1. ASSUME Ahead(u), line # <<>> PROVE Expiry(line, 1) # 0
    <3>1. SUFFICES ASSUME Expiry(line, 1) = 0 PROVE FALSE
      OBVIOUS
    <3>2. u.op = line[1].node /\ 1 \in 1 .. Len(line) /\ line[1].counter = 0 /\ u.op # Null
      BY <1>1, <1>3, <2>1, <3>1, HeadExpiry
    <3>3. PICK k \in 1 .. Len(line) : line[k].node = u.op /\ (PassDue(u, 0) <=> line[k].counter = 0)
      BY <1>4, <3>2
    <3>4. k = 1
      BY <1>1, <3>2, <3>3 DEF Apart
    <3>5. QED
      BY <1>6, <3>2, <3>3, <3>4
  <2>2. ASSUME Ahead(u), NEW n \in Nodes(line) PROVE LeftOn(line, n) # 0
    <3>1. PICK i \in 1 .. Len(line) : line[i].node = n
      BY DEF Nodes
    <3>2. Place(line, n) = i
      BY <1>1, <3>1, PlaceIs
    <3>3. line # <<>> /\ 1 \in 0 .. Len(line) /\ i \in 0 .. Len(line) /\ 1 <= i
      BY <1>2, <3>1
    <3>4. Expiry(line, 1) <= Expiry(line, i) /\ Expiry(line, 1) \in Nat /\ Expiry(line, i) \in Nat
      BY <1>1, <3>3, ExpirySteps
    <3>5. QED
      BY <2>1, <2>2, <3>2, <3>3, <3>4 DEF LeftOn
  <2>3. ASSUME u.op # Null PROVE PassNode(u, 0).line = line /\ Scanned(S, PassNode(u, 0))
    <3>1. PICK k \in 1 .. Len(line) :
                /\ line[k].node = u.op /\ k = Place(line, u.op)
                /\ PassNode(u, 0) = [line |-> line, op |-> NextOf(line, u.op), last |-> 0]
      BY <1>4, <2>3
    <3>2. NextOf(line, u.op) \in Nodes(line) \union {Null} /\ NextOf(line, u.op) \in S \union {Null}
      <4>1. CASE k = Len(line)
        BY <3>1, <4>1 DEF NextOf
      <4>2. CASE k # Len(line)
        <5>1. k + 1 \in 1 .. Len(line)
          BY <1>2, <4>2
        <5>2. NextOf(line, u.op) = line[k + 1].node
          BY <3>1, <4>2 DEF NextOf
        <5>3. QED
          BY <1>2, <5>1, <5>2 DEF Nodes
      <4>3. QED
        BY <4>1, <4>2
    <3>3. QED
      BY <1>1, <3>1, <3>2 DEF Scanned
  <2>4. QED
    BY <2>2, <2>3
<1>7. QED
  BY <1>5, <1>6 DEF line

\* The nodes of r are those of the line, and each has x ticks fewer left.
Waited(S, line, r, x) ==
    /\ r \in Lines(S) /\ Len(r) = Len(line) /\ Apart(r)
    /\ Nodes(r) = Nodes(line)
    /\ \A j \in 1 .. Len(line) : r[j].node = line[j].node
    /\ \A j \in 2 .. Len(line) : r[j] = line[j]
    /\ r[1].counter = line[1].counter - x
    /\ \A j \in 1 .. Len(line) : Expiry(r, j) = Expiry(line, j) - x
    /\ \A n \in Nodes(line) : LeftOn(r, n) = LeftOn(line, n) - x

\* The head is charged for all of them.
LEMMA HeadWaits ==
    ASSUME NEW S, NEW line \in Lines(S), line # <<>>, Apart(line),
           NEW x \in Nat, x <= line[1].counter
    PROVE  Waited(S, line, Recounted(line, 1, line[1].counter - x), x)
<1> DEFINE c == line[1].counter
           r == Recounted(line, 1, c - x)
<1>1. Len(line) \in Nat /\ 1 \in 1 .. Len(line) /\ c \in Nat /\ c - x \in Nat
  BY LineTypes, HeadExpiry
<1>2. \A i \in 1 .. Len(line) : line[i].counter \in Nat
  BY LineTypes
<1>3. /\ r \in Lines(S) /\ Len(r) = Len(line)
      /\ \A j \in 1 .. Len(line) : r[j].node = line[j].node
      /\ \A j \in 1 .. Len(line) : j # 1 => r[j] = line[j]
      /\ r[1].counter = c - x
  BY <1>1, ChangedCount
<1>4. /\ Expiry(line, 0) = 0
      /\ \A j \in 0 .. Len(line) : Expiry(line, j) \in Nat
      /\ \A j \in 1 .. Len(line) : Expiry(line, j) = Expiry(line, j - 1) + line[j].counter
  BY ExpirySteps
<1>5. Expiry(line, 1) = c
  BY HeadExpiry
<1> HIDE DEF r, c
<1>6. \A j \in 1 .. Len(line) : Expiry(r, j) = Expiry(line, j) - x
  <2> DEFINE h == [i \in 0 .. Len(line) |-> IF i = 0 THEN 0 ELSE Expiry(line, i) - x]
  <2>1. h \in [0 .. Len(line) -> Int] /\ h[0] = 0
    BY <1>1, <1>4
  <2>2. \A i \in 1 .. Len(line) : h[i] = Expiry(line, i) - x
    BY <1>1
  <2> HIDE DEF h
  <2>3. ASSUME NEW i \in 1 .. Len(line) PROVE h[i] = h[i - 1] + r[i].counter
    <3>1. CASE i = 1
      BY <1>1, <1>3, <1>5, <2>1, <2>2, <3>1
    <3>2. CASE i # 1
      <4>1. i - 1 \in 1 .. Len(line) /\ i \in 0 .. Len(line) /\ i - 1 \in 0 .. Len(line)
        BY <1>1, <3>2
      <4>2. r[i] = line[i] /\ line[i].counter \in Nat
        BY <1>2, <1>3, <3>2
      <4>3. h[i] = Expiry(line, i) - x /\ h[i - 1] = Expiry(line, i - 1) - x
        BY <2>2, <4>1
      <4>4. /\ Expiry(line, i) = Expiry(line, i - 1) + line[i].counter
            /\ Expiry(line, i - 1) \in Nat
        BY <1>4, <4>1
      <4> DEFINE y == Expiry(line, i - 1)
                 z == line[i].counter
      <4>5. h[i] = (y + z) - x /\ h[i - 1] = y - x /\ r[i].counter = z
            /\ y \in Nat /\ z \in Nat
        BY <4>2, <4>3, <4>4
      <4> HIDE DEF y, z
      <4>6. QED
        BY <4>5
    <3>3. QED
      BY <3>1, <3>2
  <2>4. Sums(r, Len(r), h)
    BY <1>3, <2>1, <2>3 DEF Sums
  <2>5. \A k \in 0 .. Len(line) : Expiry(r, k) = h[k]
    BY <1>3, <2>4, ExpiryIs
  <2>6. QED
    BY <1>1, <2>2, <2>5
<1>7. Apart(r) /\ Nodes(r) = Nodes(line)
  BY <1>3 DEF Apart, Nodes
<1>8. ASSUME NEW n \in Nodes(line) PROVE LeftOn(r, n) = LeftOn(line, n) - x
  <2>1. PICK i \in 1 .. Len(line) : line[i].node = n
    BY DEF Nodes
  <2>2. Place(line, n) = i
    BY <2>1, PlaceIs
  <2>3. i \in 1 .. Len(r) /\ r[i].node = n
    BY <1>3, <2>1
  <2>4. Place(r, n) = i
    BY <1>3, <1>7, <2>3, PlaceIs
  <2>5. QED
    BY <1>6, <2>2, <2>4 DEF LeftOn
<1>9. \A j \in 2 .. Len(line) : j \in 1 .. Len(line) /\ j # 1
  BY <1>1
<1>10. QED
  BY <1>3, <1>6, <1>7, <1>8, <1>9 DEF Waited, c, r

\* A scan from the head of a line, with no more ticks than the head waits for,
\* goes on like one with no ticks on the line whose head has waited for them.
Ticked(v, d) ==
    [line |-> IF v.line = <<>> THEN v.line
              ELSE Recounted(v.line, 1, v.line[1].counter - d),
     op   |-> IF v.line = <<>> THEN Null ELSE v.line[1].node,
     last |-> 0]

\* To charge a tick at the head is to go on without one after the wait.
LEMMA TickCharges ==
    ASSUME NEW S, Null \notin S, NEW v, Scanned(S, v),
           NEW d \in Nat, v.line # <<>> => d <= v.line[1].counter
    PROVE  /\ Scanned(S, Ticked(v, d)) /\ Ahead(Ticked(v, d))
           /\ Nodes(Ticked(v, d).line) = Nodes(v.line)
           /\ \A n \in Nodes(v.line) : LeftOn(Ticked(v, d).line, n) = LeftOn(v.line, n) - d
           /\ PassFirst(v).op = Ticked(v, d).op
           /\ PassDue(PassFirst(v), d) <=> PassDue(Ticked(v, d), 0)
           /\ PassFirst(v).op = Null => PassFirst(v) = Ticked(v, d)
           /\ PassFirst(v).op # Null => PassNode(PassFirst(v), d) = PassNode(Ticked(v, d), 0)
           /\ PassDue(PassFirst(v), d) => PassLeft(PassFirst(v), d) = PassLeft(Ticked(v, d), 0)
<1> DEFINE line == v.line
           c    == line[1].counter
           r    == Recounted(line, 1, c - d)
           u    == Ticked(v, d)
           f    == PassFirst(v)
<1>1. /\ v \in [line : Lines(S), op : S \union {Null}, last : {0}]
      /\ line \in Lines(S) /\ Apart(line) /\ v.last = 0
      /\ v = [line |-> line, op |-> v.op, last |-> 0]
  BY DEF Scanned
<1>2. /\ f = [line |-> line, op |-> IF line = <<>> THEN Null ELSE line[1].node, last |-> 0]
  BY <1>1 DEF PassFirst
<1>3. /\ Len(line) \in Nat
      /\ \A i \in 1 .. Len(line) : line[i].node \in S /\ line[i].counter \in Nat
  BY <1>1, LineTypes
<1>4. u = [line |-> IF line = <<>> THEN line ELSE r,
           op |-> IF line = <<>> THEN Null ELSE line[1].node, last |-> 0]
  BY DEF Ticked
<1>5. line # <<>> => d <= c
  OBVIOUS
<1> HIDE DEF line, r, u, f, c
<1>6. CASE line = <<>>
  <2>1. u = f /\ u = [line |-> <<>>, op |-> Null, last |-> 0] /\ Len(line) = 0
    BY <1>2, <1>4, <1>6
  <2>2. Nodes(line) = {}
    BY <2>1 DEF Nodes
  <2>3. Scanned(S, u)
    BY <1>1, <1>6, <2>1 DEF Scanned
  <2>4. Ahead(u)
    BY <2>1 DEF Ahead, OpLater
  <2>5. ~PassDue(f, d) /\ ~PassDue(u, 0) /\ u.line = line /\ f.op = Null
    BY <1>6, <2>1 DEF PassDue
  <2>6. QED
    BY <2>1, <2>2, <2>3, <2>4, <2>5 DEF u, f, line
<1>7. CASE line # <<>>
  <2>1. /\ 1 \in 1 .. Len(line) /\ Expiry(line, 1) = c /\ c \in Nat /\ line[1].node \in S
    BY <1>1, <1>7, HeadExpiry DEF c
  <2>2. Place(line, line[1].node) = 1
    BY <1>1, <2>1, PlaceIs
  <2>3. d <= c /\ c - d \in Nat
    BY <1>5, <1>7, <2>1
  <2>6. Waited(S, line, r, d)
    BY <1>1, <1>7, <2>3, HeadWaits DEF r, c
  <2>4. /\ r \in Lines(S) /\ Len(r) = Len(line)
        /\ \A j \in 1 .. Len(line) : r[j].node = line[j].node
        /\ r[1].counter = c - d
    BY <2>6 DEF Waited, c
  <2>7. u = [line |-> r, op |-> line[1].node, last |-> 0]
        /\ f = [line |-> line, op |-> line[1].node, last |-> 0]
    BY <1>2, <1>4, <1>7
  <2>8. Apart(r) /\ Nodes(r) = Nodes(line)
    BY <2>6 DEF Waited
  <2>9. line[1].node \in Nodes(r) /\ line[1].node # Null
    BY <2>1, <2>8 DEF Nodes
  <2>10. Scanned(S, u)
    BY <2>1, <2>4, <2>7, <2>8, <2>9 DEF Scanned
  <2>11. Place(r, line[1].node) = 1
    <3>1. r[1].node = line[1].node /\ 1 \in 1 .. Len(r)
      BY <2>1, <2>4
    <3>2. QED
      BY <2>4, <2>8, <3>1, PlaceIs
  <2>12. Ahead(u)
    <3>1. r[1].node = line[1].node
      BY <2>1, <2>4
    <3>2. ASSUME NEW p \in 2 .. Len(r), r[p].node = line[1].node PROVE FALSE
      <4>1. p \in 1 .. Len(r) /\ p # 1 /\ 1 \in 1 .. Len(r)
        BY <1>3, <2>1, <2>4
      <4>2. QED
        BY <2>8, <3>1, <3>2, <4>1 DEF Apart
    <3>3. u.line = r /\ u.op = line[1].node
      BY <2>7
    <3>4. QED
      BY <3>1, <3>2, <3>3 DEF Ahead, OpLater
  <2>13. \A n \in Nodes(line) : LeftOn(r, n) = LeftOn(line, n) - d
    BY <2>6 DEF Waited
  <2>14. f.line = line /\ f.op = line[1].node /\ u.line = r /\ u.op = line[1].node
    BY <2>7
  <2>15. PassDue(f, d) <=> c <= d
    BY <2>2, <2>9, <2>14 DEF PassDue, c
  <2>16. PassDue(u, 0) <=> c - d <= 0
    BY <2>4, <2>9, <2>11, <2>14 DEF PassDue
  <2>17. PassDue(f, d) <=> PassDue(u, 0)
    BY <2>1, <2>3, <2>15, <2>16
  <2>18. PassLeft(f, d) = d - c /\ PassLeft(u, 0) = 0 - (c - d)
    BY <2>2, <2>4, <2>11, <2>14 DEF PassLeft, c
  <2>19. PassDue(f, d) => PassLeft(f, d) = PassLeft(u, 0)
    BY <2>1, <2>3, <2>18
  <2>20. PassNode(f, d) = PassNode(u, 0)
    <3>1. /\ f \in [line : Lines(S), op : S \union {Null}, last : {0}]
          /\ u \in [line : Lines(S), op : S \union {Null}, last : {0}]
      BY <1>1, <2>1, <2>4, <2>7
    <3> DEFINE x == IF c > d THEN c - d ELSE 0
               y == IF c - d > 0 THEN (c - d) - 0 ELSE 0
    <3>2. x = c - d /\ y = c - d
      BY <2>1, <2>3
    <3>3. PassNode(f, d) = [line |-> Recounted(f.line, 1, x), op |-> NextOf(f.line, f.op), last |-> f.last]
      BY <2>2, <2>14, <3>1, PassNodeIs DEF c
    <3>4. PassNode(u, 0) = [line |-> Recounted(u.line, 1, y), op |-> NextOf(u.line, u.op), last |-> u.last]
      BY <2>4, <2>11, <2>14, <3>1, PassNodeIs
    <3> HIDE DEF x, y
    <3>5. f.last = 0 /\ u.last = 0
      BY <2>7
    <3>6. Recounted(r, 1, c - d) = r
      BY <2>1, <2>4, SameCount
    <3>7. Recounted(line, 1, c - d) = r
      BY DEF r
    <3>8. NextOf(line, line[1].node) = NextOf(r, line[1].node)
      <4>1. CASE Len(line) = 1
        BY <2>2, <2>4, <2>11, <4>1 DEF NextOf
      <4>2. CASE Len(line) # 1
        <5> DEFINE len == Len(line)
        <5>0. len \in Nat /\ 1 \in 1 .. len /\ len # 1
          BY <1>3, <2>1, <4>2
        <5> HIDE DEF len
        <5>9. 2 \in 1 .. len
          BY <5>0
        <5>1. 2 \in 1 .. Len(line)
          BY <5>9 DEF len
        <5>2. r[1 + 1].node = line[1 + 1].node
          BY <2>4, <5>1
        <5>3. QED
          BY <2>2, <2>4, <2>11, <4>2, <5>2 DEF NextOf
      <4>3. QED
        BY <4>1, <4>2
    <3>9. QED
      BY <2>14, <3>2, <3>3, <3>4, <3>5, <3>6, <3>7, <3>8
  <2>21. u.line = r /\ f.op # Null /\ f.op = u.op
    BY <2>9, <2>14
  <2>22. QED
    BY <2>8, <2>10, <2>12, <2>13, <2>17, <2>19, <2>20, <2>21 DEF u, f, line
<1>8. QED
  BY <1>6, <1>7

-----------------------------------------------------------------------------
(* The hardware timers. *)

\* A timer that runs has been started, with a repeat count.
BlocksKept ==
    /\ tmr \in [Timers -> Block]
    /\ \A t \in Timers : tmr[t].running => tmr[t].used /\ tmr[t].save \in Counts

OnLine == Nodes(w.line) = {t \in Timers : tmr[t].running}

NothingDue(line) == \A n \in Nodes(line) : LeftOn(line, n) # 0

\* Between two ticks nothing is due.  While a routine runs, no timer before the
\* place of the scan is due: a due head is the timer the scan visits next, and
\* a timer that starts meanwhile never gets between the scan and a due timer.
ScanPending ==
    /\ calling \in Timers \union {Null} /\ ticks = 0
    /\ calling = Null => NothingDue(w.line)
    /\ calling # Null => Ahead(w)

IInv == Scanned(Timers, w) /\ BlocksKept /\ OnLine /\ ScanPending

-----------------------------------------------------------------------------
(* What each timer has left, when timers come and go. *)

Lefts(line) == [t \in Timers |-> IF t \in Nodes(line) THEN LeftOn(line, t) ELSE 0]

\* The nodes are timers with a time left.
LEMMA LeftIsNat ==
    ASSUME NEW v, Scanned(Timers, v), NEW n \in Nodes(v.line)
    PROVE  LeftOn(v.line, n) \in Nat /\ n \in Timers
<1>1. v.line \in Lines(Timers) /\ Apart(v.line)
  BY DEF Scanned
<1>2. PICK k \in 1 .. Len(v.line) : v.line[k].node = n
  BY DEF Nodes
<1>3. Place(v.line, n) = k
  BY <1>1, <1>2, PlaceIs
<1>4. Len(v.line) \in Nat /\ n \in Timers
  BY <1>1, <1>2, LineTypes
<1>5. k \in 0 .. Len(v.line)
  BY <1>2, <1>4
<1>6. QED
  BY <1>1, <1>3, <1>4, <1>5, ExpirySteps DEF LeftOn

\* API_TimerStatus shows what the line says.
LEMMA StatusIsLeft ==
    ASSUME NEW v, Scanned(Timers, v), NEW n \in Nodes(v.line)
    PROVE  WakeupStatus(v, n, 0) = LeftOn(v.line, n)
<1>1. v.last = 0 /\ LeftOn(v.line, n) \in Nat
  BY LeftIsNat DEF Scanned
<1> DEFINE x == LeftOn(v.line, n)
<1>2. WakeupStatus(v, n, 0) = IF x > 0 THEN x - 0 ELSE 0
  BY <1>1 DEF WakeupStatus, LeftOn
<1>3. x \in Nat
  BY <1>1
<1> HIDE DEF x
<1>4. WakeupStatus(v, n, 0) = x
  BY <1>2, <1>3
<1>5. QED
  BY <1>4 DEF x

\* r is the line v with other nodes and other ticks left.  No node got between
\* the scan and a due node, and none is due that was not.
Becomes(v, r, nodes, lefts) ==
    /\ Scanned(Timers, r)
    /\ Nodes(r.line) = nodes
    /\ Lefts(r.line) = lefts
    /\ Ahead(v) => Ahead(r)
    /\ NothingDue(v.line) => NothingDue(r.line)

\* A timer leaves the line.
LEMMA StopEffect ==
    ASSUME NEW v, Scanned(Timers, v), NEW t \in Nodes(v.line),
           NEW r, r = WakeupDel(v, t, FALSE, 0)
    PROVE  Becomes(v, r, Nodes(v.line) \ {t}, [Lefts(v.line) EXCEPT ![t] = 0])
<1>1. /\ Scanned(Timers, r)
      /\ Nodes(r.line) = Nodes(v.line) \ {t}
      /\ \A m \in Nodes(r.line) : LeftOn(r.line, m) = LeftOn(v.line, m)
      /\ Ahead(v) => Ahead(r)
  <2>1. Null \notin Timers /\ r = WakeupDel(v, t, FALSE, 0) /\ Scanned(Timers, v)
        /\ t \in Nodes(v.line)
    BY TimersAssumption
  <2>2. WithoutNode(Timers, v, t, r)
    BY <2>1, DelEffect, Zenon
  <2>3. QED
    BY <2>2 DEF WithoutNode
<1>2. t \in Timers
  BY LeftIsNat
<1>3. Lefts(r.line) = [Lefts(v.line) EXCEPT ![t] = 0]
  BY <1>1, <1>2 DEF Lefts
<1>4. NothingDue(v.line) => NothingDue(r.line)
  BY <1>1 DEF NothingDue
<1>5. QED
  BY <1>1, <1>3, <1>4 DEF Becomes

\* A timer starts, and leaves the line first if it was running.
LEMMA StartEffect ==
    ASSUME NEW v, Scanned(Timers, v), NEW t \in Timers, NEW c \in Counts,
           NEW off, off = IF t \in Nodes(v.line) THEN WakeupDel(v, t, FALSE, 0) ELSE v,
           NEW r, r = WakeupAdd(off, t, c, FALSE, 0)
    PROVE  Becomes(v, r, Nodes(v.line) \union {t}, [Lefts(v.line) EXCEPT ![t] = c])
<1>1. /\ Scanned(Timers, off)
      /\ Nodes(off.line) = Nodes(v.line) \ {t}
      /\ \A m \in Nodes(off.line) : LeftOn(off.line, m) = LeftOn(v.line, m)
      /\ Ahead(v) => Ahead(off)
  <2>1. CASE t \in Nodes(v.line)
    <3>1. Null \notin Timers /\ off = WakeupDel(v, t, FALSE, 0)
      BY <2>1, TimersAssumption
    <3>2. WithoutNode(Timers, v, t, off)
      BY <2>1, <3>1, DelEffect, Zenon
    <3>3. QED
      BY <3>2 DEF WithoutNode
  <2>2. CASE t \notin Nodes(v.line)
    <3>1. off = v
      BY <2>2
    <3>2. QED
      BY <2>2, <3>1
  <2>3. QED
    BY <2>1, <2>2
<1>2. c \in Nat \ {0} /\ t \notin Nodes(off.line)
  BY <1>1, CountsAssumption
<1>3. /\ Scanned(Timers, r)
      /\ Nodes(r.line) = Nodes(off.line) \union {t}
      /\ LeftOn(r.line, t) = c
      /\ \A m \in Nodes(off.line) : LeftOn(r.line, m) = LeftOn(off.line, m)
      /\ Ahead(off) => Ahead(r)
  <2>1. Null \notin Timers
    BY TimersAssumption
  <2>2. WithNode(Timers, off, t, c, r)
    BY <1>1, <1>2, <2>1, AddEffect, Zenon
  <2>3. QED
    BY <2>2 DEF WithNode
<1>4. Nodes(r.line) = Nodes(v.line) \union {t}
  BY <1>1, <1>3
<1>5. \A m \in Nodes(v.line) : m # t => LeftOn(r.line, m) = LeftOn(v.line, m)
  BY <1>1, <1>3
<1>6. Lefts(r.line) = [Lefts(v.line) EXCEPT ![t] = c]
  BY <1>3, <1>4, <1>5 DEF Lefts
<1>7. NothingDue(v.line) => NothingDue(r.line)
  BY <1>2, <1>3, <1>4, <1>5 DEF NothingDue
<1>8. QED
  BY <1>1, <1>3, <1>4, <1>6, <1>7 DEF Becomes

-----------------------------------------------------------------------------
(* The scan. *)

\* The routine of a due timer is called, given what each timer has left; none
\* when none is due.
Calls(l) ==
    \/ /\ \A t \in Timers : tmr[t].running => l[t] # 0
       /\ Lefts(w.line)' = l
       /\ calling' = Null
       /\ UNCHANGED tmr
    \/ \E t \in Timers :
          /\ tmr[t].running /\ l[t] = 0
          /\ Lefts(w.line)' = [l EXCEPT ![t] = IF tmr[t].auto THEN tmr[t].save ELSE 0]
          /\ tmr' = [tmr EXCEPT ![t].running = tmr[t].auto]
          /\ calling' = t

\* u is a line with nothing due behind the scan, and the scan finds on the line
\* from, with n ticks to charge, what it finds on u with none.
LEMMA ScanStep ==
    ASSUME BlocksKept,
           NEW u, Scanned(Timers, u), Ahead(u), Nodes(u.line) = {t \in Timers : tmr[t].running},
           NEW from, NEW n, from.op = u.op, PassDue(from, n) <=> PassDue(u, 0),
           from.op = Null => from = u, from.op # Null => PassNode(from, n) = PassNode(u, 0),
           PassDue(from, n) => PassLeft(from, n) = PassLeft(u, 0),
           Scan(from, n)
    PROVE  IInv' /\ Calls(Lefts(u.line))
<1>0. Null \notin Timers
  BY TimersAssumption
<1>1. CASE PassDue(from, n)
  <2> DEFINE t == u.op
             off == WakeupDel(u, t, FALSE, 0)
  <2>1. /\ t \in Nodes(u.line) /\ LeftOn(u.line, t) = 0
        /\ WakeupDel(PassNode(u, 0), t, FALSE, 0) = off
        /\ PassLeft(u, 0) = 0
    <3>1. OpLater(u)
      BY DEF Ahead
    <3>2. QED
      BY <1>0, <1>1, <3>1, ScanFinds
  <2>2. t \in Timers /\ tmr[t].running /\ tmr[t].save \in Counts
    BY <2>1 DEF BlocksKept
  <2>3. from.op = t /\ from.op # Null
    BY <1>0, <2>2
  <2>4. /\ Fire(PassNode(from, n), from.op)
        /\ calling' = from.op
        /\ ticks' = PassLeft(from, n)
    BY <1>1 DEF Scan
  <2>5. /\ w' = IF tmr[t].auto THEN WakeupAdd(off, t, tmr[t].save, FALSE, 0) ELSE off
        /\ tmr' = [tmr EXCEPT ![t].running = tmr[t].auto]
        /\ calling' = t /\ ticks' = 0
    BY <1>1, <2>1, <2>3, <2>4 DEF Fire
  <2> HIDE DEF t, off
  <2>6. BlocksKept'
    BY <2>2, <2>5 DEF BlocksKept, Block
  <2>7. CASE tmr[t].auto
    <3> DEFINE r == WakeupAdd(off, t, tmr[t].save, FALSE, 0)
    <3>1. off = IF t \in Nodes(u.line) THEN WakeupDel(u, t, FALSE, 0) ELSE u
      BY <2>1 DEF off
    <3>2. Becomes(u, r, Nodes(u.line) \union {t}, [Lefts(u.line) EXCEPT ![t] = tmr[t].save])
      BY <2>2, <3>1, StartEffect
    <3> HIDE DEF r
    <3>3. w' = r
      BY <2>5, <2>7 DEF r
    <3>4. {x \in Timers : tmr[x].running}' = {x \in Timers : tmr[x].running} \union {t}
      BY <2>2, <2>5, <2>7 DEF BlocksKept
    <3>5. IInv'
      BY <1>0, <2>2, <2>5, <2>6, <3>2, <3>3, <3>4 DEF IInv, OnLine, ScanPending, Becomes
    <3>6. Lefts(u.line)[t] = 0
      BY <2>1, <2>2 DEF Lefts
    <3>7. Calls(Lefts(u.line))
      BY <2>2, <2>5, <2>7, <3>2, <3>3, <3>6 DEF Calls, Becomes
    <3>8. QED
      BY <3>5, <3>7
  <2>8. CASE ~tmr[t].auto
    <3>1. Becomes(u, off, Nodes(u.line) \ {t}, [Lefts(u.line) EXCEPT ![t] = 0])
      BY <2>1, StopEffect DEF off
    <3>3. w' = off
      BY <2>5, <2>8
    <3>4. {x \in Timers : tmr[x].running}' = {x \in Timers : tmr[x].running} \ {t}
      BY <2>2, <2>5, <2>8 DEF BlocksKept
    <3>5. IInv'
      BY <1>0, <2>2, <2>5, <2>6, <3>1, <3>3, <3>4 DEF IInv, OnLine, ScanPending, Becomes
    <3>6. Lefts(u.line)[t] = 0
      BY <2>1, <2>2 DEF Lefts
    <3>7. Calls(Lefts(u.line))
      BY <2>2, <2>5, <2>8, <3>1, <3>3, <3>6 DEF Calls, Becomes
    <3>8. QED
      BY <3>5, <3>7
  <2>9. QED
    BY <2>7, <2>8
<1>2. CASE ~PassDue(from, n)
  <2>1. /\ w' = IF from.op = Null THEN from ELSE PassNode(from, n)
        /\ calling' = Null /\ ticks' = 0 /\ tmr' = tmr
    BY <1>2 DEF Scan
  <2>2. /\ \A x \in Nodes(u.line) : LeftOn(u.line, x) # 0
        /\ u.op # Null => /\ PassNode(u, 0).line = u.line
                          /\ Scanned(Timers, PassNode(u, 0))
    <3>1. OpLater(u)
      BY DEF Ahead
    <3>2. QED
      BY <1>0, <1>2, <3>1, ScanFinds
  <2>3. Scanned(Timers, w') /\ w'.line = u.line
    BY <2>1, <2>2
  <2>4. NothingDue(w'.line)
    BY <2>2, <2>3 DEF NothingDue
  <2>5. BlocksKept'
    BY <2>1 DEF BlocksKept
  <2>6. IInv'
    BY <2>1, <2>3, <2>4, <2>5 DEF IInv, OnLine, ScanPending
  <2>7. \A t \in Timers : tmr[t].running => Lefts(u.line)[t] # 0
    BY <2>2 DEF Lefts
  <2>8. Calls(Lefts(u.line))
    BY <2>1, <2>3, <2>7 DEF Calls
  <2>9. QED
    BY <2>6, <2>8
<1>3. QED
  BY <1>1, <1>2

\* A tick scans from the head with one tick to charge.
LEMMA TickStep ==
    ASSUME IInv, TimerHTicks
    PROVE  /\ calling = Null /\ IInv'
           /\ Calls([t \in Timers |-> IF tmr[t].running THEN Lefts(w.line)[t] - 1 ELSE 0])
<1> DEFINE u == Ticked(w, 1)
           l == [t \in Timers |-> IF tmr[t].running THEN Lefts(w.line)[t] - 1 ELSE 0]
<1>1. /\ Scanned(Timers, w) /\ Nodes(w.line) = {t \in Timers : tmr[t].running}
      /\ BlocksKept /\ calling = Null /\ NothingDue(w.line)
      /\ Scan(PassFirst(w), 1) /\ Null \notin Timers
  BY TimersAssumption DEF IInv, OnLine, ScanPending, TimerHTicks
<1>2. /\ Scanned(Timers, u) /\ Ahead(u)
      /\ Nodes(u.line) = Nodes(w.line)
      /\ \A n \in Nodes(w.line) : LeftOn(u.line, n) = LeftOn(w.line, n) - 1
      /\ PassFirst(w).op = u.op
      /\ PassDue(PassFirst(w), 1) <=> PassDue(u, 0)
      /\ PassFirst(w).op = Null => PassFirst(w) = u
      /\ PassFirst(w).op # Null => PassNode(PassFirst(w), 1) = PassNode(u, 0)
      /\ PassDue(PassFirst(w), 1) => PassLeft(PassFirst(w), 1) = PassLeft(u, 0)
  <2>1. w.line \in Lines(Timers) /\ Apart(w.line)
    BY <1>1 DEF Scanned
  <2>2. w.line # <<>> => 1 <= w.line[1].counter
    <3>1. SUFFICES ASSUME w.line # <<>> PROVE 1 <= w.line[1].counter
      OBVIOUS
    <3>2. 1 \in 1 .. Len(w.line) /\ Expiry(w.line, 1) = w.line[1].counter /\ w.line[1].counter \in Nat
      BY <2>1, <3>1, HeadExpiry
    <3>3. Place(w.line, w.line[1].node) = 1 /\ w.line[1].node \in Nodes(w.line)
      BY <2>1, <3>2, PlaceIs DEF Nodes
    <3>4. LeftOn(w.line, w.line[1].node) # 0
      BY <1>1, <3>3 DEF NothingDue
    <3>5. QED
      BY <3>2, <3>3, <3>4 DEF LeftOn
  <2>3. QED
    BY <1>1, <2>2, TickCharges
<1> HIDE DEF u
<1>3. IInv' /\ Calls(Lefts(u.line))
  BY <1>1, <1>2, ScanStep
<1>4. Lefts(u.line) = l
  BY <1>1, <1>2 DEF Lefts
<1>5. QED
  BY <1>1, <1>3, <1>4

\* The scan goes on where it was.
LEMMA ReturnStep ==
    ASSUME IInv, RoutineReturns
    PROVE  calling # Null /\ IInv' /\ Calls(Lefts(w.line))
<1>1. /\ Scanned(Timers, w) /\ Nodes(w.line) = {t \in Timers : tmr[t].running}
      /\ BlocksKept /\ calling # Null /\ Ahead(w) /\ Scan(w, 0)
  BY DEF IInv, OnLine, ScanPending, RoutineReturns
<1>2. IInv' /\ Calls(Lefts(w.line))
  BY <1>1, ScanStep
<1>3. QED
  BY <1>1, <1>2

-----------------------------------------------------------------------------
(* The calls of routines, threads and interrupts. *)

\* A call of the timer interface that does this to the line preserves IInv.
LEMMA UserKeeps ==
    ASSUME IInv, UNCHANGED <<calling, ticks>>, BlocksKept', NEW lefts,
           Becomes(w, w', {t \in Timers : tmr'[t].running}, lefts)
    PROVE  IInv' /\ Lefts(w.line)' = lefts
<1>1. Scanned(Timers, w') /\ Lefts(w'.line) = lefts
  BY DEF Becomes
<1>2. OnLine'
  BY DEF Becomes, OnLine
<1>3. ScanPending'
  BY DEF Becomes, IInv, ScanPending
<1>4. QED
  BY <1>1, <1>2, <1>3 DEF IInv

\* A timer is created.
LEMMA CreateStep ==
    ASSUME IInv, NEW t \in Timers, TimerCreate(t), UNCHANGED <<calling, ticks>>
    PROVE  IInv' /\ Lefts(w.line)' = Lefts(w.line)
<1>1. w' = w /\ tmr' = [tmr EXCEPT ![t] = [Unused EXCEPT !.used = TRUE]] /\ ~tmr[t].used
  BY DEF TimerCreate
<1>2. BlocksKept /\ OnLine
  BY DEF IInv
<1>3. ~tmr[t].running
  BY <1>1, <1>2 DEF BlocksKept
<1> DEFINE b == [Unused EXCEPT !.used = TRUE]
<1>4. b \in Block /\ ~b.running
  BY DEF Unused, Block
<1> HIDE DEF b
<1>5. BlocksKept'
  BY <1>1, <1>2, <1>4 DEF BlocksKept, b
<1>6. {x \in Timers : tmr'[x].running} = Nodes(w.line)
  BY <1>1, <1>2, <1>3, <1>4 DEF BlocksKept, OnLine, b
<1>7. Becomes(w, w', Nodes(w.line), Lefts(w.line))
  BY <1>1 DEF Becomes, IInv
<1>8. QED
  BY <1>5, <1>6, <1>7, UserKeeps

\* A timer is started, or started again.
LEMMA StartStep ==
    ASSUME IInv, NEW t \in Timers, NEW init \in Counts, NEW b \in Block,
           b.running, b.used, b.save \in Counts,
           NEW off, off = IF tmr[t].running THEN WakeupDel(w, t, FALSE, 0) ELSE w,
           w' = WakeupAdd(off, t, init, FALSE, 0),
           tmr' = [tmr EXCEPT ![t] = b], UNCHANGED <<calling, ticks>>
    PROVE  IInv' /\ Lefts(w.line)' = [Lefts(w.line) EXCEPT ![t] = init]
<1>2. BlocksKept /\ OnLine /\ Scanned(Timers, w)
  BY DEF IInv
<1>3. off = IF t \in Nodes(w.line) THEN WakeupDel(w, t, FALSE, 0) ELSE w
  BY <1>2 DEF OnLine
<1>5. BlocksKept'
  BY <1>2 DEF BlocksKept
<1>6. {x \in Timers : tmr'[x].running} = Nodes(w.line) \union {t}
  BY <1>2 DEF BlocksKept, OnLine
<1>7. Becomes(w, w', Nodes(w.line) \union {t}, [Lefts(w.line) EXCEPT ![t] = init])
  BY <1>2, <1>3, StartEffect
<1>8. QED
  BY <1>5, <1>6, <1>7, UserKeeps

\* A timer begins its count again.
LEMMA ResetStep ==
    ASSUME IInv, NEW t \in Timers, TimerReset(t, FALSE, 0), UNCHANGED <<calling, ticks>>
    PROVE  IInv' /\ Lefts(w.line)' = [Lefts(w.line) EXCEPT ![t] = tmr[t].save]
<1> DEFINE off == WakeupDel(w, t, FALSE, 0)
<1>1. /\ w' = WakeupAdd(off, t, tmr[t].save, FALSE, 0)
      /\ tmr' = tmr /\ tmr[t].running
  BY DEF TimerReset
<1>2. BlocksKept /\ OnLine /\ Scanned(Timers, w)
  BY DEF IInv
<1>3. off = IF t \in Nodes(w.line) THEN WakeupDel(w, t, FALSE, 0) ELSE w
  BY <1>1, <1>2 DEF OnLine
<1> HIDE DEF off
<1>4. BlocksKept' /\ tmr[t].save \in Counts
  BY <1>1, <1>2 DEF BlocksKept
<1>5. {x \in Timers : tmr'[x].running} = Nodes(w.line) \union {t}
  BY <1>1, <1>2 DEF OnLine
<1>6. Becomes(w, w', Nodes(w.line) \union {t}, [Lefts(w.line) EXCEPT ![t] = tmr[t].save])
  BY <1>1, <1>2, <1>3, <1>4, StartEffect
<1>7. QED
  BY <1>4, <1>5, <1>6, UserKeeps

\* TimerCancel and TimerDelete.
LEMMA StopStep ==
    ASSUME IInv, NEW t \in Timers, UNCHANGED <<calling, ticks>>, BlocksKept',
           w' = IF tmr[t].running THEN WakeupDel(w, t, FALSE, 0) ELSE w,
           \A x \in Timers : tmr'[x].running <=> tmr[x].running /\ x # t
    PROVE  IInv' /\ Lefts(w.line)' = [Lefts(w.line) EXCEPT ![t] = 0]
<1>1. Scanned(Timers, w) /\ OnLine
  BY DEF IInv
<1>2. {x \in Timers : tmr'[x].running} = Nodes(w.line) \ {t}
  BY <1>1 DEF OnLine
<1>3. Becomes(w, w', Nodes(w.line) \ {t}, [Lefts(w.line) EXCEPT ![t] = 0])
  <2>1. CASE tmr[t].running
    <3>1. t \in Nodes(w.line) /\ w' = WakeupDel(w, t, FALSE, 0)
      BY <1>1, <2>1 DEF OnLine
    <3>2. QED
      BY <1>1, <3>1, StopEffect
  <2>2. CASE ~tmr[t].running
    <3>1. t \notin Nodes(w.line) /\ w' = w
      BY <1>1, <2>2 DEF OnLine
    <3>2. [Lefts(w.line) EXCEPT ![t] = 0] = Lefts(w.line)
      BY <3>1 DEF Lefts
    <3>3. Nodes(w.line) \ {t} = Nodes(w.line)
      BY <3>1
    <3>4. QED
      BY <1>1, <3>1, <3>2, <3>3 DEF Becomes
  <2>3. QED
    BY <2>1, <2>2
<1>4. QED
  BY <1>2, <1>3, UserKeeps

-----------------------------------------------------------------------------
(* The refinement: the line shows the counters it stands for. *)

Shown(v, b) == [t \in Timers |-> IF b[t].running THEN WakeupStatus(v, t, 0) ELSE 0]

\* API_TimerStatus shows the time left.
LEMMA ShownAreLeft ==
    ASSUME NEW v, Scanned(Timers, v), NEW b, Nodes(v.line) = {t \in Timers : b[t].running}
    PROVE  Shown(v, b) = Lefts(v.line)
<1>1. \A t \in Timers : b[t].running => WakeupStatus(v, t, 0) = LeftOn(v.line, t)
  BY StatusIsLeft
<1>2. \A t \in Timers : t \in Nodes(v.line) <=> b[t].running
  OBVIOUS
<1>3. QED
  BY <1>1, <1>2 DEF Shown, Lefts

\* The first state.
LEMMA InitInv == Init => IInv
<1> SUFFICES ASSUME Init PROVE IInv
  OBVIOUS
<1>1. w = [line |-> <<>>, op |-> Null, last |-> 0] /\ tmr = [t \in Timers |-> Unused]
      /\ calling = Null /\ ticks = 0
  BY DEF Init, Empty
<1>2. <<>> \in Lines(Timers) /\ Nodes(<<>>) = {} /\ Apart(<<>>)
  BY DEF Lines, Nodes, Apart
<1>3. Scanned(Timers, w)
  BY <1>1, <1>2 DEF Scanned
<1>4. Unused \in Block /\ ~Unused.running
  BY DEF Unused, Block
<1>5. BlocksKept /\ OnLine
  BY <1>1, <1>2, <1>4 DEF BlocksKept, OnLine
<1>6. ScanPending
  BY <1>1, <1>2 DEF ScanPending, NothingDue
<1>7. QED
  BY <1>3, <1>5, <1>6 DEF IInv

\* It is the first state of TimerCountdown.
LEMMA InitCountdown == Init => Countdown!Init
<1> SUFFICES ASSUME Init PROVE Countdown!Init
  OBVIOUS
<1>1. tmr = [t \in Timers |-> Unused] /\ calling = Null
  BY DEF Init
<1>2. \A t \in Timers : tmr[t].running = FALSE
  BY <1>1 DEF Unused
<1>3. [t \in Timers |-> IF tmr[t].running THEN WakeupStatus(w, t, 0) ELSE 0] = [t \in Timers |-> 0]
  BY <1>2
<1>4. QED
  BY <1>1, <1>3 DEF Countdown!Init, Countdown!Idle, Unused

\* Every step keeps the invariant, and is a step of the counters.
LEMMA StepInv ==
    ASSUME IInv, [Next]_vars
    PROVE  IInv' /\ [Countdown!Next]_(Countdown!cvars)
<1>1. ASSUME IInv'
      PROVE  /\ Shown(w, tmr) = Lefts(w.line) /\ Shown(w', tmr') = Lefts(w.line)'
             /\ Shown(w, tmr) = [t \in Timers |-> IF tmr[t].running THEN WakeupStatus(w, t, 0) ELSE 0]
             /\ Shown(w', tmr') = [t \in Timers |-> IF tmr'[t].running THEN WakeupStatus(w', t, 0) ELSE 0]
  <2>1. Shown(w, tmr) = Lefts(w.line)
    BY ShownAreLeft DEF IInv, OnLine
  <2>2. Scanned(Timers, w') /\ Nodes(w'.line) = {t \in Timers : tmr'[t].running}
    BY <1>1 DEF IInv, OnLine
  <2>3. Shown(w', tmr') = Lefts(w'.line)
    BY <2>2, ShownAreLeft
  <2>4. QED
    BY <2>1, <2>3 DEF Shown
<1>2. CASE TimerHTicks
  <2> DEFINE l == [t \in Timers |-> IF tmr[t].running THEN Lefts(w.line)[t] - 1 ELSE 0]
             k == [t \in Timers |-> IF tmr[t].running THEN Shown(w, tmr)[t] - 1 ELSE 0]
  <2>1. calling = Null /\ IInv' /\ Calls(l)
    BY <1>2, TickStep
  <2>2. l = k
    BY <1>1, <2>1
  <2> HIDE DEF l
  <2>4. Calls(k)
    BY <2>1, <2>2
  <2> HIDE DEF k
  <2>5. Countdown!Call(k)
    <3>1. Lefts(w.line)' = Shown(w', tmr')
      BY <1>1, <2>1
    <3>2. QED
      BY <2>4, <3>1 DEF Calls, Shown, Countdown!Call, Countdown!Due
  <2>6. Countdown!Tick
    BY <1>1, <2>1, <2>5 DEF Countdown!Tick, k, Shown
  <2>7. QED
    BY <2>1, <2>6 DEF Countdown!Next
<1>3. CASE RoutineReturns
  <2>1. calling # Null /\ IInv' /\ Calls(Lefts(w.line))
    BY <1>3, ReturnStep
  <2> DEFINE k == Shown(w, tmr)
  <2>2. Calls(k)
    BY <1>1, <2>1
  <2> HIDE DEF k
  <2>3. Countdown!Call(k)
    <3>1. Lefts(w.line)' = Shown(w', tmr')
      BY <1>1, <2>1
    <3>2. QED
      BY <2>2, <3>1 DEF Calls, Shown, Countdown!Call, Countdown!Due
  <2>4. Countdown!Return
    BY <1>1, <2>1, <2>3 DEF Countdown!Return, k, Shown
  <2>5. QED
    BY <2>1, <2>4 DEF Countdown!Next
<1>4. CASE User
  <2> BlocksKept /\ OnLine
    BY DEF IInv
  <2> PICK t \in Timers :
        \/ TimerCreate(t)
        \/ TimerCancel(t, FALSE, 0)
        \/ TimerReset(t, FALSE, 0)
        \/ TimerDelete(t, FALSE, 0)
        \/ \E init, count \in Counts, auto \in BOOLEAN :
              TimerStartEx(t, init, count, auto, FALSE, 0)
    BY <1>4 DEF User
  <2> UNCHANGED <<calling, ticks>>
    BY <1>4 DEF User
  <2>1. CASE TimerCreate(t)
    <3>1. IInv' /\ Lefts(w.line)' = Lefts(w.line)
      BY <2>1, CreateStep
    <3>2. Countdown!Create(t)
      BY <1>1, <2>1, <3>1 DEF TimerCreate, Countdown!Create, Countdown!Idle, Unused
    <3>3. QED
      BY <3>1, <3>2 DEF Countdown!Next
  <2>2. CASE TimerCancel(t, FALSE, 0)
    <3>1. tmr[t].running /\ w' = (IF tmr[t].running THEN WakeupDel(w, t, FALSE, 0) ELSE w)
          /\ tmr' = [tmr EXCEPT ![t].running = FALSE]
      BY <2>2 DEF TimerCancel
    <3>2. BlocksKept' /\ \A x \in Timers : tmr'[x].running <=> tmr[x].running /\ x # t
      BY <3>1 DEF BlocksKept, Block
    <3>3. IInv' /\ Lefts(w.line)' = [Lefts(w.line) EXCEPT ![t] = 0]
      BY <3>1, <3>2, StopStep
    <3>4. Countdown!Stop(t)
      BY <1>1, <3>1, <3>3 DEF Countdown!Stop
    <3>5. QED
      BY <3>3, <3>4 DEF Countdown!Next
  <2>3. CASE TimerReset(t, FALSE, 0)
    <3>1. IInv' /\ Lefts(w.line)' = [Lefts(w.line) EXCEPT ![t] = tmr[t].save]
      BY <2>3, ResetStep
    <3>2. Countdown!Reset(t)
      BY <1>1, <2>3, <3>1 DEF TimerReset, Countdown!Reset
    <3>3. QED
      BY <3>1, <3>2 DEF Countdown!Next
  <2>4. CASE TimerDelete(t, FALSE, 0)
    <3>1. tmr[t].used /\ w' = (IF tmr[t].running THEN WakeupDel(w, t, FALSE, 0) ELSE w)
          /\ tmr' = [tmr EXCEPT ![t].used = FALSE, ![t].running = FALSE]
      BY <2>4 DEF TimerDelete
    <3>2. BlocksKept' /\ \A x \in Timers : tmr'[x].running <=> tmr[x].running /\ x # t
      BY <3>1 DEF BlocksKept, Block
    <3>3. IInv' /\ Lefts(w.line)' = [Lefts(w.line) EXCEPT ![t] = 0]
      BY <3>1, <3>2, StopStep
    <3>4. Countdown!Delete(t)
      BY <1>1, <3>1, <3>3 DEF Countdown!Delete
    <3>5. QED
      BY <3>3, <3>4 DEF Countdown!Next
  <2>5. ASSUME NEW init \in Counts, NEW count \in Counts, NEW auto \in BOOLEAN,
               TimerStartEx(t, init, count, auto, FALSE, 0)
        PROVE  IInv' /\ Countdown!Next
    <3>1. IInv' /\ Lefts(w.line)' = [Lefts(w.line) EXCEPT ![t] = init]
      <4> DEFINE b   == [used |-> TRUE, running |-> TRUE, auto |-> auto, save |-> count]
                 off == IF tmr[t].running THEN WakeupDel(w, t, FALSE, 0) ELSE w
      <4>1. w' = WakeupAdd(off, t, init, FALSE, 0) /\ tmr' = [tmr EXCEPT ![t] = b]
        BY <2>5 DEF TimerStartEx
      <4>2. b \in Block /\ b.running /\ b.used /\ b.save \in Counts
        BY DEF Block
      <4> HIDE DEF b
      <4>3. QED
        BY <4>1, <4>2, StartStep
    <3>2. Countdown!Start(t, init, count, auto)
      BY <1>1, <2>5, <3>1 DEF TimerStartEx, Countdown!Start
    <3>3. QED
      BY <3>1, <3>2 DEF Countdown!Next
  <2>6. QED
    BY <2>1, <2>2, <2>3, <2>4, <2>5
<1>5. CASE UNCHANGED vars
  <2>1. w' = w /\ tmr' = tmr /\ calling' = calling /\ ticks' = ticks
    BY <1>5 DEF vars
  <2>2. IInv'
    BY <2>1 DEF IInv, BlocksKept, OnLine, ScanPending
  <2>3. QED
    BY <2>1, <2>2 DEF Countdown!cvars
<1>6. QED
  BY <1>2, <1>3, <1>4, <1>5 DEF Next

\* The line, the blocks and the scan stay together, through every mixture of
\* ticks, routines and calls of the timer interface.
THEOREM Invariance == Spec => []IInv
<1>1. IInv /\ [Next]_vars => IInv'
  BY StepInv
<1>2. QED
  BY <1>1, InitInv, PTL DEF Spec

\* The fields of the line and of the control blocks keep their ranges.
THEOREM TypeCorrect == Spec => []TypeOK
<1>1. IInv => TypeOK
  BY DEF IInv, Scanned, Lines, BlocksKept, ScanPending, TypeOK
<1>2. QED
  BY <1>1, Invariance, PTL

\* The line holds every running timer once and no other, and the place the scan
\* keeps while the kernel is unlocked is on the line still.
THEOREM ScanNeverLost == Spec => []ScanStaysOnLine
<1>1. ASSUME IInv PROVE ScanStaysOnLine
  <2>1. /\ w.line \in Lines(Timers) /\ Apart(w.line) /\ w.op \in Nodes(w.line) \union {Null}
        /\ Nodes(w.line) = {t \in Timers : tmr[t].running}
    BY <1>1 DEF IInv, OnLine, Scanned
  <2>2. DOMAIN w.line = 1 .. Len(w.line)
    BY <2>1, LineTypes
  <2>3. IsInjective([i \in DOMAIN w.line |-> w.line[i].node])
    BY <2>1, <2>2 DEF Apart, IsInjective
  <2>4. QED
    BY <2>1, <2>2, <2>3 DEF ScanStaysOnLine, Nodes
<1>2. QED
  BY <1>1, Invariance, PTL

\* The list of differences implements the counters: each timer is called at the
\* tick its count asks for, never early, never late and never twice.
THEOREM LineCountsDown == Spec => CountsDown
<1>1. IInv /\ [Next]_vars => [Countdown!Next]_(Countdown!cvars)
  BY StepInv
<1>2. QED
  BY <1>1, InitCountdown, Invariance, PTL DEF Spec, CountsDown, Countdown!Spec


-----------------------------------------------------------------------------
(* The application timers: a line that keeps the time of its last charge. *)

\* The line v, last charged at time k.
At(v, k) == [line |-> v.line, op |-> v.op, last |-> k]

Timed(v) ==
    /\ v \in [line : Lines(Timers), op : Timers \union {Null}, last : Nat]
    /\ Apart(v.line)
    /\ v.op \in Nodes(v.line) \union {Null}

\* What was proved of lines without a time holds of lines with one.
LEMMA TimedIsScanned ==
    ASSUME NEW v, Timed(v)
    PROVE  /\ Scanned(Timers, At(v, 0)) /\ At(v, v.last) = v /\ v.last \in Nat
           /\ v.line \in Lines(Timers) /\ Apart(v.line)
           /\ OpLater(At(v, 0)) <=> OpLater(v)
  BY DEF Timed, Scanned, At, OpLater

\* And the other way round.
LEMMA ScannedIsTimed ==
    ASSUME NEW v, Scanned(Timers, v), NEW k \in Nat
    PROVE  /\ Timed(At(v, k)) /\ At(v, k).line = v.line /\ At(v, k).op = v.op /\ At(v, k).last = k
           /\ OpLater(At(v, k)) <=> OpLater(v)
  BY DEF Timed, Scanned, At, OpLater

\* Without a charge, the operations leave the time of the last charge alone.
LEMMA AddAt ==
    ASSUME NEW v, Timed(v), NEW t, NEW c, NEW k
    PROVE  WakeupAdd(v, t, c, FALSE, k) = At(WakeupAdd(At(v, 0), t, c, FALSE, 0), v.last)
<1> DEFINE b == Inserted(v.line, t, c)
           u == At(v, 0)
<1>1. /\ v = [line |-> v.line, op |-> v.op, last |-> v.last]
      /\ u = [line |-> v.line, op |-> v.op, last |-> 0]
      /\ u.line = v.line /\ u.last = 0
  BY DEF Timed, At
<1> HIDE DEF u
<1>2. /\ WakeupAdd(v, t, c, FALSE, k) =
            [v EXCEPT !.line = Inserted(v.line, t, c), !.last = v.last]
      /\ WakeupAdd(u, t, c, FALSE, 0) =
            [u EXCEPT !.line = Inserted(u.line, t, c), !.last = u.last]
  BY Zenon DEF WakeupAdd
<1>3. /\ WakeupAdd(v, t, c, FALSE, k) = [v EXCEPT !.line = b, !.last = v.last]
      /\ WakeupAdd(u, t, c, FALSE, 0) = [u EXCEPT !.line = b, !.last = 0]
  BY <1>1, <1>2, Zenon
<1> HIDE DEF b
<1>4. WakeupAdd(v, t, c, FALSE, k) = [line |-> b, op |-> v.op, last |-> v.last]
  BY <1>3 DEF Timed
<1> DEFINE r == WakeupAdd(u, t, c, FALSE, 0)
<1>5. r = [line |-> b, op |-> v.op, last |-> 0]
  BY <1>1, <1>3
<1> HIDE DEF r
<1>6. At(r, v.last) = [line |-> b, op |-> v.op, last |-> v.last]
  BY <1>5 DEF At
<1>7. QED
  BY <1>4, <1>6, Zenon DEF r, u

\* The same of deleting a node.
LEMMA DelAt ==
    ASSUME NEW v, Timed(v), NEW t, NEW k
    PROVE  WakeupDel(v, t, FALSE, k) = At(WakeupDel(At(v, 0), t, FALSE, 0), v.last)
  BY DEF Timed, At, WakeupDel

\* The same of a step of the scan.
LEMMA PassNodeAt ==
    ASSUME NEW v, Timed(v), NEW d
    PROVE  PassNode(v, d) = At(PassNode(At(v, 0), d), v.last)
<1> DEFINE p == Place(v.line, v.op)
           x == IF v.line[p].counter > d THEN v.line[p].counter - d ELSE 0
           o == NextOf(v.line, v.op)
           b == Recounted(v.line, p, x)
           u == At(v, 0)
<1>1. /\ PassNode(v, d) = [v EXCEPT !.op = o, !.line = [v.line EXCEPT ![p].counter = x]]
      /\ u.line = v.line /\ u.op = v.op /\ u = [line |-> v.line, op |-> v.op, last |-> 0]
  BY DEF PassNode, At
<1> HIDE DEF u
<1>2. PassNode(u, d) = [u EXCEPT !.op = o, !.line = [v.line EXCEPT ![p].counter = x]]
  BY <1>1 DEF PassNode
<1>3. /\ PassNode(v, d) = [v EXCEPT !.op = o, !.line = b]
      /\ PassNode(u, d) = [u EXCEPT !.op = o, !.line = b]
  BY <1>1, <1>2 DEF Recounted
<1> HIDE DEF b, o
<1>4. /\ PassNode(v, d) = [line |-> b, op |-> o, last |-> v.last]
      /\ PassNode(u, d) = [line |-> b, op |-> o, last |-> 0]
  BY <1>1, <1>3 DEF Timed
<1>5. QED
  BY <1>4 DEF At, u

\* The scan is at the head, or at its end.
OpFirst(v) == v.op # Null => v.line[1].node = v.op

\* The head when a node has gone.
LEMMA RemovedFirst ==
    ASSUME NEW line \in Lines(Timers), Apart(line), NEW n \in Nodes(line)
    PROVE  /\ line[1].node # n => Removed(line, n)[1].node = line[1].node
           /\ line[1].node = n /\ NextOf(line, n) # Null =>
                 Removed(line, n)[1].node = NextOf(line, n)
<1> DEFINE r == Removed(line, n)
<1>1. PICK k \in 1 .. Len(line) : line[k].node = n
  BY DEF Nodes
<1>2. Place(line, n) = k /\ RemovedAt(Timers, line, r, k)
  <2>1. RemovedAt(Timers, line, Removed(line, line[k].node), k)
    BY RemovedLine
  <2>2. QED
    BY <1>1, <2>1, PlaceIs
<1> HIDE DEF r
<1>3. Len(line) \in Nat
  BY LineTypes
<1>4. ASSUME line[1].node # n PROVE r[1].node = line[1].node
  <2>1. 1 \in 1 .. k - 1
    BY <1>1, <1>3, <1>4
  <2>2. QED
    BY <1>2, <2>1 DEF RemovedAt
<1>5. ASSUME line[1].node = n, NextOf(line, n) # Null PROVE r[1].node = NextOf(line, n)
  <2>1. k = 1
    BY <1>1, <1>3, <1>5 DEF Apart
  <2>2. k # Len(line)
    BY <1>2, <1>5 DEF NextOf
  <2>3. 1 \in k .. Len(line) - 1
    <3>1. PICK h : h = Len(line)
      OBVIOUS
    <3>2. h \in Nat /\ 1 <= h /\ h # 1
      BY <1>3, <2>1, <2>2, <3>1
    <3>3. 1 \in 1 .. h - 1
      BY <3>2
    <3>4. QED
      BY <2>1, <3>1, <3>3
  <2>4. \A j \in k .. Len(line) - 1 : r[j].node = line[j + 1].node
    BY <1>2 DEF RemovedAt
  <2>5. r[1].node = line[1 + 1].node
    BY <2>3, <2>4, Zenon
  <2>6. NextOf(line, n) = line[k + 1].node
    BY <1>2, <2>2 DEF NextOf
  <2>7. QED
    BY <2>1, <2>5, <2>6
<1>6. QED
  BY <1>4, <1>5 DEF r

\* Where the scan is after a node came or went.
LEMMA OpOfAdd ==
    ASSUME NEW v, Timed(v), NEW t, NEW c, NEW k
    PROVE  WakeupAdd(v, t, c, FALSE, k).op = v.op
<1> DEFINE b == Inserted(v.line, t, c)
<1>1. WakeupAdd(v, t, c, FALSE, k) = [v EXCEPT !.line = b, !.last = v.last]
  BY DEF WakeupAdd
<1> HIDE DEF b
<1>2. QED
  BY <1>1 DEF Timed

\* A scan at the head stays there.
LEMMA OpOfDel ==
    ASSUME NEW v, Timed(v), NEW t \in Nodes(v.line), NEW k
    PROVE  /\ v.op = Null => WakeupDel(v, t, FALSE, k).op = Null
           /\ OpFirst(v) => OpFirst(WakeupDel(v, t, FALSE, k))
<1> DEFINE r == WakeupDel(v, t, FALSE, k)
<1>1. /\ r.line = Removed(v.line, t)
      /\ r.op = IF v.op = t THEN NextOf(v.line, t) ELSE v.op
  BY DEF WakeupDel
<1>2. v.line \in Lines(Timers) /\ Apart(v.line) /\ t # Null
  <2>1. v.line \in Lines(Timers) /\ Apart(v.line)
    BY DEF Timed
  <2>2. PICK i \in 1 .. Len(v.line) : v.line[i].node = t
    BY DEF Nodes
  <2>3. t \in Timers
    BY <2>1, <2>2, LineTypes
  <2>4. QED
    BY <2>1, <2>3, TimersAssumption
<1> HIDE DEF r
<1>3. v.op = Null => r.op = Null
  BY <1>1, <1>2
<1>4. ASSUME OpFirst(v), r.op # Null PROVE r.line[1].node = r.op
  <2>1. v.op # Null /\ v.line[1].node = v.op
    BY <1>3, <1>4 DEF OpFirst
  <2>2. QED
    BY <1>1, <1>2, <1>4, <2>1, RemovedFirst
<1>5. QED
  BY <1>3, <1>4 DEF OpFirst, r

\* r is v with the timer t, which has to wait c ticks from the last charge.
WithTimer(v, t, c, r) ==
    /\ Timed(r) /\ r.last = v.last /\ r.op = v.op
    /\ Nodes(r.line) = Nodes(v.line) \union {t}
    /\ LeftOn(r.line, t) = c
    /\ \A m \in Nodes(v.line) : LeftOn(r.line, m) = LeftOn(v.line, m)
    /\ OpLater(v) => OpLater(r)

\* A timer is put on the line, nothing is charged.
LEMMA TimedAdd ==
    ASSUME NEW v, Timed(v), NEW t \in Timers, t \notin Nodes(v.line), NEW c \in Counts, NEW k
    PROVE  WithTimer(v, t, c, WakeupAdd(v, t, c, FALSE, k))
<1> DEFINE u == At(v, 0)
           r == WakeupAdd(u, t, c, FALSE, 0)
<1>1. /\ Scanned(Timers, u) /\ v.last \in Nat /\ Null \notin Timers
      /\ u.line = v.line /\ (OpLater(u) <=> OpLater(v)) /\ c \in Nat /\ c # 0
  BY TimedIsScanned, TimersAssumption, CountsAssumption DEF At
<1> HIDE DEF u
<1>2. WithNode(Timers, u, t, c, r)
  <2> HIDE DEF r
  <2>1. r = WakeupAdd(u, t, c, FALSE, 0) /\ t \notin Nodes(u.line)
    BY <1>1 DEF r
  <2>2. QED
    BY <1>1, <2>1, AddEffect, Zenon
<1> HIDE DEF r
<1>3. WakeupAdd(v, t, c, FALSE, k) = At(r, v.last)
  BY AddAt DEF r, u
<1>4. Timed(At(r, v.last)) /\ At(r, v.last).line = r.line /\ At(r, v.last).last = v.last
      /\ (OpLater(At(r, v.last)) <=> OpLater(r))
  BY <1>1, <1>2, ScannedIsTimed DEF WithNode
<1>5. WakeupAdd(v, t, c, FALSE, k).op = v.op
  BY OpOfAdd
<1> DEFINE x == WakeupAdd(v, t, c, FALSE, k)
<1> HIDE DEF x
<1>6. x.op = v.op /\ x = At(r, v.last)
  BY <1>3, <1>5 DEF x
<1>7. WithTimer(v, t, c, x)
  BY <1>1, <1>2, <1>4, <1>6 DEF WithNode, WithTimer
<1>8. QED
  BY <1>7, Zenon DEF x

\* r is v without the timer t.
WithoutTimer(v, t, r) ==
    /\ Timed(r) /\ r.last = v.last
    /\ Nodes(r.line) = Nodes(v.line) \ {t}
    /\ \A m \in Nodes(r.line) : LeftOn(r.line, m) = LeftOn(v.line, m)
    /\ OpLater(v) => OpLater(r)
    /\ v.op = Null => r.op = Null
    /\ OpFirst(v) => OpFirst(r)

\* A timer is taken off the line, nothing is charged.
LEMMA TimedDel ==
    ASSUME NEW v, Timed(v), NEW t \in Nodes(v.line), NEW k
    PROVE  WithoutTimer(v, t, WakeupDel(v, t, FALSE, k))
<1> DEFINE u == At(v, 0)
           r == WakeupDel(u, t, FALSE, 0)
<1>1. /\ Scanned(Timers, u) /\ v.last \in Nat /\ Null \notin Timers
      /\ u.line = v.line /\ (OpLater(u) <=> OpLater(v))
  BY TimedIsScanned, TimersAssumption DEF At
<1> HIDE DEF u
<1>2. WithoutNode(Timers, u, t, r)
  <2> HIDE DEF r
  <2>1. r = WakeupDel(u, t, FALSE, 0) /\ t \in Nodes(u.line)
    BY <1>1 DEF r
  <2>2. QED
    BY <1>1, <2>1, DelEffect, Zenon
<1> HIDE DEF r
<1>3. WakeupDel(v, t, FALSE, k) = At(r, v.last)
  BY DelAt DEF r, u
<1>4. Timed(At(r, v.last)) /\ At(r, v.last).line = r.line /\ At(r, v.last).last = v.last
      /\ (OpLater(At(r, v.last)) <=> OpLater(r))
  BY <1>1, <1>2, ScannedIsTimed DEF WithoutNode
<1> DEFINE x == WakeupDel(v, t, FALSE, k)
<1>5. (v.op = Null => x.op = Null) /\ (OpFirst(v) => OpFirst(x))
  BY OpOfDel
<1>6. x = At(r, v.last)
  BY <1>3
<1> HIDE DEF x
<1>7. WithoutTimer(v, t, x)
  BY <1>1, <1>2, <1>4, <1>5, <1>6 DEF WithoutNode, WithoutTimer
<1>8. QED
  BY <1>7, Zenon DEF x

\* The nodes are timers with a time left.
LEMMA TimedLeft ==
    ASSUME NEW v, Timed(v), NEW n \in Nodes(v.line)
    PROVE  LeftOn(v.line, n) \in Nat /\ n \in Timers
<1>1. Scanned(Timers, At(v, 0)) /\ At(v, 0).line = v.line
  BY TimedIsScanned DEF At
<1>2. QED
  BY <1>1, LeftIsNat

\* r is a later state of the line v, in which the timers ts wait as long as in v,
\* or longer.
NoSooner(v, r, ts) ==
    /\ Timed(r) /\ v.last <= r.last
    /\ ts \subseteq Nodes(v.line) /\ ts \subseteq Nodes(r.line)
    /\ \A m \in ts : v.last + LeftOn(v.line, m) <= r.last + LeftOn(r.line, m)
    /\ OpLater(v) => OpLater(r)
    /\ v.op = Null => r.op = Null

\* One operation after the other.
LEMMA NoSoonerTrans ==
    ASSUME NEW v, Timed(v), NEW a, NEW ts, NoSooner(v, a, ts), NEW r, NEW us,
           NoSooner(a, r, us), us \subseteq ts
    PROVE  NoSooner(v, r, us)
<1>1. Timed(a) /\ Timed(r)
  BY DEF NoSooner
<1>2. v.last \in Nat /\ a.last \in Nat /\ r.last \in Nat
  BY <1>1, TimedIsScanned
<1>3. ASSUME NEW m \in us PROVE v.last + LeftOn(v.line, m) <= r.last + LeftOn(r.line, m)
  <2>1. m \in Nodes(v.line) /\ m \in Nodes(a.line) /\ m \in Nodes(r.line)
    BY <1>3 DEF NoSooner
  <2>2. LeftOn(v.line, m) \in Nat /\ LeftOn(a.line, m) \in Nat /\ LeftOn(r.line, m) \in Nat
    BY <1>1, <2>1, TimedLeft
  <2>3. /\ v.last + LeftOn(v.line, m) <= a.last + LeftOn(a.line, m)
        /\ a.last + LeftOn(a.line, m) <= r.last + LeftOn(r.line, m)
    BY <1>3 DEF NoSooner
  <2>4. QED
    BY <1>2, <2>2, <2>3
<1>4. QED
  BY <1>2, <1>3 DEF NoSooner

\* The head is charged up to time k.
ChargedTo(v, k) == [line |-> Charged(v.line, k - v.last), op |-> v.op, last |-> k]

\* Charging the head lets no timer run out sooner.
LEMMA ChargeEffect ==
    ASSUME NEW v, Timed(v), NEW k \in Nat, v.last <= k
    PROVE  /\ NoSooner(v, ChargedTo(v, k), Nodes(v.line))
           /\ Nodes(ChargedTo(v, k).line) = Nodes(v.line) /\ ChargedTo(v, k).last = k
           /\ OpFirst(v) => OpFirst(ChargedTo(v, k))
<1> DEFINE line == v.line
           d == k - v.last
           c == line[1].counter
           x == IF c > d THEN d ELSE c
           b == Charged(line, d)
           r == ChargedTo(v, k)
<1>1. /\ line \in Lines(Timers) /\ Apart(line) /\ v.last \in Nat
      /\ v.op \in Nodes(line) \union {Null} /\ v.op \in Timers \union {Null}
  BY DEF Timed
<1>2. d \in Nat /\ k = v.last + d
  BY <1>1
<1>3. r = [line |-> b, op |-> v.op, last |-> k]
  BY DEF ChargedTo
<1> HIDE DEF line, d, r, b
<1>4. /\ b \in Lines(Timers) /\ Apart(b) /\ Nodes(b) = Nodes(line)
      /\ \A n \in Nodes(line) : LeftOn(line, n) <= d + LeftOn(b, n)
      /\ OpLater(v) => OpLater(r)
      /\ b[1].node = line[1].node
  <2>1. CASE line = <<>>
    <3>1. b = line
      BY <2>1 DEF b, Charged
    <3>2. Len(line) = 0 /\ Nodes(line) = {}
      BY <2>1 DEF Nodes
    <3>3. OpLater(r)
      BY <1>3, <3>1, <3>2 DEF OpLater
    <3>4. QED
      BY <1>1, <3>1, <3>2, <3>3
  <2>2. CASE line # <<>>
    <3>1. c \in Nat /\ Expiry(line, 1) = c
      BY <1>1, <2>2, HeadExpiry
    <3>2. x \in Nat /\ x <= c /\ x <= d /\ (IF c > d THEN c - d ELSE 0) = c - x
      BY <1>2, <3>1
    <3> HIDE DEF x
    <3>3. b = Recounted(line, 1, c - x)
      BY <2>2, <3>2 DEF b, Charged, Recounted
    <3>4. Waited(Timers, line, b, x)
      BY <1>1, <2>2, <3>2, <3>3, HeadWaits
    <3>5. ASSUME NEW n \in Nodes(line) PROVE LeftOn(line, n) <= d + LeftOn(b, n)
      <4>1. LeftOn(line, n) \in Nat
        BY <3>5, TimedLeft DEF line
      <4>2. LeftOn(b, n) = LeftOn(line, n) - x
        BY <3>4, <3>5 DEF Waited
      <4>3. QED
        BY <1>2, <3>2, <4>1, <4>2
    <3>6. ASSUME OpLater(v) PROVE OpLater(r)
      <4>1. Len(b) = Len(line) /\ Len(line) \in Nat
        BY <1>1, <3>4, LineTypes DEF Waited
      <4>2. ASSUME NEW p \in 2 .. Len(b), b[p].node = v.op
            PROVE  Expiry(b, p - 1) < Expiry(b, p)
        <5>1. p \in 2 .. Len(line) /\ p \in 1 .. Len(line) /\ p - 1 \in 1 .. Len(line)
              /\ p \in 0 .. Len(line) /\ p - 1 \in 0 .. Len(line)
          BY <4>1
        <5>2. b[p].node = line[p].node
          BY <3>4, <5>1 DEF Waited
        <5>3. Expiry(line, p - 1) < Expiry(line, p)
          BY <3>6, <4>2, <5>1, <5>2 DEF OpLater, line
        <5>4. Expiry(b, p) = Expiry(line, p) - x /\ Expiry(b, p - 1) = Expiry(line, p - 1) - x
          BY <3>4, <5>1 DEF Waited
        <5>5. Expiry(line, p) \in Nat /\ Expiry(line, p - 1) \in Nat
          BY <1>1, <5>1, ExpirySteps
        <5>6. QED
          BY <3>2, <5>3, <5>4, <5>5
      <4>3. QED
        BY <1>3, <4>2 DEF OpLater
    <3>7. 1 \in 1 .. Len(line)
      BY <1>1, <2>2, HeadExpiry
    <3>8. QED
      BY <3>4, <3>5, <3>6, <3>7 DEF Waited
  <2>3. QED
    BY <2>1, <2>2
<1>5. Timed(r) /\ r.last = k /\ r.line = b
  BY <1>1, <1>3, <1>4 DEF Timed
<1>6. ASSUME NEW n \in Nodes(line)
      PROVE  v.last + LeftOn(line, n) <= k + LeftOn(b, n)
  <2>1. LeftOn(line, n) \in Nat /\ LeftOn(b, n) \in Nat
    BY <1>4, <1>5, <1>6, TimedLeft DEF line
  <2>2. QED
    BY <1>1, <1>2, <1>4, <1>6, <2>1
<1>7. r.op = v.op /\ (OpFirst(v) => OpFirst(r))
  BY <1>3, <1>4 DEF OpFirst, line
<1>8. QED
  BY <1>4, <1>5, <1>6, <1>7 DEF NoSooner, line, r

\* With bProcTime, adding a node charges the head first.
LEMMA AddCharges ==
    ASSUME NEW v, Timed(v), NEW k \in Nat, v.last <= k, NEW t, NEW c
    PROVE  WakeupAdd(v, t, c, TRUE, k) = WakeupAdd(ChargedTo(v, k), t, c, FALSE, k)
<1> DEFINE a == Charged(v.line, k - v.last)
           b == Inserted(a, t, c)
           u == ChargedTo(v, k)
<1>1. u = [line |-> a, op |-> v.op, last |-> k] /\ u.line = a /\ u.last = k
  BY DEF ChargedTo
<1> HIDE DEF u
<1>2. WakeupAdd(u, t, c, FALSE, k) = [u EXCEPT !.line = Inserted(u.line, t, c), !.last = u.last]
  BY Zenon DEF WakeupAdd
<1>3. WakeupAdd(v, t, c, TRUE, k) =
         [v EXCEPT !.line = Inserted(Charged(v.line, k - v.last), t, c), !.last = k]
  BY Zenon DEF WakeupAdd
<1>4. WakeupAdd(v, t, c, TRUE, k) = [v EXCEPT !.line = b, !.last = k]
  BY <1>3
<1>5. WakeupAdd(u, t, c, FALSE, k) = [u EXCEPT !.line = b, !.last = k]
  BY <1>1, <1>2, Zenon
<1> HIDE DEF b, a
<1> DEFINE x == WakeupAdd(v, t, c, TRUE, k)
           y == WakeupAdd(u, t, c, FALSE, k)
<1>6. x = [line |-> b, op |-> v.op, last |-> k]
  BY <1>4 DEF Timed
<1>7. y = [line |-> b, op |-> v.op, last |-> k]
  BY <1>1, <1>5
<1> HIDE DEF x, y
<1>8. x = y
  BY <1>6, <1>7
<1>9. QED
  BY <1>8, Zenon DEF x, y, u

\* Taking a node off charges the head when the node was the head.
LEMMA DelCharges ==
    ASSUME NEW v, Timed(v), NEW k \in Nat, v.last <= k, NEW t
    PROVE  WakeupDel(v, t, TRUE, k) =
              IF v.line[1].node = t THEN ChargedTo(WakeupDel(v, t, FALSE, k), k)
              ELSE WakeupDel(v, t, FALSE, k)
<1> DEFINE b == Removed(v.line, t)
           o == IF v.op = t THEN NextOf(v.line, t) ELSE v.op
           x == WakeupDel(v, t, FALSE, k)
           y == WakeupDel(v, t, TRUE, k)
<1>1. x = [line |-> b, op |-> o, last |-> v.last]
  BY DEF WakeupDel
<1>2. v.line[1].node = t => y = [line |-> Charged(b, k - v.last), op |-> o, last |-> k]
  BY DEF WakeupDel
<1>3. v.line[1].node # t => y = [line |-> b, op |-> o, last |-> v.last]
  BY DEF WakeupDel
<1> HIDE DEF b, o, x, y
<1>4. ChargedTo(x, k) = [line |-> Charged(b, k - v.last), op |-> o, last |-> k]
  BY <1>1 DEF ChargedTo
<1>5. y = IF v.line[1].node = t THEN ChargedTo(x, k) ELSE x
  BY <1>1, <1>2, <1>3, <1>4
<1>6. QED
  BY <1>5, Zenon DEF x, y

\* At time k, t has gone from the line v.
StoppedAt(v, t, k, r) ==
    /\ NoSooner(v, r, Nodes(v.line) \ {t})
    /\ Nodes(r.line) = Nodes(v.line) \ {t}
    /\ r.last <= k
    /\ OpFirst(v) => OpFirst(r)

\* Taking a timer off, the head being charged if it was the first.
LEMMA StopTimed ==
    ASSUME NEW v, Timed(v), NEW k \in Nat, v.last <= k, NEW t \in Nodes(v.line)
    PROVE  StoppedAt(v, t, k, WakeupDel(v, t, TRUE, k))
<1> DEFINE x == WakeupDel(v, t, FALSE, k)
           y == WakeupDel(v, t, TRUE, k)
<1>1. WithoutTimer(v, t, x)
  BY TimedDel
<1>2. y = x \/ y = ChargedTo(x, k)
  BY DelCharges
<1> HIDE DEF x, y
<1>3. Timed(x) /\ x.last = v.last /\ Nodes(x.line) = Nodes(v.line) \ {t}
  BY <1>1 DEF WithoutTimer
<1>4. NoSooner(v, x, Nodes(v.line) \ {t})
  <2>1. \A m \in Nodes(x.line) : LeftOn(x.line, m) \in Nat /\ x.last \in Nat
    BY <1>3, TimedLeft, TimedIsScanned
  <2>2. ASSUME NEW m \in Nodes(v.line) \ {t}
        PROVE  v.last + LeftOn(v.line, m) <= x.last + LeftOn(x.line, m)
    <3>1. LeftOn(x.line, m) = LeftOn(v.line, m) /\ m \in Nodes(x.line)
      BY <1>1, <1>3, <2>2 DEF WithoutTimer
    <3>2. QED
      BY <1>3, <2>1, <3>1
  <2>3. v.last <= x.last
    BY <1>3, TimedIsScanned
  <2>4. QED
    BY <1>1, <1>3, <2>2, <2>3 DEF NoSooner, WithoutTimer
<1>5. ASSUME y = x PROVE StoppedAt(v, t, k, y)
  BY <1>1, <1>3, <1>4, <1>5 DEF StoppedAt, WithoutTimer
<1>6. ASSUME y = ChargedTo(x, k) PROVE StoppedAt(v, t, k, y)
  <2>1. /\ NoSooner(x, y, Nodes(x.line)) /\ Nodes(y.line) = Nodes(x.line) /\ y.last = k
        /\ OpFirst(x) => OpFirst(y)
    BY <1>3, <1>6, ChargeEffect
  <2>2. NoSooner(v, y, Nodes(v.line) \ {t})
    BY <1>3, <1>4, <2>1, NoSoonerTrans
  <2>3. QED
    BY <1>1, <1>3, <2>1, <2>2 DEF StoppedAt, WithoutTimer
<1>7. StoppedAt(v, t, k, y)
  BY <1>2, <1>5, <1>6
<1>8. QED
  BY <1>7, Zenon DEF y

\* The line after a timer that may not run is stopped.
LEMMA MayStop ==
    ASSUME NEW v, Timed(v), NEW k \in Nat, v.last <= k, NEW t,
           NEW r, r = IF t \in Nodes(v.line) THEN WakeupDel(v, t, TRUE, k) ELSE v
    PROVE  StoppedAt(v, t, k, r)
<1>1. CASE t \in Nodes(v.line)
  <2>1. StoppedAt(v, t, k, WakeupDel(v, t, TRUE, k))
    BY <1>1, StopTimed
  <2>2. QED
    BY <1>1, <2>1
<1>2. CASE t \notin Nodes(v.line)
  <2>1. r = v /\ Nodes(v.line) \ {t} = Nodes(v.line)
    BY <1>2
  <2>2. v.last \in Nat /\ \A m \in Nodes(v.line) : LeftOn(v.line, m) \in Nat
    BY TimedLeft, TimedIsScanned
  <2>3. \A m \in Nodes(v.line) : v.last + LeftOn(v.line, m) <= v.last + LeftOn(v.line, m)
    BY <2>2
  <2>4. v.last <= v.last
    BY <2>2
  <2>5. QED
    BY <2>1, <2>3, <2>4 DEF NoSooner, StoppedAt
<1>3. QED
  BY <1>1, <1>2

\* At time k, t has started to wait c ticks.
StartedAt(v, t, c, k, r) ==
    /\ NoSooner(v, r, Nodes(v.line) \ {t})
    /\ Nodes(r.line) = Nodes(v.line) \union {t}
    /\ r.last = k /\ LeftOn(r.line, t) = c

\* A timer starts, and leaves the line first if it was running.
LEMMA StartTimed ==
    ASSUME NEW v, Timed(v), NEW k \in Nat, v.last <= k, NEW t \in Timers, NEW c \in Counts,
           NEW off, off = IF t \in Nodes(v.line) THEN WakeupDel(v, t, TRUE, k) ELSE v
    PROVE  StartedAt(v, t, c, k, WakeupAdd(off, t, c, TRUE, k))
<1> DEFINE x == ChargedTo(off, k)
           y == WakeupAdd(off, t, c, TRUE, k)
           ts == Nodes(v.line) \ {t}
<1>1. NoSooner(v, off, ts) /\ Nodes(off.line) = ts /\ off.last <= k
  <2>1. StoppedAt(v, t, k, off)
    BY MayStop
  <2>2. QED
    BY <2>1 DEF StoppedAt
<1> HIDE DEF ts
<1>2. Timed(off)
  BY <1>1 DEF NoSooner
<1>3. NoSooner(off, x, ts) /\ Nodes(x.line) = ts /\ x.last = k
  BY <1>1, <1>2, ChargeEffect
<1> HIDE DEF x
<1>4. NoSooner(v, x, ts) /\ Timed(x)
  <2>1. NoSooner(v, x, ts)
    BY <1>1, <1>3, NoSoonerTrans
  <2>2. QED
    BY <2>1 DEF NoSooner
<1>5. WithTimer(x, t, c, y)
  <2>1. t \notin Nodes(x.line)
    BY <1>3 DEF ts
  <2>2. WithTimer(x, t, c, WakeupAdd(x, t, c, FALSE, k))
    BY <1>4, <2>1, TimedAdd
  <2>3. y = WakeupAdd(x, t, c, FALSE, k)
    BY <1>1, <1>2, AddCharges DEF x
  <2> HIDE DEF y
  <2>4. QED
    BY <2>2, <2>3
<1> HIDE DEF y
<1>6. NoSooner(x, y, ts)
  <2>1. /\ Timed(y) /\ y.last = x.last /\ ts \subseteq Nodes(y.line) /\ (OpLater(x) => OpLater(y))
        /\ x.op = Null => y.op = Null
    BY <1>3, <1>5 DEF WithTimer
  <2>2. ASSUME NEW m \in ts PROVE x.last + LeftOn(x.line, m) <= y.last + LeftOn(y.line, m)
    <3>1. LeftOn(x.line, m) \in Nat /\ LeftOn(y.line, m) = LeftOn(x.line, m)
      BY <1>3, <1>4, <1>5, <2>2, TimedLeft DEF WithTimer
    <3>2. QED
      BY <1>3, <2>1, <3>1
  <2>3. x.last <= y.last
    BY <1>3, <2>1
  <2>4. QED
    BY <1>3, <2>1, <2>2, <2>3 DEF NoSooner
<1>7. NoSooner(v, y, ts)
  BY <1>4, <1>6, NoSoonerTrans
<1>8. Nodes(y.line) = Nodes(v.line) \union {t} /\ y.last = k /\ LeftOn(y.line, t) = c
  BY <1>3, <1>5 DEF WithTimer, ts
<1>9. StartedAt(v, t, c, k, y)
  BY <1>7, <1>8 DEF StartedAt, ts
<1>10. QED
  BY <1>9, Zenon DEF y

-----------------------------------------------------------------------------
(* The scan of the timer thread. *)

\* A round of the scan charges one node, and goes on to the next.
LEMMA PassNodeTimed ==
    ASSUME NEW v, Timed(v), v.op # Null, NEW n \in Nat
    PROVE  /\ Timed(PassNode(v, n)) /\ PassNode(v, n).last = v.last
           /\ Nodes(PassNode(v, n).line) = Nodes(v.line)
<1> DEFINE u == At(v, 0)
           line == v.line
           o == NextOf(line, v.op)
<1>1. /\ u \in [line : Lines(Timers), op : Timers \union {Null}, last : {0}]
      /\ line \in Lines(Timers) /\ Apart(line) /\ v.op \in Nodes(line)
      /\ u.line = line /\ u.op = v.op /\ v.last \in Nat
  BY DEF Timed, At
<1>2. Len(line) \in Nat
      /\ \A i \in 1 .. Len(line) : line[i].node \in Timers /\ line[i].counter \in Nat
  BY <1>1, LineTypes
<1> HIDE DEF u, line
<1>3. PICK k \in 1 .. Len(line) : line[k].node = v.op
  BY <1>1 DEF Nodes
<1>4. Place(line, v.op) = k
  BY <1>1, <1>3, PlaceIs
<1>5. PICK c : c = line[k].counter
  OBVIOUS
<1>6. PICK x : x = IF c > n THEN c - n ELSE 0
  OBVIOUS
<1>7. x \in Nat
  BY <1>2, <1>5, <1>6
<1>8. PassNode(u, n) = [line |-> Recounted(line, k, x), op |-> o, last |-> u.last]
  BY <1>1, <1>4, <1>5, <1>6, PassNodeIs
<1>9. PassNode(v, n) = At(PassNode(u, n), v.last)
  BY PassNodeAt DEF u
<1> DEFINE b == Recounted(line, k, x)
<1>10. /\ b \in Lines(Timers) /\ Len(b) = Len(line)
       /\ \A j \in 1 .. Len(line) : b[j].node = line[j].node
  BY <1>1, <1>7, ChangedCount
<1>11. Apart(b) /\ Nodes(b) = Nodes(line)
  BY <1>1, <1>10 DEF Apart, Nodes
<1>12. o \in Nodes(line) \union {Null} /\ o \in Timers \union {Null}
  <2>1. CASE k = Len(line)
    BY <1>4, <2>1 DEF NextOf
  <2>2. CASE k # Len(line)
    <3>1. k + 1 \in 1 .. Len(line)
      BY <1>2, <2>2
    <3>2. o = line[k + 1].node
      BY <1>4, <2>2 DEF NextOf
    <3>3. QED
      BY <1>2, <3>1, <3>2 DEF Nodes
  <2>3. QED
    BY <2>1, <2>2
<1> HIDE DEF b, o
<1>13. PassNode(v, n) = [line |-> b, op |-> o, last |-> v.last]
  BY <1>8, <1>9 DEF At, b
<1>14. QED
  BY <1>1, <1>10, <1>11, <1>12, <1>13 DEF Timed, line

\* A timer that was due stops, or is added again.
Fired(v, t, b, r) ==
    LET off == WakeupDel(v, t, FALSE, 0)
    IN  r = IF b.auto THEN WakeupAdd(off, t, b.save, FALSE, 0) ELSE off

AfterFire(v, t, b, r) ==
    /\ Timed(r) /\ r.last = v.last
    /\ Nodes(r.line) = IF b.auto THEN Nodes(v.line) ELSE Nodes(v.line) \ {t}
    /\ b.auto => LeftOn(r.line, t) = b.save
    /\ \A m \in Nodes(v.line) \ {t} : LeftOn(r.line, m) = LeftOn(v.line, m)
    /\ OpLater(v) => OpLater(r)

\* A timer that is due goes from the line and comes back if it repeats.
LEMMA FireEffect ==
    ASSUME NEW v, Timed(v), NEW t \in Nodes(v.line),
           NEW b, b.save \in Counts, NEW r, Fired(v, t, b, r)
    PROVE  AfterFire(v, t, b, r)
<1> DEFINE off == WakeupDel(v, t, FALSE, 0)
<1>1. r = IF b.auto THEN WakeupAdd(off, t, b.save, FALSE, 0) ELSE off
  BY DEF Fired
<1>2. WithoutTimer(v, t, off)
  BY TimedDel
<1>3. t \in Timers
  BY TimedLeft
<1> HIDE DEF off
<1>4. CASE ~b.auto
  BY <1>1, <1>2, <1>4 DEF WithoutTimer, AfterFire
<1>5. CASE b.auto
  <2>1. r = WakeupAdd(off, t, b.save, FALSE, 0)
    BY <1>1, <1>5
  <2>2. Timed(off) /\ t \notin Nodes(off.line)
    BY <1>2 DEF WithoutTimer
  <2>3. WithTimer(off, t, b.save, WakeupAdd(off, t, b.save, FALSE, 0))
    BY <1>3, <2>2, TimedAdd
  <2>4. WithTimer(off, t, b.save, r)
    BY <2>1, <2>3
  <2>5. QED
    BY <1>2, <1>5, <2>4 DEF WithTimer, WithoutTimer, AfterFire
<1>6. QED
  BY <1>4, <1>5

\* Whatever the time, the scan leaves a line that holds the running timers.
LEMMA ITimerScanKeeps ==
    ASSUME BlocksKept, NEW from, Timed(from), NEW n \in Nat, ITimerScan(from, n),
           Nodes(from.line) = {t \in Timers : tmr[t].running}
    PROVE  /\ Timed(w') /\ w'.last = from.last /\ BlocksKept' /\ OnLine'
           /\ at' \in {"start", "calling"} /\ charge' \in Nat
<1>1. CASE PassDue(from, n)
  <2> DEFINE v == PassNode(from, n)
             t == from.op
  <2>1. /\ Fire(v, t) /\ at' = "calling" /\ charge' = PassLeft(from, n)
    BY <1>1 DEF ITimerScan
  <2>2. t # Null /\ t \in Nodes(from.line)
    BY <1>1 DEF PassDue, Timed
  <2>3. Timed(v) /\ v.last = from.last /\ Nodes(v.line) = Nodes(from.line)
    BY <2>2, PassNodeTimed
  <2>4. charge' \in Nat
    <3>1. PICK k \in 1 .. Len(from.line) : from.line[k].node = t
      BY <2>2 DEF Nodes
    <3>2. from.line \in Lines(Timers) /\ Apart(from.line)
      BY DEF Timed
    <3>3. Place(from.line, t) = k /\ from.line[k].counter \in Nat
      BY <3>1, <3>2, PlaceIs, LineTypes
    <3>4. from.line[k].counter <= n /\ charge' = n - from.line[k].counter
      BY <1>1, <2>1, <3>3 DEF PassDue, PassLeft
    <3>5. QED
      BY <3>3, <3>4
  <2> HIDE DEF v, t
  <2>5. t \in Timers /\ tmr[t].running /\ tmr[t].save \in Counts /\ tmr[t].auto \in BOOLEAN
    BY <2>2 DEF BlocksKept, Block
  <2>6. Fired(v, t, tmr[t], w') /\ tmr' = [tmr EXCEPT ![t].running = tmr[t].auto]
    BY <2>1 DEF Fire, Fired
  <2>7. /\ Timed(w') /\ w'.last = v.last
        /\ Nodes(w'.line) = IF tmr[t].auto THEN Nodes(v.line) ELSE Nodes(v.line) \ {t}
    <3>1. AfterFire(v, t, tmr[t], w')
      BY <2>2, <2>3, <2>5, <2>6, FireEffect
    <3>2. QED
      BY <3>1 DEF AfterFire
  <2>8. BlocksKept'
    BY <2>5, <2>6 DEF BlocksKept, Block
  <2>9. {x \in Timers : tmr'[x].running} =
           IF tmr[t].auto THEN Nodes(v.line) ELSE Nodes(v.line) \ {t}
    BY <2>3, <2>5, <2>6 DEF BlocksKept
  <2>10. OnLine'
    BY <2>7, <2>9 DEF OnLine
  <2>11. w'.last = from.last /\ at' = "calling"
    BY <2>1, <2>3, <2>7
  <2>12. QED
    BY <2>4, <2>7, <2>8, <2>10, <2>11
<1>2. CASE ~PassDue(from, n)
  <2>1. /\ w' = IF from.op = Null THEN from ELSE PassNode(from, n)
        /\ at' = "start" /\ charge' = 0 /\ tmr' = tmr
    BY <1>2 DEF ITimerScan
  <2>2. Timed(w') /\ w'.last = from.last /\ Nodes(w'.line) = Nodes(from.line)
    BY <2>1, PassNodeTimed
  <2>3. QED
    BY <2>1, <2>2 DEF OnLine, BlocksKept
<1>3. QED
  BY <1>1, <1>2

\* No timer runs out before it is due, with c ticks still to be charged.
DueKept(v, l, c) ==
    \A t \in Nodes(v.line) : l[t] + c <= v.last + LeftOn(v.line, t)

\* With none to be charged.
LEMMA DueKeptIs ==
    ASSUME NEW v, Timed(v), NEW l \in [Timers -> Nat]
    PROVE  DueKept(v, l, 0) <=> \A t \in Nodes(v.line) : l[t] <= v.last + LeftOn(v.line, t)
<1>1. \A t \in Nodes(v.line) : l[t] \in Nat
  BY TimedLeft
<1>2. \A t \in Nodes(v.line) : l[t] + 0 = l[t]
  BY <1>1
<1>3. QED
  BY <1>2 DEF DueKept

\* The scan finds on the line from, with n ticks to charge, what it finds on the
\* line u with none.
SameScan(from, n, u) ==
    /\ from.op = u.op /\ from.last = u.last
    /\ PassDue(from, n) <=> PassDue(u, 0)
    /\ from.op = Null => from = u
    /\ from.op # Null => PassNode(from, n) = PassNode(u, 0)
    /\ PassDue(from, n) => PassLeft(from, n) = PassLeft(u, 0)

\* Then it calls no timer early, and leaves nothing to charge.
LEMMA ITimerScanPrompt ==
    ASSUME BlocksKept, NEW u, Timed(u), OpLater(u),
           due \in [Timers -> Nat], DueKept(u, due, 0),
           Nodes(u.line) = {t \in Timers : tmr[t].running},
           now \in Nat, u.last <= now, ~early,
           NEW from, NEW n, SameScan(from, n, u), ITimerScan(from, n)
    PROVE  /\ due' \in [Timers -> Nat] /\ DueKept(w', due', 0) /\ charge' = 0 /\ ~early'
           /\ at' = "calling" => OpLater(w')
<1> DEFINE z == At(u, 0)
<1>1. /\ Scanned(Timers, z) /\ OpLater(z) /\ Null \notin Timers /\ z.line = u.line /\ z.op = u.op
      /\ u.last \in Nat
      /\ PassDue(z, 0) <=> PassDue(u, 0)
      /\ PassLeft(z, 0) = PassLeft(u, 0)
  BY TimedIsScanned, TimersAssumption DEF At, PassDue, PassLeft
<1>2. PassNode(u, 0) = At(PassNode(z, 0), u.last)
  BY PassNodeAt
<1> HIDE DEF z
<1>3. CASE PassDue(from, n)
  <2> DEFINE t == u.op
             p == PassNode(u, 0)
  <2>1. PassDue(z, 0) /\ PassDue(u, 0) /\ t # Null /\ from.op = t
    BY <1>1, <1>3 DEF SameScan, PassDue
  <2>2. /\ t \in Nodes(u.line) /\ LeftOn(u.line, t) = 0
        /\ WakeupDel(PassNode(z, 0), t, FALSE, 0) = WakeupDel(z, t, FALSE, 0)
        /\ PassLeft(u, 0) = 0
    <3>1. /\ z.op \in Nodes(z.line) /\ LeftOn(z.line, z.op) = 0
          /\ WakeupDel(PassNode(z, 0), z.op, FALSE, 0) = WakeupDel(z, z.op, FALSE, 0)
          /\ PassLeft(z, 0) = 0
      BY <1>1, <2>1, ScanFinds
    <3>2. z.op = t
      BY <1>1
    <3> HIDE DEF t
    <3>3. WakeupDel(PassNode(z, 0), t, FALSE, 0) = WakeupDel(z, t, FALSE, 0)
      BY <3>1, <3>2, Zenon
    <3>4. QED
      BY <1>1, <3>1, <3>2, <3>3
  <2>3. /\ Fire(p, t) /\ at' = "calling" /\ charge' = PassLeft(from, n)
        /\ early' = (early \/ (now < due[t] /\ ~mixed))
        /\ due' = [due EXCEPT ![t] = IF tmr[t].auto THEN @ + tmr[t].save ELSE 0]
    BY <1>3, <2>1 DEF ITimerScan, SameScan
  <2>4. charge' = 0
    BY <1>3, <2>2, <2>3 DEF SameScan
  <2>5. Timed(p) /\ p.last = u.last /\ Nodes(p.line) = Nodes(u.line)
    BY <2>1, PassNodeTimed
  <2> HIDE DEF t, p
  <2>6. t \in Timers /\ tmr[t].running /\ tmr[t].save \in Counts
    BY <2>2 DEF BlocksKept
  <2>7. /\ due \in [Timers -> Nat] /\ due[t] <= u.last
        /\ \A m \in Nodes(u.line) : due[m] <= u.last + LeftOn(u.line, m)
    <3>1. \A m \in Nodes(u.line) : due[m] <= u.last + LeftOn(u.line, m)
      BY DueKeptIs
    <3>2. due[t] \in Nat /\ due[t] <= u.last + 0
      BY <2>2, <2>6, <3>1
    <3>3. QED
      BY <1>1, <3>1, <3>2
  <2>8. ~early'
    <3>1. due[t] \in Nat
      BY <2>6, <2>7
    <3>2. ~(now < due[t])
      BY <1>1, <2>7, <3>1
    <3>3. QED
      BY <2>3, <3>2, Zenon
  <2>9. WakeupDel(p, t, FALSE, 0) = WakeupDel(u, t, FALSE, 0)
    <3>1. WakeupDel(u, t, FALSE, 0) = At(WakeupDel(z, t, FALSE, 0), u.last)
      BY DelAt DEF z
    <3>2. WakeupDel(p, t, FALSE, 0) = At(WakeupDel(At(p, 0), t, FALSE, 0), u.last)
      BY <2>5, DelAt
    <3>3. At(p, 0) = PassNode(z, 0)
      <4> DEFINE q == PassNode(z, 0)
      <4>1. Timed(z) /\ z.op # Null /\ z.last = 0
        <5>1. z = At(z, 0)
          BY DEF z, At
        <5>2. Timed(At(z, 0)) /\ At(z, 0).last = 0
          BY <1>1, ScannedIsTimed
        <5>3. QED
          BY <1>1, <2>1, <5>1, <5>2 DEF t
      <4>2. Timed(q) /\ q.last = 0
        BY <4>1, PassNodeTimed
      <4> HIDE DEF q
      <4>3. p = At(q, u.last)
        BY <1>2 DEF p, q
      <4>4. At(p, 0) = At(q, 0) /\ At(q, 0) = q
        BY <4>2, <4>3, TimedIsScanned DEF At
      <4>5. QED
        BY <4>4 DEF q
    <3>4. QED
      BY <2>2, <3>1, <3>2, <3>3, Zenon DEF t
  <2>10. Fired(p, t, tmr[t], w')
    BY <2>3 DEF Fire, Fired
  <2>11. Fired(u, t, tmr[t], w')
    BY <2>9, <2>10, Zenon DEF Fired
  <2>12. AfterFire(u, t, tmr[t], w')
    BY <2>2, <2>6, <2>11, FireEffect DEF t
  <2>13. OpLater(w') /\ w'.last = u.last
    BY <2>12 DEF AfterFire
  <2>14. due' \in [Timers -> Nat]
    <3>1. due[t] + tmr[t].save \in Nat
      <4>1. due[t] \in Nat /\ tmr[t].save \in Nat
        BY <2>6, <2>7, CountsAssumption
      <4>2. QED
        BY <4>1
    <3>2. QED
      BY <2>3, <2>7, <3>1
  <2>15. ASSUME NEW m \in Nodes(w'.line) PROVE due'[m] <= w'.last + LeftOn(w'.line, m)
    <3>1. CASE m = t
      <4>1. tmr[t].auto
        BY <2>12, <2>15, <3>1 DEF AfterFire
      <4>2. LeftOn(w'.line, m) = tmr[t].save /\ tmr[t].save \in Nat
        BY <2>6, <2>12, <3>1, <4>1, CountsAssumption DEF AfterFire
      <4>3. due'[m] = due[t] + tmr[t].save /\ due[t] \in Nat
        BY <2>3, <2>6, <2>7, <3>1, <4>1
      <4>4. QED
        BY <1>1, <2>7, <2>13, <4>2, <4>3
    <3>2. CASE m # t
      <4>1. m \in Nodes(u.line) \ {t}
        BY <2>12, <2>15, <3>2 DEF AfterFire
      <4>2. LeftOn(w'.line, m) = LeftOn(u.line, m)
        BY <2>12, <4>1 DEF AfterFire
      <4>3. due'[m] = due[m]
        BY <2>3, <2>7, <3>2, <4>1, TimedLeft
      <4>4. QED
        BY <2>7, <2>13, <4>1, <4>2, <4>3
    <3>3. QED
      BY <3>1, <3>2
  <2>16. Timed(w') /\ DueKept(w', due', 0)
    BY <2>12, <2>14, <2>15, DueKeptIs DEF AfterFire
  <2>17. QED
    BY <2>3, <2>4, <2>8, <2>13, <2>14, <2>16
<1>4. CASE ~PassDue(from, n)
  <2>1. /\ w' = IF from.op = Null THEN from ELSE PassNode(from, n)
        /\ at' = "start" /\ charge' = 0 /\ due' = due /\ early' = early
    BY <1>4 DEF ITimerScan
  <2>2. w'.line = u.line /\ w'.last = u.last
    <3>1. CASE from.op = Null
      BY <2>1, <3>1 DEF SameScan
    <3>2. CASE from.op # Null
      <4>1. ~PassDue(z, 0) /\ z.op # Null /\ w' = PassNode(u, 0)
        BY <1>1, <1>4, <2>1, <3>2 DEF SameScan
      <4>2. PassNode(z, 0).line = z.line
        BY <1>1, <4>1, ScanFinds
      <4>3. QED
        BY <1>1, <1>2, <4>1, <4>2 DEF At
    <3>3. QED
      BY <3>1, <3>2
  <2>3. QED
    BY <2>1, <2>2 DEF DueKept
<1>5. QED
  BY <1>3, <1>4

\* From the head, and with no more ticks than its count, the scan finds what it
\* finds on the line that was charged with them.
LEMMA FirstScan ==
    ASSUME NEW v, Timed(v), v.op # Null, OpFirst(v), NEW n \in Nat, n <= v.line[1].counter
    PROVE  \E u : /\ Timed(u) /\ OpLater(u) /\ u.last = v.last
                  /\ Nodes(u.line) = Nodes(v.line)
                  /\ \A t \in Nodes(v.line) : n + LeftOn(u.line, t) = LeftOn(v.line, t)
                  /\ SameScan(v, n, u)
<1> DEFINE z == At(v, 0)
           k == v.last
           r == Ticked(z, n)
           u == At(r, k)
           g == PassFirst(z)
<1>1. /\ Scanned(Timers, z) /\ Null \notin Timers /\ k \in Nat
      /\ z.line = v.line /\ v.line \in Lines(Timers)
  BY TimedIsScanned, TimersAssumption DEF At
<1>2. z.line # <<>> => n <= z.line[1].counter
  BY <1>1
<1>3. v.line # <<>> /\ v.op = v.line[1].node
  <2>1. v.op \in Nodes(v.line)
    BY DEF Timed
  <2>2. v.line # <<>>
    BY <2>1 DEF Nodes
  <2>3. QED
    BY <2>2 DEF OpFirst
<1>4. g = z
  BY <1>3 DEF PassFirst, At, z
<1> HIDE DEF z, k
<1>5. /\ Scanned(Timers, r) /\ Ahead(r)
      /\ Nodes(r.line) = Nodes(z.line)
      /\ \A m \in Nodes(z.line) : LeftOn(r.line, m) = LeftOn(z.line, m) - n
      /\ g.op = r.op
      /\ PassDue(g, n) <=> PassDue(r, 0)
      /\ g.op # Null => PassNode(g, n) = PassNode(r, 0)
      /\ PassDue(g, n) => PassLeft(g, n) = PassLeft(r, 0)
  BY <1>1, <1>2, TickCharges
<1> HIDE DEF r, g
<1>6. z.line = v.line /\ z.op = v.op
  BY DEF z, At
<1>7. Timed(u) /\ u.line = r.line /\ u.op = r.op /\ u.last = k /\ OpLater(u) /\ At(u, 0) = r
  <2>1. Timed(u) /\ u.line = r.line /\ u.op = r.op /\ u.last = k /\ (OpLater(u) <=> OpLater(r))
    BY <1>1, <1>5, ScannedIsTimed
  <2>2. r \in [line : Lines(Timers), op : Timers \union {Null}, last : {0}]
    BY <1>5 DEF Scanned
  <2>3. At(u, 0) = r
    BY <2>2 DEF At
  <2>4. QED
    BY <1>5, <2>1, <2>3 DEF Ahead
<1> HIDE DEF u
<1>8. /\ PassDue(v, n) <=> PassDue(z, n)
      /\ PassDue(u, 0) <=> PassDue(r, 0)
      /\ PassLeft(v, n) = PassLeft(z, n)
      /\ PassLeft(u, 0) = PassLeft(r, 0)
  BY <1>6, <1>7 DEF PassDue, PassLeft
<1>9. PassNode(v, n) = At(PassNode(z, n), k) /\ PassNode(u, 0) = At(PassNode(r, 0), k)
  BY <1>7, PassNodeAt DEF z, k
<1>10. SameScan(v, n, u)
  <2>1. z.op # Null /\ v.op = u.op /\ v.last = u.last
    BY <1>4, <1>5, <1>6, <1>7 DEF k
  <2>2. PassNode(v, n) = PassNode(u, 0)
    BY <1>4, <1>5, <1>9, <2>1
  <2>3. (PassDue(v, n) <=> PassDue(u, 0)) /\ (PassDue(v, n) => PassLeft(v, n) = PassLeft(u, 0))
    BY <1>4, <1>5, <1>8
  <2>4. QED
    BY <2>1, <2>2, <2>3 DEF SameScan
<1>11. ASSUME NEW t \in Nodes(v.line) PROVE n + LeftOn(u.line, t) = LeftOn(v.line, t)
  <2>1. LeftOn(v.line, t) \in Nat
    BY <1>11, TimedLeft
  <2>2. LeftOn(u.line, t) = LeftOn(v.line, t) - n
    BY <1>5, <1>6, <1>7, <1>11
  <2>3. QED
    BY <2>1, <2>2
<1>12. QED
  BY <1>5, <1>6, <1>7, <1>10, <1>11 DEF k

\* The head is behind no node.
LEMMA FirstIsLater ==
    ASSUME NEW v, Timed(v), OpFirst(v)
    PROVE  OpLater(v)
<1>1. SUFFICES ASSUME NEW i \in 2 .. Len(v.line), v.line[i].node = v.op PROVE FALSE
  BY DEF OpLater
<1>2. v.line \in Lines(Timers) /\ Apart(v.line)
  BY DEF Timed
<1>3. Len(v.line) \in Nat
  BY <1>2, LineTypes
<1>4. i \in 1 .. Len(v.line) /\ 1 \in 1 .. Len(v.line) /\ i # 1
  BY <1>3
<1>5. v.line[i].node \in Timers
  BY <1>2, <1>4, LineTypes
<1>6. v.op # Null /\ v.line[1].node = v.op
  BY <1>1, <1>5, TimersAssumption DEF OpFirst
<1>7. QED
  BY <1>1, <1>2, <1>4, <1>6 DEF Apart

\* The order of two charges.
LEMMA LessOnBoth ==
    ASSUME NEW a \in Nat, NEW c \in Nat, NEW n \in Nat
    PROVE  (a - c) + n = a + (n - c)
  OBVIOUS

\* The scan of v charges the node at its place and has ticks left for the nodes
\* behind it, from the head of r on: all have that much less to wait.
WentOn(v, n, r) ==
    /\ PassDue(v, n) /\ PassLeft(v, n) \in Nat /\ PassLeft(v, n) > 0
    /\ LeftOn(v.line, v.op) < n
    /\ Timed(r) /\ r.last = v.last /\ Nodes(r.line) = Nodes(v.line) \ {v.op}
    /\ \A m \in Nodes(r.line) :
          LeftOn(r.line, m) + n = LeftOn(v.line, m) + PassLeft(v, n)
    /\ OpFirst(r) /\ OpLater(r)

\* So it is when a late thread has more ticks to charge than the head waits for.
LEMMA ScanGoesOn ==
    ASSUME NEW v, Timed(v), v.op # Null, OpFirst(v), NEW n \in Nat, v.line[1].counter < n,
           NEW r, r = WakeupDel(PassNode(v, n), v.op, FALSE, 0)
    PROVE  WentOn(v, n, r)
<1> DEFINE line == v.line
           t == v.op
           c == line[1].counter
           p == PassNode(v, n)
           b == Recounted(line, 1, 0)
<1>1. line \in Lines(Timers) /\ Apart(line) /\ t \in Nodes(line) /\ t \in Timers /\ t # Null
  BY TimersAssumption DEF Timed
<1>2. line # <<>> /\ line[1].node = t
  BY <1>1 DEF Nodes, OpFirst
<1>3. /\ 1 \in 1 .. Len(line) /\ c \in Nat /\ Len(line) \in Nat /\ c < n
      /\ Expiry(line, 1) = c
  BY <1>1, <1>2, HeadExpiry, LineTypes
<1>4. Place(line, t) = 1 /\ LeftOn(line, t) = c
  BY <1>1, <1>2, <1>3, PlaceIs DEF LeftOn
<1>5. PassDue(v, n) /\ PassLeft(v, n) = n - c
  BY <1>1, <1>3, <1>4 DEF PassDue, PassLeft
<1>6. p.line = b /\ p.op = NextOf(line, t) /\ p = [v EXCEPT !.op = NextOf(line, t), !.line = b]
  <2>1. (IF c > n THEN c - n ELSE 0) = 0
    BY <1>3
  <2>2. p = [v EXCEPT !.op = NextOf(line, t), !.line = [line EXCEPT ![1].counter = 0]]
    BY <1>4, <2>1 DEF PassNode
  <2>3. p = [v EXCEPT !.op = NextOf(line, t), !.line = b]
    BY <2>2 DEF Recounted
  <2> HIDE DEF b
  <2>4. QED
    BY <2>3 DEF Timed
<1>7. Waited(Timers, line, b, c)
  <2>1. c - c = 0 /\ c <= line[1].counter
    BY <1>3
  <2>2. QED
    BY <1>1, <1>2, <1>3, <2>1, HeadWaits
<1>8. Timed(p) /\ p.last = v.last /\ Nodes(p.line) = Nodes(line)
  BY PassNodeTimed
<1> HIDE DEF p, b
<1>9. WithoutTimer(p, t, r)
  BY <1>1, <1>8, TimedDel DEF p
<1>10. /\ Timed(r) /\ r.last = v.last /\ Nodes(r.line) = Nodes(line) \ {t}
       /\ \A m \in Nodes(r.line) : LeftOn(r.line, m) = LeftOn(p.line, m)
  BY <1>8, <1>9 DEF WithoutTimer
<1>11. ASSUME NEW m \in Nodes(r.line)
       PROVE  LeftOn(r.line, m) + n = LeftOn(line, m) + PassLeft(v, n)
  <2>1. m \in Nodes(line)
    BY <1>10
  <2>2. LeftOn(line, m) \in Nat
    BY <2>1, TimedLeft
  <2>3. LeftOn(r.line, m) = LeftOn(line, m) - c
    BY <1>6, <1>7, <1>10, <2>1 DEF Waited
  <2>4. c \in Nat /\ PassLeft(v, n) = n - c
    BY <1>3, <1>5
  <2> HIDE DEF c, line
  <2>5. (LeftOn(line, m) - c) + n = LeftOn(line, m) + (n - c)
    BY <2>2, <2>4, LessOnBoth
  <2>6. QED
    BY <2>3, <2>4, <2>5, Zenon
<1>12. OpFirst(r)
  <2>1. r.line = Removed(b, t) /\ r.op = IF p.op = t THEN NextOf(b, t) ELSE p.op
    BY <1>6 DEF WakeupDel, p
  <2>2. b \in Lines(Timers) /\ Apart(b) /\ Len(b) = Len(line) /\ t \in Nodes(b) /\ b[1].node = t
    BY <1>1, <1>2, <1>3, <1>7 DEF Waited
  <2>3. Place(b, t) = 1
    BY <1>3, <2>2, PlaceIs
  <2>4. NextOf(line, t) = IF 1 = Len(line) THEN Null ELSE line[1 + 1].node
    BY <1>4 DEF NextOf
  <2>5. NextOf(b, t) = IF 1 = Len(line) THEN Null ELSE b[1 + 1].node
    BY <2>2, <2>3 DEF NextOf
  <2>6. ASSUME Len(line) # 1 PROVE 2 \in 1 .. Len(line) /\ 1 + 1 = 2
    <3>1. PICK h : h = Len(line)
      OBVIOUS
    <3>2. h \in Nat /\ 1 <= h /\ h # 1
      BY <1>3, <2>6, <3>1
    <3>3. 2 \in 1 .. h
      BY <3>2
    <3>4. QED
      BY <3>1, <3>3
  <2>7. NextOf(b, t) = p.op
    BY <1>6, <1>7, <2>4, <2>5, <2>6 DEF Waited
  <2>8. p.op # t
    BY <1>1, <1>2, <1>3, <1>6, <2>4, <2>6 DEF Apart
  <2>9. r.op = NextOf(b, t)
    BY <2>1, <2>7, <2>8
  <2>10. r.op # Null => Removed(b, t)[1].node = NextOf(b, t)
    BY <2>2, <2>9, RemovedFirst
  <2>11. QED
    BY <2>1, <2>9, <2>10 DEF OpFirst
<1>13. OpLater(r)
  BY <1>10, <1>12, FirstIsLater
<1>14. PassLeft(v, n) \in Nat /\ PassLeft(v, n) > 0
  BY <1>3, <1>5
<1>15. QED
  BY <1>3, <1>4, <1>5, <1>10, <1>11, <1>12, <1>13, <1>14 DEF WentOn

\* What the scan still has to charge to the line.
ToCharge(v, c) == IF v.op = Null THEN 0 ELSE c

\* No timer runs out before it is due, no due node is behind the scan, and a scan
\* with ticks left to charge stands at the head.
Punctual(v, l, c) ==
    /\ DueKept(v, l, ToCharge(v, c))
    /\ OpLater(v)
    /\ c > 0 => OpFirst(v)

\* The line after n ticks were charged to all of its nodes.
LEMMA DueLess ==
    ASSUME NEW v, Timed(v), NEW u, Timed(u), NEW l \in [Timers -> Nat], NEW n \in Nat,
           u.last = v.last, Nodes(u.line) = Nodes(v.line), DueKept(v, l, n),
           \A m \in Nodes(v.line) : n + LeftOn(u.line, m) = LeftOn(v.line, m)
    PROVE  DueKept(u, l, 0)
<1>1. ASSUME NEW m \in Nodes(u.line) PROVE l[m] <= u.last + LeftOn(u.line, m)
  <2>1. m \in Timers /\ m \in Nodes(v.line) /\ LeftOn(u.line, m) \in Nat /\ v.last \in Nat
    BY TimedLeft, TimedIsScanned
  <2>2. /\ l[m] + n <= v.last + LeftOn(v.line, m) /\ l[m] \in Nat
        /\ n + LeftOn(u.line, m) = LeftOn(v.line, m)
    BY <2>1 DEF DueKept
  <2>3. QED
    BY <2>1, <2>2
<1>2. QED
  BY <1>1, DueKeptIs

\* A scan that can charge all it has to one node.
LEMMA ScanCharges ==
    ASSUME NEW v, Timed(v), NEW n \in Nat, NEW l \in [Timers -> Nat],
           v.op # Null, Punctual(v, l, n), n # 0 => n <= v.line[1].counter
    PROVE  \E u : /\ Timed(u) /\ OpLater(u) /\ u.last = v.last
                  /\ Nodes(u.line) = Nodes(v.line) /\ DueKept(u, l, 0)
                  /\ SameScan(v, n, u)
<1>1. DueKept(v, l, n) /\ OpLater(v)
  BY DEF Punctual, ToCharge
<1>2. CASE n = 0
  <2>1. SameScan(v, n, v)
    BY <1>2 DEF SameScan
  <2>2. QED
    BY <1>1, <1>2, <2>1
<1>3. CASE n # 0
  <2>1. OpFirst(v) /\ n <= v.line[1].counter
    BY <1>3 DEF Punctual
  <2>2. PICK u : /\ Timed(u) /\ OpLater(u) /\ u.last = v.last
                 /\ Nodes(u.line) = Nodes(v.line)
                 /\ \A m \in Nodes(v.line) : n + LeftOn(u.line, m) = LeftOn(v.line, m)
                 /\ SameScan(v, n, u)
    BY <2>1, FirstScan
  <2>3. DueKept(u, l, 0)
    BY <1>1, <2>2, DueLess
  <2>4. QED
    BY <2>2, <2>3
<1>4. QED
  BY <1>2, <1>3

\* A round of the scan keeps what is punctual, however late it is, unless it puts
\* a timer back while it has ticks left to charge.
LEMMA ITimerScanDue ==
    ASSUME BlocksKept, NEW v, Timed(v), NEW n \in Nat, ITimerScan(v, n),
           Nodes(v.line) = {t \in Timers : tmr[t].running},
           now \in Nat, v.last <= now, ~early, due \in [Timers -> Nat],
           ~mixed => Punctual(v, due, n)
    PROVE  /\ due' \in [Timers -> Nat] /\ ~early'
           /\ at' = "start" => charge' = 0
           /\ ~mixed' => /\ DueKept(w', due', ToCharge(w', charge'))
                         /\ at' = "calling" => Punctual(w', due', charge')
<1> DEFINE t == v.op
<1>1. v.last \in Nat /\ Null \notin Timers
  BY TimedIsScanned, TimersAssumption
<1>2. ASSUME PassDue(v, n)
      PROVE  /\ Fire(PassNode(v, n), t) /\ at' = "calling" /\ charge' = PassLeft(v, n)
             /\ early' = (early \/ (now < due[t] /\ ~mixed))
             /\ mixed' = (mixed \/ (tmr[t].auto /\ PassLeft(v, n) > 0))
             /\ due' = [due EXCEPT ![t] = IF tmr[t].auto THEN @ + tmr[t].save ELSE 0]
             /\ t \in Timers /\ t # Null /\ t \in Nodes(v.line) /\ tmr[t].save \in Counts
  <2>1. t # Null /\ t \in Nodes(v.line)
    BY <1>2 DEF PassDue, Timed
  <2>2. t \in Timers
    BY <2>1, TimedLeft
  <2>3. tmr[t].save \in Counts
    BY <2>1, <2>2 DEF BlocksKept
  <2>4. QED
    BY <1>2, <2>1, <2>2, <2>3 DEF ITimerScan
<1>3. ASSUME ~PassDue(v, n)
      PROVE  /\ at' = "start" /\ charge' = 0 /\ due' = due /\ early' = early /\ mixed' = mixed
             /\ w' = IF v.op = Null THEN v ELSE PassNode(v, n)
  BY <1>3 DEF ITimerScan
<1>4. due' \in [Timers -> Nat] /\ (at' = "start" => charge' = 0)
  <2>1. CASE PassDue(v, n)
    <3>1. due[t] \in Nat /\ tmr[t].save \in Nat
      BY <1>2, <2>1, CountsAssumption
    <3>2. due[t] + tmr[t].save \in Nat
      BY <3>1
    <3> HIDE DEF t
    <3>3. QED
      BY <1>2, <2>1, <3>2
  <2>2. QED
    BY <1>3, <2>1
<1>5. CASE mixed
  <2>1. CASE PassDue(v, n)
    BY <1>2, <1>4, <1>5, <2>1, Zenon
  <2>2. CASE ~PassDue(v, n)
    BY <1>3, <1>4, <1>5, <2>2
  <2>3. QED
    BY <2>1, <2>2
<1>6. CASE ~mixed /\ v.op = Null
  <2>1. ~PassDue(v, n)
    BY <1>6 DEF PassDue
  <2>2. w' = v /\ at' = "start" /\ due' = due /\ early' = early
    BY <1>3, <1>6, <2>1
  <2>3. QED
    BY <1>4, <1>6, <2>2 DEF Punctual, ToCharge
<1>7. CASE ~mixed /\ v.op # Null /\ (n # 0 => n <= v.line[1].counter)
  <2>1. PICK u : /\ Timed(u) /\ OpLater(u) /\ u.last = v.last
                 /\ Nodes(u.line) = Nodes(v.line) /\ DueKept(u, due, 0)
                 /\ SameScan(v, n, u)
    BY <1>7, ScanCharges
  <2>2. u.last <= now /\ Nodes(u.line) = {x \in Timers : tmr[x].running}
    BY <2>1
  <2>3. /\ DueKept(w', due', 0) /\ charge' = 0 /\ ~early'
        /\ at' = "calling" => OpLater(w')
    BY <2>1, <2>2, ITimerScanPrompt
  <2>4. QED
    BY <1>4, <2>3 DEF Punctual, ToCharge
<1>8. CASE ~mixed /\ v.op # Null /\ n # 0 /\ ~(n <= v.line[1].counter)
  <2> DEFINE off == WakeupDel(PassNode(v, n), t, FALSE, 0)
             c == PassLeft(v, n)
  <2>1. OpFirst(v) /\ DueKept(v, due, n) /\ v.line[1].counter < n
    <3>1. OpFirst(v) /\ DueKept(v, due, n)
      BY <1>8 DEF Punctual, ToCharge
    <3>2. v.line # <<>> /\ v.line \in Lines(Timers)
      BY <1>8 DEF Timed, Nodes
    <3>3. v.line[1].counter \in Nat
      BY <3>2, HeadExpiry
    <3>4. QED
      BY <1>8, <3>1, <3>3
  <2>2. /\ PassDue(v, n) /\ c \in Nat /\ c > 0 /\ LeftOn(v.line, t) < n
        /\ Timed(off) /\ off.last = v.last /\ Nodes(off.line) = Nodes(v.line) \ {t}
        /\ \A m \in Nodes(off.line) : LeftOn(off.line, m) + n = LeftOn(v.line, m) + c
        /\ OpFirst(off) /\ OpLater(off)
    <3>1. v.op # Null
      BY <1>8
    <3>2. WentOn(v, n, off)
      BY <2>1, <3>1, ScanGoesOn, Zenon
    <3> HIDE DEF off
    <3>3. QED
      BY <3>2 DEF WentOn
  <2> HIDE DEF off, c
  <2>3. ~early'
    <3>1. /\ due[t] \in Nat /\ LeftOn(v.line, t) \in Nat
          /\ due[t] + n <= v.last + LeftOn(v.line, t)
      BY <1>2, <2>1, <2>2, TimedLeft DEF DueKept
    <3>2. ~(now < due[t])
      BY <1>1, <2>2, <3>1
    <3>3. QED
      BY <1>2, <2>2, <3>2
  <2>4. CASE tmr[t].auto
    <3>1. mixed'
      BY <1>2, <2>2, <2>4 DEF c
    <3>2. QED
      BY <1>4, <2>3, <3>1
  <2>5. CASE ~tmr[t].auto
    <3>1. w' = off /\ charge' = c /\ at' = "calling"
      BY <1>2, <2>2, <2>5 DEF Fire, off, c
    <3>2. ASSUME NEW m \in Nodes(off.line)
          PROVE  due'[m] + c <= off.last + LeftOn(off.line, m) /\ due'[m] \in Nat
      <4>1. m \in Nodes(v.line) /\ m # t /\ m \in Timers /\ LeftOn(off.line, m) \in Nat
            /\ LeftOn(v.line, m) \in Nat
        BY <2>2, <3>2, TimedLeft
      <4>2. due'[m] = due[m] /\ due[m] \in Nat
        BY <1>2, <2>2, <4>1
      <4>3. /\ due[m] + n <= v.last + LeftOn(v.line, m)
            /\ LeftOn(off.line, m) + n = LeftOn(v.line, m) + c
        BY <2>1, <2>2, <4>1 DEF DueKept
      <4>4. QED
        BY <1>1, <2>2, <4>1, <4>2, <4>3
    <3>3. DueKept(off, due', ToCharge(off, c))
      <4>1. CASE off.op # Null
        BY <3>2, <4>1 DEF DueKept, ToCharge
      <4>2. CASE off.op = Null
        <5>1. ASSUME NEW m \in Nodes(off.line)
              PROVE  due'[m] + 0 <= off.last + LeftOn(off.line, m)
          <6>1. LeftOn(off.line, m) \in Nat
            BY <2>2, <5>1, TimedLeft
          <6>2. QED
            BY <1>1, <2>2, <3>2, <5>1, <6>1
        <5>2. QED
          BY <4>2, <5>1 DEF DueKept, ToCharge
      <4>3. QED
        BY <4>1, <4>2
    <3>4. QED
      BY <1>4, <2>2, <2>3, <3>1, <3>3 DEF Punctual
  <2>6. QED
    BY <2>4, <2>5
<1>9. QED
  BY <1>5, <1>6, <1>7, <1>8

-----------------------------------------------------------------------------
(* The steps of the timer thread and of the timer interface. *)

Clock ==
    /\ now \in Nat /\ w.last <= now /\ until \in Nat /\ charge \in Nat
    /\ at \in {"start", "sleep", "calling"}

\* The sleep ends when any timer of the line runs out, or before, not only the
\* first; for one that has run out, at the next tick.
WakesBefore(v, end) == \A t \in Nodes(v.line) : end <= v.last + Delay(LeftOn(v.line, t))

ITimerInv ==
    /\ Timed(w) /\ BlocksKept /\ OnLine /\ Clock
    /\ at = "sleep" => WakesBefore(w, until)

\* No timer runs out before it is due, unless one was added to a line with ticks
\* to be charged.
DueInv ==
    /\ due \in [Timers -> Nat] /\ ~early
    /\ at # "calling" => charge = 0
    /\ ~mixed => /\ DueKept(w, due, ToCharge(w, charge))
                 /\ at = "calling" => Punctual(w, due, charge)

\* A longer count makes no shorter sleep.
LEMMA DelayGrows ==
    ASSUME NEW a \in Nat, NEW b \in Nat, NEW j \in Nat, NEW k \in Nat, j <= k, j + a <= k + b
    PROVE  Delay(a) \in Nat /\ j + Delay(a) <= k + Delay(b)
<1>1. CASE a = 0 /\ b = 0
  BY <1>1 DEF Delay
<1>2. CASE a = 0 /\ b # 0
  BY <1>2 DEF Delay
<1>3. CASE a # 0 /\ b = 0
  BY <1>3 DEF Delay
<1>4. CASE a # 0 /\ b # 0
  BY <1>4 DEF Delay
<1>5. QED
  BY <1>1, <1>2, <1>3, <1>4

\* The first timer is the first to run out.
LEMMA FirstIsFirst ==
    ASSUME NEW v, Timed(v), NEW end \in Nat
    PROVE  WakesBefore(v, end) <=>
              (v.line # <<>> => end <= v.last + Delay(v.line[1].counter))
<1>1. v.line \in Lines(Timers) /\ Apart(v.line) /\ v.last \in Nat
  BY TimedIsScanned
<1>2. CASE v.line = <<>>
  <2>1. Nodes(v.line) = {}
    BY <1>2 DEF Nodes
  <2>2. QED
    BY <1>2, <2>1 DEF WakesBefore
<1>3. CASE v.line # <<>>
  <2>1. /\ 1 \in 1 .. Len(v.line) /\ Len(v.line) \in Nat
        /\ Expiry(v.line, 1) = v.line[1].counter /\ v.line[1].counter \in Nat
    BY <1>1, <1>3, HeadExpiry, LineTypes
  <2>2. v.line[1].node \in Nodes(v.line) /\ LeftOn(v.line, v.line[1].node) = v.line[1].counter
    BY <1>1, <2>1, PlaceIs DEF LeftOn, Nodes
  <2>3. ASSUME NEW t \in Nodes(v.line) PROVE v.line[1].counter <= LeftOn(v.line, t)
    <3>1. PICK i \in 1 .. Len(v.line) : v.line[i].node = t
      BY DEF Nodes
    <3>2. Place(v.line, t) = i
      BY <1>1, <3>1, PlaceIs
    <3>3. i \in 0 .. Len(v.line) /\ 1 \in 0 .. Len(v.line) /\ 1 <= i
      BY <2>1
    <3>4. Expiry(v.line, 1) <= Expiry(v.line, i)
      BY <1>1, <3>3, ExpirySteps
    <3>5. QED
      BY <2>1, <3>2, <3>4 DEF LeftOn
  <2> DEFINE c == v.line[1].counter
  <2>4. ASSUME end <= v.last + Delay(c), NEW t \in Nodes(v.line)
        PROVE  end <= v.last + Delay(LeftOn(v.line, t))
    <3>1. c \in Nat /\ LeftOn(v.line, t) \in Nat /\ c <= LeftOn(v.line, t)
      BY <2>1, <2>3, <2>4, TimedLeft
    <3> HIDE DEF c
    <3>2. v.last <= v.last /\ v.last + c <= v.last + LeftOn(v.line, t)
      BY <1>1, <3>1
    <3>3. v.last + Delay(c) <= v.last + Delay(LeftOn(v.line, t)) /\ Delay(c) \in Nat
      BY <1>1, <3>1, <3>2, DelayGrows
    <3>4. Delay(LeftOn(v.line, t)) \in Nat
      BY <3>1 DEF Delay
    <3>5. QED
      BY <1>1, <2>4, <3>3, <3>4
  <2>5. WakesBefore(v, end) => end <= v.last + Delay(c)
    BY <2>2 DEF WakesBefore
  <2>6. (end <= v.last + Delay(c)) => WakesBefore(v, end)
    BY <2>4 DEF WakesBefore
  <2>7. QED
    BY <1>3, <2>5, <2>6
<1>4. QED
  BY <1>2, <1>3

\* The thread goes to sleep until the first timer is due.
LEMMA SleepStep ==
    ASSUME ITimerInv, Sleep
    PROVE  ITimerInv' /\ (DueInv => DueInv')
<1>1. /\ Timed(w) /\ BlocksKept /\ OnLine /\ now \in Nat /\ w.last <= now /\ charge \in Nat
  BY DEF ITimerInv, Clock
<1>2. /\ w' = [w EXCEPT !.last = now] /\ at = "start" /\ at' = "sleep" /\ tmr' = tmr /\ now' = now
      /\ charge' = charge /\ due' = due /\ early' = early
      /\ mixed' = (mixed /\ w.line # <<>>)
      /\ until' = now + IF w.line = <<>> THEN IdleTick ELSE Delay(w.line[1].counter)
  BY DEF Sleep
<1>3. w' = At(w, now)
  BY <1>1, <1>2 DEF Timed, At
<1>4. Timed(w') /\ w'.line = w.line /\ w'.last = now
  BY <1>1, <1>3 DEF Timed, At
<1>5. /\ until' \in Nat
      /\ w'.line # <<>> => until' <= w'.last + Delay(w'.line[1].counter)
  <2>1. CASE w.line = <<>>
    BY <1>1, <1>2, <1>4, <2>1, IdleTickAssumption
  <2>2. CASE w.line # <<>>
    <3>1. w.line[1].counter \in Nat
      BY <1>1, <2>2, HeadExpiry DEF Timed
    <3>2. Delay(w.line[1].counter) \in Nat
      BY <3>1 DEF Delay
    <3>3. QED
      BY <1>1, <1>2, <1>4, <2>2, <3>2
  <2>3. QED
    BY <2>1, <2>2
<1>6. WakesBefore(w', until')
  BY <1>4, <1>5, FirstIsFirst
<1>7. ITimerInv'
  <2>1. BlocksKept' /\ OnLine'
    BY <1>1, <1>2, <1>4 DEF BlocksKept, OnLine
  <2>2. Clock'
    BY <1>1, <1>2, <1>4, <1>5 DEF Clock
  <2>3. QED
    BY <1>4, <1>6, <2>1, <2>2 DEF ITimerInv
<1>8. ASSUME DueInv PROVE DueInv'
  <2>1. due \in [Timers -> Nat] /\ ~early /\ charge = 0
    BY <1>2, <1>8 DEF DueInv
  <2>2. ASSUME ~mixed', NEW t \in Nodes(w'.line)
        PROVE  due[t] <= w'.last + LeftOn(w'.line, t)
    <3>1. w.line # <<>> /\ t \in Nodes(w.line)
      BY <1>4, <2>2 DEF Nodes
    <3>2. DueKept(w, due, 0)
      BY <1>2, <1>8, <2>1, <2>2, <3>1 DEF DueInv, ToCharge
    <3>3. due[t] <= w.last + LeftOn(w.line, t)
      BY <1>1, <2>1, <3>1, <3>2, DueKeptIs
    <3>4. LeftOn(w.line, t) \in Nat /\ t \in Timers /\ w.last \in Nat
      BY <1>1, <3>1, TimedLeft, TimedIsScanned
    <3>5. due[t] \in Nat
      BY <2>1, <3>4
    <3>6. QED
      BY <1>1, <1>4, <3>3, <3>4, <3>5
  <2>3. ~mixed' => DueKept(w', due, 0)
    BY <1>4, <2>1, <2>2, DueKeptIs
  <2>4. QED
    BY <1>2, <2>1, <2>3 DEF DueInv, ToCharge
<1>9. QED
  BY <1>7, <1>8

\* The thread has slept and charges the line.
LEMMA AwakeStep ==
    ASSUME ITimerInv, Awake
    PROVE  ITimerInv' /\ (DueInv => DueInv')
<1>1. /\ Timed(w) /\ BlocksKept /\ OnLine /\ now \in Nat /\ w.last <= now /\ w.last \in Nat
      /\ charge \in Nat /\ until \in Nat /\ WakesBefore(w, until) /\ at = "sleep"
  BY TimedIsScanned DEF ITimerInv, Clock, Awake
<1>2. until' = 0 /\ now' = now
  BY DEF Awake
<1>3. CASE noTimer
  <2>1. /\ w' = w /\ tmr' = tmr /\ charge' = charge /\ due' = due /\ early' = early
        /\ mixed' = mixed /\ at' = "start"
    BY <1>3 DEF Awake
  <2>2. ITimerInv'
    BY <1>1, <1>2, <2>1 DEF ITimerInv, Clock, BlocksKept, OnLine
  <2>3. DueInv => DueInv'
    BY <1>1, <2>1 DEF DueInv
  <2>4. QED
    BY <2>2, <2>3
<1>4. CASE ~noTimer
  <2> DEFINE f == PassFirst(At(w, now))
             n == now - w.last
  <2>1. ITimerScan(f, n)
    <3>1. [w EXCEPT !.last = now] = At(w, now)
      BY <1>1 DEF Timed, At
    <3>2. ITimerScan(PassFirst([w EXCEPT !.last = now]), now - w.last)
      BY <1>4 DEF Awake
    <3>3. QED
      BY <3>1, <3>2
  <2>2. n \in Nat
    BY <1>1
  <2>3. /\ f = [line |-> w.line, op |-> IF w.line = <<>> THEN Null ELSE w.line[1].node, last |-> now]
    BY DEF PassFirst, At
  <2> HIDE DEF f, n
  <2>4. Timed(f) /\ f.line = w.line /\ f.last = now
    <3>1. w.line \in Lines(Timers)
      BY <1>1, TimedIsScanned
    <3>2. w.line # <<>> => w.line[1].node \in Nodes(w.line) /\ w.line[1].node \in Timers
      BY <3>1, HeadExpiry DEF Nodes
    <3>3. QED
      BY <1>1, <2>3, <3>2 DEF Timed
  <2>5. /\ Timed(w') /\ w'.last = now /\ BlocksKept' /\ OnLine'
        /\ at' \in {"start", "calling"} /\ charge' \in Nat
    BY <1>1, <2>1, <2>2, <2>4, ITimerScanKeeps DEF OnLine
  <2>6. ITimerInv'
    <3>1. w'.last <= now'
      BY <1>1, <1>2, <2>5
    <3>2. QED
      BY <1>1, <1>2, <2>5, <3>1 DEF ITimerInv, Clock
  <2>7. ASSUME DueInv PROVE DueInv'
    <3>1. /\ due \in [Timers -> Nat] /\ ~early /\ charge = 0
          /\ ~mixed => DueKept(w, due, 0)
      BY <1>1, <2>7 DEF DueInv, ToCharge
    <3>2. ASSUME ~mixed PROVE Punctual(f, due, n)
      <4>1. OpFirst(f) /\ OpLater(f)
        <5>1. OpFirst(f)
          BY <2>3, <2>4 DEF OpFirst
        <5>2. QED
          BY <2>4, <5>1, FirstIsLater
      <4>2. ASSUME NEW t \in Nodes(f.line) PROVE due[t] + n <= f.last + LeftOn(f.line, t)
        <5>1. due[t] <= w.last + LeftOn(w.line, t)
          BY <1>1, <2>4, <3>1, <3>2, <4>2, DueKeptIs
        <5>2. due[t] \in Nat /\ LeftOn(w.line, t) \in Nat
          BY <1>1, <2>4, <3>1, <4>2, TimedLeft
        <5>3. QED
          BY <1>1, <2>4, <5>1, <5>2 DEF n
      <4>3. f.op = Null => Nodes(f.line) = {}
        <5>1. w.line # <<>> => w.line[1].node # Null
          BY <1>1, HeadExpiry, TimersAssumption DEF Timed
        <5>2. QED
          BY <2>3, <2>4, <5>1 DEF Nodes
      <4>4. DueKept(f, due, ToCharge(f, n))
        BY <4>2, <4>3 DEF DueKept, ToCharge
      <4>5. QED
        BY <4>1, <4>4 DEF Punctual
    <3>3. f.last <= now /\ Nodes(f.line) = {t \in Timers : tmr[t].running}
      BY <1>1, <2>4 DEF OnLine
    <3>4. /\ due' \in [Timers -> Nat] /\ ~early'
          /\ at' = "start" => charge' = 0
          /\ ~mixed' => /\ DueKept(w', due', ToCharge(w', charge'))
                        /\ at' = "calling" => Punctual(w', due', charge')
      BY <1>1, <2>1, <2>2, <2>4, <3>1, <3>2, <3>3, ITimerScanDue
    <3>5. QED
      BY <2>5, <3>4 DEF DueInv
  <2>8. QED
    BY <2>6, <2>7
<1>5. QED
  BY <1>3, <1>4

\* The routine has returned, and the scan goes on.
LEMMA ITimerReturnStep ==
    ASSUME ITimerInv, ITimerReturns
    PROVE  ITimerInv' /\ (DueInv => DueInv')
<1>1. /\ Timed(w) /\ BlocksKept /\ OnLine /\ now \in Nat /\ w.last <= now
      /\ charge \in Nat /\ until \in Nat
  BY DEF ITimerInv, Clock
<1>2. at = "calling" /\ ITimerScan(w, charge) /\ now' = now /\ until' = until
  BY DEF ITimerReturns
<1>3. /\ Timed(w') /\ w'.last = w.last /\ BlocksKept' /\ OnLine'
      /\ at' \in {"start", "calling"} /\ charge' \in Nat
  BY <1>1, <1>2, ITimerScanKeeps DEF OnLine
<1>4. ITimerInv'
  BY <1>1, <1>2, <1>3 DEF ITimerInv, Clock
<1>5. ASSUME DueInv PROVE DueInv'
  <2>1. due \in [Timers -> Nat] /\ ~early /\ (~mixed => Punctual(w, due, charge))
    BY <1>2, <1>5 DEF DueInv
  <2>2. Nodes(w.line) = {t \in Timers : tmr[t].running}
    BY <1>1 DEF OnLine
  <2>3. /\ due' \in [Timers -> Nat] /\ ~early'
        /\ at' = "start" => charge' = 0
        /\ ~mixed' => /\ DueKept(w', due', ToCharge(w', charge'))
                      /\ at' = "calling" => Punctual(w', due', charge')
    BY <1>1, <1>2, <2>1, <2>2, ITimerScanDue
  <2>4. QED
    BY <1>3, <2>3 DEF DueInv
<1>6. QED
  BY <1>4, <1>5

\* Start and Reset: the timer waits c ticks from now, and the thread is woken.
LEMMA StartedStep ==
    ASSUME ITimerInv, NEW t \in Timers, NEW c \in Counts, BlocksKept',
           StartedAt(w, t, c, now, w'),
           {x \in Timers : tmr'[x].running} = Nodes(w.line) \union {t},
           ITimerWakeup, due' = [due EXCEPT ![t] = now + c],
           mixed' = (mixed \/ (w.op # Null /\ charge > 0)),
           UNCHANGED <<now, at, noTimer, charge, early>>
    PROVE  ITimerInv' /\ (DueInv => DueInv')
<1> DEFINE ts == Nodes(w.line) \ {t}
<1>1. /\ Timed(w) /\ now \in Nat /\ w.last <= now /\ w.last \in Nat
      /\ charge \in Nat /\ until \in Nat /\ at \in {"start", "sleep", "calling"}
  BY TimedIsScanned DEF ITimerInv, Clock
<1>2. c \in Nat
  BY CountsAssumption
<1>3. /\ NoSooner(w, w', ts) /\ Nodes(w'.line) = Nodes(w.line) \union {t}
      /\ w'.last = now /\ LeftOn(w'.line, t) = c
  BY DEF StartedAt
<1>4. Timed(w') /\ OnLine'
  BY <1>3 DEF NoSooner, OnLine
<1>5. until' = IF at = "sleep" /\ until > now THEN now ELSE until
  BY DEF ITimerWakeup
<1>6. at = "sleep" => WakesBefore(w', until')
  <2>1. SUFFICES ASSUME at = "sleep", NEW m \in Nodes(w'.line)
                 PROVE  until' <= w'.last + Delay(LeftOn(w'.line, m))
    BY DEF WakesBefore
  <2>2. until' <= now /\ until' \in Nat
    BY <1>1, <1>5, <2>1
  <2>3. Delay(LeftOn(w'.line, m)) \in Nat
    <3>1. LeftOn(w'.line, m) \in Nat
      BY <1>4, <2>1, TimedLeft
    <3>2. QED
      BY <3>1 DEF Delay
  <2>4. QED
    BY <1>1, <1>3, <2>2, <2>3
<1>7. ITimerInv'
  BY <1>1, <1>3, <1>4, <1>5, <1>6 DEF ITimerInv, Clock
<1>8. ASSUME DueInv PROVE DueInv'
  <2>1. /\ due \in [Timers -> Nat] /\ ~early
        /\ at # "calling" => charge = 0
    BY <1>8 DEF DueInv
  <2>2. due' \in [Timers -> Nat]
    <3>1. now + c \in Nat
      BY <1>1, <1>2
    <3>2. QED
      BY <2>1, <3>1
  <2>3. ASSUME ~mixed'
        PROVE  /\ DueKept(w', due', ToCharge(w', charge))
               /\ at = "calling" => Punctual(w', due', charge)
    <3>1. ~mixed /\ (w.op = Null \/ charge = 0)
      <4>1. ~mixed /\ ~(w.op # Null /\ charge > 0)
        BY <2>3, Zenon
      <4>2. QED
        BY <1>1, <4>1
    <3>2. ToCharge(w, charge) = 0 /\ ToCharge(w', charge) = 0
      BY <1>3, <3>1 DEF ToCharge, NoSooner
    <3>3. /\ \A m \in Nodes(w.line) : due[m] <= w.last + LeftOn(w.line, m)
          /\ at = "calling" => OpLater(w)
      <4>1. DueKept(w, due, 0)
        BY <1>8, <3>1, <3>2 DEF DueInv
      <4>2. QED
        BY <1>1, <1>8, <2>1, <3>1, <4>1, DueKeptIs DEF DueInv, Punctual
    <3>4. ASSUME NEW m \in Nodes(w'.line) PROVE due'[m] <= w'.last + LeftOn(w'.line, m)
      <4>1. CASE m = t
        BY <1>1, <1>2, <1>3, <2>1, <4>1
      <4>2. CASE m # t
        <5>1. m \in ts /\ m \in Timers
          BY <1>3, <1>4, <3>4, <4>2, TimedLeft
        <5>2. /\ w.last + LeftOn(w.line, m) <= w'.last + LeftOn(w'.line, m)
              /\ m \in Nodes(w.line)
          BY <1>3, <5>1 DEF NoSooner
        <5>3. due'[m] = due[m] /\ due[m] \in Nat /\ due[m] <= w.last + LeftOn(w.line, m)
          BY <2>1, <3>3, <4>2, <5>1, <5>2
        <5>4. LeftOn(w.line, m) \in Nat /\ LeftOn(w'.line, m) \in Nat
          BY <1>1, <1>4, <3>4, <5>2, TimedLeft
        <5>5. QED
          BY <1>1, <1>3, <5>2, <5>3, <5>4
      <4>3. QED
        BY <4>1, <4>2
    <3>5. DueKept(w', due', 0)
      BY <1>4, <2>2, <3>4, DueKeptIs
    <3>6. at = "calling" => OpLater(w')
      BY <1>3, <3>3 DEF NoSooner
    <3>7. charge > 0 => OpFirst(w')
      <4>1. charge > 0 => w'.op = Null
        BY <1>1, <1>3, <3>1 DEF NoSooner
      <4>2. QED
        BY <4>1 DEF OpFirst
    <3>8. QED
      BY <3>2, <3>5, <3>6, <3>7 DEF Punctual
  <2>4. QED
    BY <2>1, <2>2, <2>3 DEF DueInv
<1>9. QED
  BY <1>7, <1>8

\* Stop: the others wait as long as before, and the thread sleeps on.
LEMMA StoppedStep ==
    ASSUME ITimerInv, NEW t \in Timers, BlocksKept',
           StoppedAt(w, t, now, w'),
           {x \in Timers : tmr'[x].running} = Nodes(w.line) \ {t},
           due' = [due EXCEPT ![t] = 0],
           UNCHANGED <<now, thread, early, mixed>>
    PROVE  ITimerInv' /\ (DueInv => DueInv')
<1> DEFINE ts == Nodes(w.line) \ {t}
<1>1. /\ Timed(w) /\ now \in Nat /\ w.last <= now /\ w.last \in Nat
      /\ charge \in Nat /\ until \in Nat /\ at \in {"start", "sleep", "calling"}
      /\ at = "sleep" => WakesBefore(w, until)
  BY TimedIsScanned DEF ITimerInv, Clock
<1>2. NoSooner(w, w', ts) /\ Nodes(w'.line) = ts /\ w'.last <= now
  BY DEF StoppedAt
<1>3. Timed(w') /\ OnLine' /\ w'.last \in Nat
  BY <1>2, TimedIsScanned DEF NoSooner, OnLine
<1>4. /\ at' = at /\ until' = until /\ charge' = charge /\ now' = now /\ early' = early
      /\ mixed' = mixed
  BY DEF thread
<1>5. at = "sleep" => WakesBefore(w', until)
  <2>1. SUFFICES ASSUME at = "sleep", NEW m \in Nodes(w'.line)
                 PROVE  until <= w'.last + Delay(LeftOn(w'.line, m))
    BY DEF WakesBefore
  <2>2. m \in ts
    BY <1>2, <2>1
  <2>3. until <= w.last + Delay(LeftOn(w.line, m))
    BY <1>1, <2>1, <2>2 DEF WakesBefore
  <2>4. LeftOn(w.line, m) \in Nat /\ LeftOn(w'.line, m) \in Nat
    BY <1>1, <1>3, <2>1, <2>2, TimedLeft
  <2>5. w.last + LeftOn(w.line, m) <= w'.last + LeftOn(w'.line, m)
    BY <1>2, <2>2 DEF NoSooner
  <2>6. w.last <= w'.last
    BY <1>2 DEF NoSooner
  <2>7. /\ w.last + Delay(LeftOn(w.line, m)) <= w'.last + Delay(LeftOn(w'.line, m))
        /\ Delay(LeftOn(w.line, m)) \in Nat
    BY <1>1, <1>3, <2>4, <2>5, <2>6, DelayGrows
  <2>8. Delay(LeftOn(w'.line, m)) \in Nat
    BY <2>4 DEF Delay
  <2>9. QED
    BY <1>1, <1>3, <2>3, <2>7, <2>8
<1>6. ITimerInv'
  BY <1>1, <1>2, <1>3, <1>4, <1>5 DEF ITimerInv, Clock
<1>7. ASSUME DueInv PROVE DueInv'
  <2>1. /\ due \in [Timers -> Nat] /\ ~early
        /\ at # "calling" => charge = 0
    BY <1>7 DEF DueInv
  <2>2. due' \in [Timers -> Nat]
    BY <2>1
  <2>3. ASSUME ~mixed
        PROVE  /\ DueKept(w', due', ToCharge(w', charge))
               /\ at = "calling" => Punctual(w', due', charge)
    <3>1. /\ DueKept(w, due, ToCharge(w, charge))
          /\ at = "calling" => Punctual(w, due, charge)
      BY <1>7, <2>3 DEF DueInv
    <3>2. /\ ToCharge(w', charge) \in Nat /\ ToCharge(w, charge) \in Nat
          /\ ToCharge(w', charge) <= ToCharge(w, charge)
      BY <1>1, <1>2 DEF ToCharge, NoSooner
    <3>3. ASSUME NEW m \in Nodes(w'.line)
          PROVE  due'[m] + ToCharge(w', charge) <= w'.last + LeftOn(w'.line, m)
      <4>1. m \in ts /\ m \in Timers /\ m \in Nodes(w.line)
        BY <1>2, <1>3, <3>3, TimedLeft
      <4>2. w.last + LeftOn(w.line, m) <= w'.last + LeftOn(w'.line, m)
        BY <1>2, <4>1 DEF NoSooner
      <4>3. due'[m] = due[m] /\ due[m] \in Nat
        BY <2>1, <4>1
      <4>4. due[m] + ToCharge(w, charge) <= w.last + LeftOn(w.line, m)
        BY <3>1, <4>1 DEF DueKept
      <4>5. LeftOn(w.line, m) \in Nat /\ LeftOn(w'.line, m) \in Nat
        BY <1>1, <1>3, <3>3, <4>1, TimedLeft
      <4>6. QED
        BY <1>1, <1>3, <3>2, <4>2, <4>3, <4>4, <4>5
    <3>4. DueKept(w', due', ToCharge(w', charge))
      BY <3>3 DEF DueKept
    <3>5. at = "calling" => OpLater(w') /\ (charge > 0 => OpFirst(w'))
      BY <1>2, <3>1 DEF NoSooner, StoppedAt, Punctual
    <3>6. QED
      BY <3>4, <3>5 DEF Punctual
  <2>4. QED
    BY <1>4, <2>1, <2>2, <2>3 DEF DueInv
<1>8. QED
  BY <1>6, <1>7

\* A timer is created.
LEMMA ITimerCreateStep ==
    ASSUME ITimerInv, NEW t \in Timers, Create(t)
    PROVE  ITimerInv' /\ (DueInv => DueInv')
<1>1. BlocksKept /\ OnLine
  BY DEF ITimerInv
<1>2. /\ w' = w /\ tmr' = [tmr EXCEPT ![t] = [Unused EXCEPT !.used = TRUE]] /\ ~tmr[t].used
      /\ now' = now /\ at' = at /\ until' = until /\ charge' = charge
      /\ due' = due /\ early' = early /\ mixed' = mixed
  BY DEF Create, TimerCreate, thread
<1>3. ~tmr[t].running
  BY <1>1, <1>2 DEF BlocksKept
<1> DEFINE b == [Unused EXCEPT !.used = TRUE]
<1>4. b \in Block /\ ~b.running
  BY DEF Unused, Block
<1> HIDE DEF b
<1>5. BlocksKept'
  BY <1>1, <1>2, <1>4 DEF BlocksKept, b
<1>6. OnLine'
  <2>1. {x \in Timers : tmr'[x].running} = Nodes(w.line)
    BY <1>1, <1>2, <1>3, <1>4 DEF BlocksKept, OnLine, b
  <2>2. QED
    BY <1>2, <2>1 DEF OnLine
<1>7. ITimerInv'
  BY <1>2, <1>5, <1>6 DEF ITimerInv, Clock
<1>8. DueInv => DueInv'
  BY <1>2 DEF DueInv
<1>9. QED
  BY <1>7, <1>8

\* A timer is started, the head charged and the thread woken.
LEMMA ITimerStartStep ==
    ASSUME ITimerInv, NEW t \in Timers, NEW init \in Counts, NEW count \in Counts,
           NEW auto \in BOOLEAN, Start(t, init, count, auto)
    PROVE  ITimerInv' /\ (DueInv => DueInv')
<1> DEFINE off == IF tmr[t].running THEN WakeupDel(w, t, TRUE, now) ELSE w
           b   == [used |-> TRUE, running |-> TRUE, auto |-> auto, save |-> count]
<1>1. /\ w' = WakeupAdd(off, t, init, TRUE, now) /\ tmr' = [tmr EXCEPT ![t] = b]
      /\ ITimerWakeup /\ due' = [due EXCEPT ![t] = now + init]
      /\ mixed' = (mixed \/ (w.op # Null /\ charge > 0))
      /\ UNCHANGED <<now, at, noTimer, charge, early>>
  BY DEF Start, TimerStartEx
<1>2. /\ Timed(w) /\ BlocksKept /\ OnLine /\ now \in Nat /\ w.last <= now
  BY DEF ITimerInv, Clock
<1>3. off = IF t \in Nodes(w.line) THEN WakeupDel(w, t, TRUE, now) ELSE w
  BY <1>2 DEF OnLine
<1>4. b \in Block /\ b.running /\ b.used /\ b.save \in Counts
  BY DEF Block
<1> HIDE DEF off, b
<1>5. StartedAt(w, t, init, now, w')
  <2>1. StartedAt(w, t, init, now, WakeupAdd(off, t, init, TRUE, now))
    BY <1>2, <1>3, StartTimed
  <2>2. QED
    BY <1>1, <2>1, Zenon
<1>6. BlocksKept'
  BY <1>1, <1>2, <1>4 DEF BlocksKept
<1>7. {x \in Timers : tmr'[x].running} = Nodes(w.line) \union {t}
  BY <1>1, <1>2, <1>4 DEF BlocksKept, OnLine
<1>8. QED
  BY <1>1, <1>5, <1>6, <1>7, StartedStep

\* A timer begins its count again in the same way.
LEMMA ITimerResetStep ==
    ASSUME ITimerInv, NEW t \in Timers, Reset(t)
    PROVE  ITimerInv' /\ (DueInv => DueInv')
<1> DEFINE off == WakeupDel(w, t, TRUE, now)
           c   == tmr[t].save
<1>1. /\ w' = WakeupAdd(off, t, c, TRUE, now) /\ tmr' = tmr /\ tmr[t].running
      /\ ITimerWakeup /\ due' = [due EXCEPT ![t] = now + c]
      /\ mixed' = (mixed \/ (w.op # Null /\ charge > 0))
      /\ UNCHANGED <<now, at, noTimer, charge, early>>
  BY DEF Reset, TimerReset
<1>2. /\ Timed(w) /\ BlocksKept /\ OnLine /\ now \in Nat /\ w.last <= now
  BY DEF ITimerInv, Clock
<1>3. off = IF t \in Nodes(w.line) THEN WakeupDel(w, t, TRUE, now) ELSE w
  BY <1>1, <1>2 DEF OnLine
<1>4. BlocksKept' /\ c \in Counts
  BY <1>1, <1>2 DEF BlocksKept
<1> HIDE DEF off, c
<1>5. StartedAt(w, t, c, now, w')
  <2>1. StartedAt(w, t, c, now, WakeupAdd(off, t, c, TRUE, now))
    BY <1>2, <1>3, <1>4, StartTimed
  <2>2. QED
    BY <1>1, <2>1, Zenon
<1>7. {x \in Timers : tmr'[x].running} = Nodes(w.line) \union {t}
  BY <1>1, <1>2 DEF OnLine
<1>8. QED
  BY <1>1, <1>4, <1>5, <1>7, StartedStep

\* A timer is cancelled or deleted.
LEMMA ITimerStopStep ==
    ASSUME ITimerInv, NEW t \in Timers, Stop(t)
    PROVE  ITimerInv' /\ (DueInv => DueInv')
<1>1. /\ TimerCancel(t, TRUE, now) \/ TimerDelete(t, TRUE, now)
      /\ due' = [due EXCEPT ![t] = 0]
      /\ UNCHANGED <<now, thread, early, mixed>>
  BY DEF Stop
<1>2. /\ Timed(w) /\ BlocksKept /\ OnLine /\ now \in Nat /\ w.last <= now
  BY DEF ITimerInv, Clock
<1>3. /\ w' = IF tmr[t].running THEN WakeupDel(w, t, TRUE, now) ELSE w
      /\ BlocksKept'
      /\ \A x \in Timers : tmr'[x].running <=> tmr[x].running /\ x # t
  <2>1. CASE TimerCancel(t, TRUE, now)
    <3>1. /\ tmr[t].running /\ w' = WakeupDel(w, t, TRUE, now)
          /\ tmr' = [tmr EXCEPT ![t].running = FALSE]
      BY <2>1 DEF TimerCancel
    <3>2. BlocksKept' /\ \A x \in Timers : tmr'[x].running <=> tmr[x].running /\ x # t
      BY <1>2, <3>1 DEF BlocksKept, Block
    <3>3. w' = IF tmr[t].running THEN WakeupDel(w, t, TRUE, now) ELSE w
      BY <3>1
    <3>4. QED
      BY <3>2, <3>3
  <2>2. CASE TimerDelete(t, TRUE, now)
    <3>1. /\ w' = (IF tmr[t].running THEN WakeupDel(w, t, TRUE, now) ELSE w)
          /\ tmr' = [tmr EXCEPT ![t].used = FALSE, ![t].running = FALSE]
      BY <2>2 DEF TimerDelete
    <3>2. BlocksKept' /\ \A x \in Timers : tmr'[x].running <=> tmr[x].running /\ x # t
      BY <1>2, <3>1 DEF BlocksKept, Block
    <3>3. QED
      BY <3>1, <3>2
  <2>3. QED
    BY <1>1, <2>1, <2>2
<1>4. StoppedAt(w, t, now, w')
  <2>1. w' = IF t \in Nodes(w.line) THEN WakeupDel(w, t, TRUE, now) ELSE w
    BY <1>2, <1>3 DEF OnLine
  <2>2. QED
    BY <1>2, <2>1, MayStop
<1>5. {x \in Timers : tmr'[x].running} = Nodes(w.line) \ {t}
  BY <1>2, <1>3 DEF OnLine
<1>6. QED
  BY <1>1, <1>3, <1>4, <1>5, StoppedStep

\* Time passes.
LEMMA TickStepKeeps ==
    ASSUME ITimerInv, Tick
    PROVE  ITimerInv' /\ (DueInv => DueInv')
<1>1. /\ now' = now + 1 /\ w' = w /\ tmr' = tmr /\ due' = due /\ early' = early
      /\ mixed' = mixed /\ at' = at /\ until' = until /\ charge' = charge
  BY DEF Tick, thread
<1>2. /\ now \in Nat /\ w.last <= now /\ until \in Nat /\ w.last \in Nat
  BY TimedIsScanned DEF ITimerInv, Clock
<1>3. w'.last <= now' /\ now' \in Nat
  BY <1>1, <1>2
<1>4. ITimerInv'
  BY <1>1, <1>3 DEF ITimerInv, Clock, BlocksKept, OnLine
<1>5. DueInv => DueInv'
  BY <1>1 DEF DueInv
<1>6. QED
  BY <1>4, <1>5

\* Every step preserves the two invariants.
LEMMA ITimerStep ==
    ASSUME ITimerInv, [ITimerNext]_ITimerVars
    PROVE  ITimerInv' /\ (DueInv => DueInv')
<1>1. CASE Sleep
  BY <1>1, SleepStep
<1>2. CASE Awake
  BY <1>2, AwakeStep
<1>3. CASE ITimerReturns
  BY <1>3, ITimerReturnStep
<1>4. CASE Tick
  BY <1>4, TickStepKeeps
<1>5. ASSUME NEW t \in Timers, Create(t)
      PROVE  ITimerInv' /\ (DueInv => DueInv')
  BY <1>5, ITimerCreateStep
<1>6. ASSUME NEW t \in Timers, Reset(t)
      PROVE  ITimerInv' /\ (DueInv => DueInv')
  BY <1>6, ITimerResetStep
<1>7. ASSUME NEW t \in Timers, Stop(t)
      PROVE  ITimerInv' /\ (DueInv => DueInv')
  BY <1>7, ITimerStopStep
<1>8. ASSUME NEW t \in Timers, NEW init \in Counts, NEW count \in Counts,
             NEW auto \in BOOLEAN, Start(t, init, count, auto)
      PROVE  ITimerInv' /\ (DueInv => DueInv')
  BY <1>8, ITimerStartStep
<1>9. CASE UNCHANGED ITimerVars
  <2>1. /\ w' = w /\ tmr' = tmr /\ now' = now /\ at' = at /\ until' = until
        /\ charge' = charge /\ due' = due /\ early' = early /\ mixed' = mixed
    BY <1>9 DEF ITimerVars, thread
  <2>2. QED
    BY <2>1 DEF ITimerInv, Clock, BlocksKept, OnLine, DueInv
<1>10. QED
  BY <1>1, <1>2, <1>3, <1>4, <1>5, <1>6, <1>7, <1>8, <1>9 DEF ITimerNext

\* They hold at first.
LEMMA ITimerInitInv == ITimerInit => ITimerInv /\ DueInv
<1> SUFFICES ASSUME ITimerInit PROVE ITimerInv /\ DueInv
  OBVIOUS
<1>1. /\ w = [line |-> <<>>, op |-> Null, last |-> 1] /\ tmr = [t \in Timers |-> Unused]
      /\ now = 1 /\ at = "start" /\ until = 0 /\ charge = 0
      /\ due = [t \in Timers |-> 0] /\ early = FALSE
  BY DEF ITimerInit, Empty
<1>2. <<>> \in Lines(Timers) /\ Nodes(<<>>) = {} /\ Apart(<<>>)
  BY DEF Lines, Nodes, Apart
<1>3. Timed(w)
  BY <1>1, <1>2 DEF Timed
<1>4. Unused \in Block /\ ~Unused.running
  BY DEF Unused, Block
<1>5. BlocksKept /\ OnLine
  BY <1>1, <1>2, <1>4 DEF BlocksKept, OnLine
<1>6. ITimerInv
  BY <1>1, <1>3, <1>5 DEF ITimerInv, Clock
<1>7. DueInv
  BY <1>1, <1>2 DEF DueInv, DueKept
<1>8. QED
  BY <1>6, <1>7

\* The line, the blocks and the clock of the timer thread stay together, and the
\* thread is set to wake when any timer of the line is due, or before; for a timer
\* whose count is used up, at the next tick.
THEOREM ITimerInvariance == ITimerSpec => []ITimerInv
<1>1. ITimerInv /\ [ITimerNext]_ITimerVars => ITimerInv'
  BY ITimerStep
<1>2. QED
  BY <1>1, ITimerInitInv, PTL DEF ITimerSpec

\* The thread never oversleeps, however late it runs once it is woken: what is
\* started, reset, cancelled and deleted while it sleeps never leaves a first
\* timer on the line that is due before the thread wakes, but for the tick that
\* _ITimerThread sleeps when it finds a count that is used up.
THEOREM NeverOversleeps == ITimerSpec => []ThreadWakesInTime
<1>1. ASSUME ITimerInv PROVE ThreadWakesInTime
  <2>1. Timed(w) /\ until \in Nat /\ (at = "sleep" => WakesBefore(w, until))
    BY <1>1 DEF ITimerInv, Clock
  <2>2. QED
    BY <2>1, FirstIsFirst DEF ThreadWakesInTime
<1>2. QED
  BY <1>1, ITimerInvariance, PTL

\* However late the thread runs and whatever happens to the line during its sleep
\* and its scan, no timer is called before its count has passed, but on a line to
\* which a timer was added in a scan with ticks left to charge.
THEOREM CalledWhenDue == ITimerSpec => []NeverEarly
<1>1. ITimerInv /\ DueInv /\ [ITimerNext]_ITimerVars => ITimerInv' /\ DueInv'
  BY ITimerStep
<1>2. DueInv => NeverEarly
  BY DEF DueInv, NeverEarly
<1>3. QED
  BY <1>1, <1>2, ITimerInitInv, PTL DEF ITimerSpec
=============================================================================
