--------------------------- MODULE ObserverProofs ---------------------------
(***************************************************************************)
(* The ring, the peak and the figures, for any length of the ring, number  *)
(* of views and durations.                                                 *)
(*                                                                         *)
(* RingInv: read backwards from the next slot, the ring is the log read    *)
(* backwards.  PeakInv: a reading that has been compared is covered by the *)
(* peak.  FigureInv: the cache is the window after some number of records, *)
(* and whatever is older than the cache is among them.                     *)
(*                                                                         *)
(* That a copy can be sorted is shown by induction over its length (UpTo); *)
(* percentiles count, and counting does not depend on the order.           *)
(***************************************************************************)
EXTENDS Observer, FunctionTheorems, FiniteSetTheorems, SequenceTheorems, TLAPS

-----------------------------------------------------------------------------
(* Numbers *)

Below(S, v) == {x \in S : x < v}

\* Where there is a number there is a smallest one.
LEMMA Smallest ==
    ASSUME NEW S, S # {}, NEW n \in Nat, S \subseteq 0..n
    PROVE  \E m \in S : \A v \in S : m <= v
<1> DEFINE F == {Below(S, v) : v \in S}
<1>0. IsFiniteSet(S)
  <2>1. IsFiniteSet(0..n)
    BY FS_Interval
  <2> QED
    BY <2>1, FS_Subset
<1>1. IsWellFoundedOn(StrictSubsetOrdering(S), FiniteSubsetsOf(S))
  BY <1>0, FS_StrictSubsetOrderingWellFounded
<1>2. F \subseteq FiniteSubsetsOf(S) /\ F # {}
  <2>1. \A v \in S : Below(S, v) \in FiniteSubsetsOf(S)
    BY <1>0, FS_FiniteSubsetsOfFinite DEF Below
  <2> QED
    BY <2>1
<1>3. PICK T \in F : \A U \in F : <<U, T>> \notin StrictSubsetOrdering(S)
  <2> HIDE DEF F
  <2> QED
    BY <1>1, <1>2, WFMin
<1>4. PICK m \in S : T = Below(S, m)
  BY <1>3
<1>5. ASSUME NEW v \in S, v < m PROVE FALSE
  <2>1. Below(S, v) \in F /\ v \in T /\ v \notin Below(S, v)
    BY <1>4, <1>5 DEF Below
  <2>2. \A x \in S : x < v => x < m
    BY <1>5
  <2>3. Below(S, v) \subseteq T
    BY <1>4, <2>2 DEF Below
  <2>4. <<Below(S, v), T>> \in StrictSubsetOrdering(S)
    BY <2>1, <2>3, <1>4 DEF StrictSubsetOrdering, Below
  <2> QED
    BY <1>3, <2>1, <2>4
<1>6. \A v \in S : m <= v
  BY <1>5
<1> QED
  BY <1>6

\* Induction up to n, for the members of a set.
LEMMA UpTo ==
    ASSUME NEW n \in Nat, NEW S, 0 \in S, \A m \in 1..n : m - 1 \in S => m \in S
    PROVE  0..n \subseteq S
<1> DEFINE Out == {m \in 0..n : m \notin S}
<1>1. SUFFICES ASSUME Out # {} PROVE FALSE
  OBVIOUS
<1>2. PICK m \in Out : \A v \in Out : m <= v
  BY <1>1, Smallest
<1>3. m \in 1..n /\ m - 1 \in 0..n
  BY <1>2
<1> QED
  BY <1>2, <1>3

-----------------------------------------------------------------------------
(* Sorting *)

Ascending(s) == \A i, j \in DOMAIN s : i <= j => s[i] <= s[j]

\* The copy c read in the order of b.
Order(c, b) == [i \in DOMAIN c |-> c[b[i]]]

\* Among n + 1 numbers there is a greatest.
LEMMA Greatest ==
    ASSUME NEW n \in Nat, NEW c \in [1..(n + 1) -> Nat]
    PROVE  \E m \in 1..(n + 1) : \A i \in 1..(n + 1) : c[i] <= c[m]
<1> DEFINE Top(k) == \E m \in 1..(k + 1) : \A i \in 1..(k + 1) : c[i] <= c[m]
           S == {k \in 0..n : Top(k)}
<1>1. 0 \in S
  <2>1. \A i \in 1..(0 + 1) : c[i] <= c[1]
    OBVIOUS
  <2> QED
    BY <2>1
<1>2. ASSUME NEW k \in 1..n, k - 1 \in S PROVE k \in S
  <2>1. PICK m \in 1..k : \A i \in 1..k : c[i] <= c[m]
    BY <1>2
  <2>2. c[k + 1] \in Nat /\ \A i \in 1..k : c[i] \in Nat
    OBVIOUS
  <2>3. CASE c[k + 1] <= c[m]
    <3>1. m \in 1..(k + 1) /\ \A i \in 1..(k + 1) : c[i] <= c[m]
      BY <2>1, <2>2, <2>3
    <3> QED
      BY <3>1
  <2>4. CASE c[m] <= c[k + 1]
    <3>1. k + 1 \in 1..(k + 1) /\ \A i \in 1..(k + 1) : c[i] <= c[k + 1]
      BY <2>1, <2>2, <2>4
    <3> QED
      BY <3>1
  <2> QED
    BY <2>1, <2>2, <2>3, <2>4
<1>3. 0..n \subseteq S
  <2> HIDE DEF S
  <2> QED
    BY <1>1, <1>2, UpTo
<1>4. n \in S
  <2> HIDE DEF S
  <2> QED
    BY <1>3
<1> QED
  BY <1>4

\* Every copy can be sorted: put a greatest element last, sort the others.
LEMMA Sortable ==
    ASSUME NEW N \in Nat, NEW copy \in [1..N -> Nat]
    PROVE  \E b \in Bijection(1..N, 1..N) : Ascending(Order(copy, b))
<1> DEFINE Can(n) == \A c \in [1..n -> Nat] :
                        \E b \in [1..n -> 1..n] :
                            /\ \A i, j \in 1..n : b[i] = b[j] => i = j
                            /\ \A i, j \in 1..n : i <= j => c[b[i]] <= c[b[j]]
           S == {n \in 0..N : Can(n)}
<1>1. 0 \in S
  <2>1. 1..0 = {}
    OBVIOUS
  <2>2. \A c \in [1..0 -> Nat] : c \in [1..0 -> 1..0]
    BY <2>1
  <2>3. Can(0)
    BY <2>1, <2>2
  <2> QED
    BY <2>3
<1>2. ASSUME NEW k \in 1..N, k - 1 \in S PROVE k \in S
  <2>i. k \in 0..N
    OBVIOUS
  <2>s. SUFFICES Can(k)
    <3> HIDE DEF Can
    <3> QED
      BY <2>i
  <2> SUFFICES ASSUME NEW c \in [1..k -> Nat]
               PROVE  \E b \in [1..k -> 1..k] :
                            /\ \A i, j \in 1..k : b[i] = b[j] => i = j
                            /\ \A i, j \in 1..k : i <= j => c[b[i]] <= c[b[j]]
    OBVIOUS
  <2>1. PICK m \in 1..k : \A i \in 1..k : c[i] <= c[m]
    <3>1. k - 1 \in Nat /\ (k - 1) + 1 = k
      OBVIOUS
    <3> HIDE DEF S
    <3>2. c \in [1..((k - 1) + 1) -> Nat]
      BY <3>1
    <3>3. \E mm \in 1..((k - 1) + 1) : \A i \in 1..((k - 1) + 1) : c[i] <= c[mm]
      BY <3>1, <3>2, Greatest
    <3> QED
      BY <3>1, <3>3
  <2> DEFINE d == [i \in 1..(k - 1) |-> IF i = m THEN c[k] ELSE c[i]]
  <2>2. d \in [1..(k - 1) -> Nat]
    OBVIOUS
  <2>3. PICK a \in [1..(k - 1) -> 1..(k - 1)] :
                 /\ \A i, j \in 1..(k - 1) : a[i] = a[j] => i = j
                 /\ \A i, j \in 1..(k - 1) : i <= j => d[a[i]] <= d[a[j]]
    <3> HIDE DEF d
    <3> QED
      BY <1>2, <2>2
  <2> DEFINE b == [i \in 1..k |-> IF i = k THEN m ELSE IF a[i] = m THEN k ELSE a[i]]
  <2>4. \A i \in 1..(k - 1) : a[i] \in 1..(k - 1) /\ i \in 1..k /\ i # k
    <3>1. \A i \in 1..(k - 1) : i \in 1..k /\ i # k
      OBVIOUS
    <3> HIDE DEF d
    <3> QED
      BY <2>3, <3>1
  <2>5. \A i \in 1..k : i # k => i \in 1..(k - 1)
    OBVIOUS
  <2>6. b \in [1..k -> 1..k]
    BY <2>4, <2>5
  <2>7. \A i, j \in 1..k : b[i] = b[j] => i = j
    BY <2>3, <2>4, <2>5
  <2>8. \A i \in 1..(k - 1) : c[b[i]] = d[a[i]]
    BY <2>4
  <2>9. ASSUME NEW i \in 1..k, NEW j \in 1..k, i <= j PROVE c[b[i]] <= c[b[j]]
    <3>1. CASE j = k
      BY <2>1, <2>6, <3>1
    <3>2. CASE j # k
      <4>1. i \in 1..(k - 1) /\ j \in 1..(k - 1)
        BY <2>9, <3>2
      <4> HIDE DEF b, d
      <4> QED
        BY <2>3, <2>8, <2>9, <4>1
    <3> QED
      BY <3>1, <3>2
  <2> HIDE DEF b
  <2> QED
    BY <2>6, <2>7, <2>9
<1>3. 0..N \subseteq S
  <2> HIDE DEF S
  <2> QED
    BY <1>1, <1>2, UpTo
<1>4. N \in S
  <2> HIDE DEF S
  <2> QED
    BY <1>3
<1>5. PICK b \in [1..N -> 1..N] :
              /\ \A i, j \in 1..N : b[i] = b[j] => i = j
              /\ \A i, j \in 1..N : i <= j => copy[b[i]] <= copy[b[j]]
  BY <1>4
<1>6. b \in Injection(1..N, 1..N)
  BY <1>5, Fun_IsInj
<1>7. b \in Surjection(1..N, 1..N)
  <2>1. IsFiniteSet(1..N)
    BY FS_Interval
  <2> QED
    BY <1>6, <2>1, FS_Injection
<1>8. b \in Bijection(1..N, 1..N)
  BY <1>6, <1>7 DEF Bijection
<1>9. Ascending(Order(copy, b))
  BY <1>5 DEF Ascending, Order
<1> QED
  BY <1>8, <1>9

\* Sorted returns an ascending arrangement of its argument.
LEMMA SortedIsAscending ==
    ASSUME NEW N \in Nat, NEW copy \in [1..N -> Nat]
    PROVE  /\ Ascending(Sorted(copy))
           /\ \E b \in Bijection(1..N, 1..N) : Sorted(copy) = Order(copy, b)
<1> DEFINE A == {[i \in DOMAIN copy |-> copy[b[i]]] : b \in Bijection(DOMAIN copy, DOMAIN copy)}
<1>1. DOMAIN copy = 1..N
  OBVIOUS
<1>2. A = {Order(copy, b) : b \in Bijection(1..N, 1..N)}
  BY <1>1 DEF Order
<1>3. \E s \in A : Ascending(s)
  <2> HIDE DEF A
  <2> QED
    BY <1>2, Sortable
<1>4. Sorted(copy) = CHOOSE s \in A : Ascending(s)
  BY DEF Sorted, Ascending
<1>5. Sorted(copy) \in A /\ Ascending(Sorted(copy))
  <2> HIDE DEF A
  <2> QED
    BY <1>3, <1>4
<1> HIDE DEF A
<1> QED
  BY <1>2, <1>5

-----------------------------------------------------------------------------
(* Ranks *)

\* s holds the n elements of c, each as many times.
Reordered(s, c, n) ==
    /\ s \in [1..n -> Nat]
    /\ \A d \in Nat : AtMost(s, d) = AtMost(c, d)
    /\ \A i \in 1..n : \E j \in 1..n : s[j] = c[i]
    /\ \A j \in 1..n : \E i \in 1..n : s[j] = c[i]

\* Counting does not depend on the order.
LEMMA SameCount ==
    ASSUME NEW n \in Nat, NEW c \in [1..n -> Nat], NEW b \in Bijection(1..n, 1..n)
    PROVE  Reordered(Order(c, b), c, n)
<1> SUFFICES ASSUME NEW d \in Nat
             PROVE  /\ Order(c, b) \in [1..n -> Nat]
                    /\ AtMost(Order(c, b), d) = AtMost(c, d)
                    /\ \A i \in 1..n : \E j \in 1..n : Order(c, b)[j] = c[i]
                    /\ \A j \in 1..n : \E i \in 1..n : Order(c, b)[j] = c[i]
  <2>1. 0 \in Nat
    OBVIOUS
  <2> QED
    BY <2>1 DEF Reordered
<1> DEFINE s == Order(c, b)
           T == {i \in DOMAIN s : s[i] <= d}
           U == {i \in DOMAIN c : c[i] <= d}
<1>1. /\ b \in [1..n -> 1..n] /\ \A i, j \in 1..n : b[i] = b[j] => i = j
      /\ \A i \in 1..n : \E j \in 1..n : b[j] = i
  <2>1. b \in [1..n -> 1..n] /\ b \in Surjection(1..n, 1..n) /\ \A i, j \in 1..n : b[i] = b[j] => i = j
    BY Fun_BijectionProperties
  <2> QED
    BY <2>1 DEF Surjection
<1>2. s = [i \in 1..n |-> c[b[i]]] /\ s \in [1..n -> Nat]
  BY <1>1 DEF Order
<1> HIDE DEF s
<1>3. /\ \A i \in 1..n : \E j \in 1..n : s[j] = c[i]
      /\ \A j \in 1..n : \E i \in 1..n : s[j] = c[i]
  BY <1>1, <1>2
<1>4. T \subseteq 1..n /\ U \subseteq 1..n /\ IsFiniteSet(T)
  <2>1. IsFiniteSet(1..n)
    BY FS_Interval
  <2>2. T \subseteq 1..n /\ U \subseteq 1..n
    BY <1>2
  <2> QED
    BY <2>1, <2>2, FS_Subset
<1> DEFINE f == [i \in T |-> b[i]]
<1>5. \A i \in T : b[i] \in U
  BY <1>1, <1>2
<1>6. f \in [T -> U] /\ \A i, j \in T : f[i] = f[j] => i = j
  BY <1>1, <1>4, <1>5
<1>7. \A u \in U : \E i \in T : f[i] = u
  <2> TAKE u \in U
  <2>1. u \in 1..n
    BY <1>4
  <2>2. PICK i \in 1..n : b[i] = u
    BY <1>1, <2>1
  <2>3. i \in T
    BY <1>2, <2>2
  <2> QED
    BY <2>2, <2>3
<1> HIDE DEF f, T, U
<1>8. f \in Bijection(T, U)
  BY <1>6, <1>7, Fun_IsBij
<1>9. Cardinality(T) = Cardinality(U)
  BY <1>4, <1>8, FS_Bijection DEF ExistsBijection
<1> QED
  BY <1>2, <1>3, <1>9 DEF AtMost, T, U, s

\* In an ascending sequence, at least r elements do not exceed the r-th, and fewer do
\* not exceed anything smaller.
LEMMA AscendingCount ==
    ASSUME NEW n \in Nat, NEW s \in [1..n -> Nat], Ascending(s), NEW r \in 1..n
    PROVE  /\ \A d \in Nat : AtMost(s, d) \in Nat
           /\ AtMost(s, s[r]) >= r
           /\ \A d \in Nat : d < s[r] => AtMost(s, d) < r
<1> DEFINE T(d) == {i \in 1..n : s[i] <= d}
<1>1. \A d \in Nat : AtMost(s, d) = Cardinality(T(d))
  BY DEF AtMost
<1>2. \A d \in Nat : IsFiniteSet(T(d))
  <2> TAKE d \in Nat
  <2>1. IsFiniteSet(1..n) /\ T(d) \subseteq 1..n
    BY FS_Interval
  <2> HIDE DEF T
  <2> QED
    BY <2>1, FS_Subset
<1>3. \A d \in Nat : Cardinality(T(d)) \in Nat
  <2> HIDE DEF T
  <2> QED
    BY <1>2, FS_CardinalityType
<1>4. Cardinality(T(s[r])) >= r
  <2>1. 1..r \subseteq T(s[r])
    BY DEF Ascending
  <2>2. Cardinality(1..r) = r
    BY FS_Interval
  <2>3. s[r] \in Nat
    OBVIOUS
  <2> HIDE DEF T
  <2>4. Cardinality(1..r) <= Cardinality(T(s[r]))
    BY <1>2, <2>1, <2>3, FS_Subset
  <2> QED
    BY <1>3, <2>2, <2>3, <2>4
<1>5. ASSUME NEW d \in Nat, d < s[r] PROVE Cardinality(T(d)) < r
  <2>1. \A i \in 1..n : i >= r => s[r] <= s[i]
    BY DEF Ascending
  <2>2. ASSUME NEW i \in T(d) PROVE i \in 1..(r - 1)
    <3>1. i \in 1..n /\ s[i] <= d /\ s[i] \in Nat /\ s[r] \in Nat
      OBVIOUS
    <3>2. ~(i >= r)
      BY <1>5, <2>1, <3>1
    <3> QED
      BY <3>1, <3>2
  <2>3. Cardinality(1..(r - 1)) = r - 1 /\ IsFiniteSet(1..(r - 1))
    BY FS_Interval
  <2>4. T(d) \subseteq 1..(r - 1)
    BY <2>2
  <2> HIDE DEF T
  <2>5. Cardinality(T(d)) <= r - 1
    BY <2>3, <2>4, FS_Subset
  <2> QED
    BY <1>3, <2>5
<1> HIDE DEF T
<1> QED
  BY <1>1, <1>3, <1>4, <1>5

\* r is the least rank that p of a hundred of n elements do not exceed.
Least(r, n, p) == r \in 1..n /\ p * n \in Nat /\ 100 * r >= p * n /\ 100 * (r - 1) < p * n

\* The integer the code's float is cut to is the nearest rank.
LEMMA RankIsLeast == \A n \in Nat \ {0} : \A p \in {50, 95, 99} : Least(Rank(n, p), n, p)
BY DEF Rank, Least

\* The element at the rank, of whatever order is ascending, is the percentile.
LEMMA RankedRight ==
    ASSUME NEW n \in Nat \ {0}, NEW w \in Seq(Nat), Len(w) = n, NEW p \in {50, 95, 99},
           NEW s, Ascending(s), Reordered(s, w, n)
    PROVE  s[Rank(n, p)] = NearestRank(w, p)
<1> DEFINE r == Rank(n, p)
           Good(d) == 100 * AtMost(w, d) >= p * n
           V == {w[i] : i \in DOMAIN w}
<1>1. w \in [1..n -> Nat] /\ DOMAIN w = 1..n
  OBVIOUS
<1>3. Least(r, n, p)
  BY RankIsLeast
<1> HIDE DEF r
<1>r. r \in 1..n
  BY <1>3 DEF Least
<1>4. s[r] \in V
  BY <1>1, <1>r DEF Reordered
<1>6. /\ \A d \in Nat : AtMost(w, d) \in Nat
      /\ AtMost(w, s[r]) >= r
      /\ \A d \in Nat : d < s[r] => AtMost(w, d) < r
  <2>1. n \in Nat /\ s \in [1..n -> Nat] /\ s[r] \in Nat /\ \A d \in Nat : AtMost(s, d) = AtMost(w, d)
    BY <1>r DEF Reordered
  <2>2. /\ \A d \in Nat : AtMost(s, d) \in Nat
        /\ AtMost(s, s[r]) >= r
        /\ \A d \in Nat : d < s[r] => AtMost(s, d) < r
    BY <1>r, <2>1, AscendingCount
  <2> QED
    BY <2>1, <2>2
<1>7. V \subseteq Nat /\ s[r] \in Nat
  <2>1. \A i \in DOMAIN w : w[i] \in Nat
    BY <1>1
  <2>2. s[r] \in Nat
    BY <1>r DEF Reordered
  <2> QED
    BY <2>1, <2>2
<1>8. Good(s[r])
  <2>1. AtMost(w, s[r]) \in Nat /\ AtMost(w, s[r]) >= r
    BY <1>6, <1>7
  <2>2. r \in Nat /\ 100 * r >= p * n /\ p * n \in Nat
    BY <1>3 DEF Least
  <2> QED
    BY <2>1, <2>2
<1>9. ASSUME NEW d \in Nat, Good(d) PROVE s[r] <= d
  <2>1. CASE d < s[r]
    <3> DEFINE a == AtMost(w, d)
               pn == p * n
    <3>1. a \in Nat /\ a < r /\ 100 * a >= pn
      BY <1>6, <1>9, <2>1
    <3>2. r \in Nat /\ pn \in Nat /\ 100 * (r - 1) < pn
      BY <1>3 DEF Least
    <3> HIDE DEF a, pn
    <3> QED
      BY <3>1, <3>2
  <2> QED
    BY <1>7, <2>1
<1>10. \A i \in DOMAIN w : Good(w[i]) => s[r] <= w[i]
  BY <1>1, <1>9
<1> HIDE DEF Good, V
<1>11. \E d \in V : Good(d) /\ \A i \in DOMAIN w : Good(w[i]) => d <= w[i]
  BY <1>4, <1>8, <1>10
<1>12. NearestRank(w, p) = CHOOSE d \in V : Good(d) /\ \A i \in DOMAIN w : Good(w[i]) => d <= w[i]
  BY DEF NearestRank, Good, V
<1> DEFINE x == NearestRank(w, p)
<1>13. x \in V /\ Good(x) /\ \A i \in DOMAIN w : Good(w[i]) => x <= w[i]
  BY <1>11, <1>12
<1> HIDE DEF x
<1>14. s[r] <= x
  BY <1>7, <1>9, <1>13
<1>15. x <= s[r]
  BY <1>4, <1>8, <1>13 DEF V
<1>16. s[r] = x
  BY <1>7, <1>13, <1>14, <1>15
<1> QED
  BY <1>16 DEF r, x


-----------------------------------------------------------------------------
(* The ring *)

\* The slot that is k records behind the next one.
Slot(k) == IF k <= next THEN next - k ELSE next + Size - k

\* The ring in terms of the log: k records back from the next slot is the k-th from
\* the end of the log.
RingInv ==
    /\ clock \in Nat
    /\ log \in Seq([d : Duration, at : Nat])
    /\ samples \in [0..(Size - 1) -> Duration \cup {0}]
    /\ next \in 0..(Size - 1)
    /\ filled = IF Len(log) < Size THEN Len(log) ELSE Size
    /\ filled < Size => next = filled
    /\ \A k \in 1..filled : samples[Slot(k)] = log[Len(log) + 1 - k].d

-----------------------------------------------------------------------------
(* Arithmetic of the ring *)

LEMMA Wrap ==
    ASSUME NEW x \in 0..(2 * Size - 1)
    PROVE  /\ x < Size => x % Size = x
           /\ x >= Size => x % Size = x - Size
<1>s. Size \in Nat /\ Size > 0
  BY ObserverAssumption
<1>1. x = Size * (x \div Size) + (x % Size) /\ x % Size \in 0..(Size - 1) /\ x \div Size \in Int
  BY <1>s
<1>2. CASE x < Size
  BY <1>s, <1>2
<1>3. CASE x >= Size
  BY <1>s, <1>1, <1>3
<1> QED
  BY <1>s, <1>2, <1>3

-----------------------------------------------------------------------------
(* The ring *)

LEMMA InitRing == Init => RingInv
BY ObserverAssumption DEF Init, RingInv

\* The new record is one slot behind the new next; every other is one further back,
\* and the slot written is the one that falls out of the window.
LEMMA RecordRing ==
    ASSUME RingInv, NEW d \in Duration, Record(d)
    PROVE  RingInv'
<1> DEFINE n == Len(log)
           e == [d |-> d, at |-> clock]
<1>s. Size \in Nat \ {0}
  BY ObserverAssumption
<1>f. /\ samples' = [samples EXCEPT ![next] = d] /\ next' = (next + 1) % Size
      /\ filled' = IF filled < Size THEN filled + 1 ELSE filled
      /\ log' = Append(log, e) /\ clock' = clock
  BY DEF Record
<1>r. /\ clock \in Nat
      /\ log \in Seq([d : Duration, at : Nat])
      /\ samples \in [0..(Size - 1) -> Duration \cup {0}]
      /\ next \in 0..(Size - 1) /\ n \in Nat
      /\ filled = IF n < Size THEN n ELSE Size
  BY DEF RingInv
<1>1. next' = IF next = Size - 1 THEN 0 ELSE next + 1
  <2> DEFINE x == next + 1
  <2>1. x \in 0..(2 * Size - 1)
    BY <1>s, <1>r
  <2>2. next' = x % Size
    BY <1>f
  <2> HIDE DEF x
  <2>3. /\ x < Size => next' = x
        /\ x >= Size => next' = x - Size
    BY <2>1, <2>2, Wrap
  <2> QED
    BY <1>s, <1>r, <2>3 DEF x
<1>2. log' \in Seq([d : Duration, at : Nat]) /\ Len(log') = n + 1
  BY <1>f, <1>r
<1>3. /\ log'[n + 1].d = d
      /\ \A i \in 1..n : log'[i] = log[i]
  BY <1>f, <1>r
<1>4. filled' = IF n + 1 < Size THEN n + 1 ELSE Size
  BY <1>s, <1>f, <1>r
<1>5. ASSUME NEW k \in 1..filled'
      PROVE  samples'[Slot(k)'] = log'[n + 2 - k].d
  <2>1. CASE k = 1
    <3>1. Slot(k)' = next
      BY <1>1, <1>r, <1>s, <2>1 DEF Slot
    <3> QED
      BY <1>3, <1>f, <1>r, <2>1, <3>1
  <2>2. CASE k # 1
    <3>1. k - 1 \in 1..filled /\ k \in 2..Size
      BY <1>4, <1>r, <1>s, <2>2
    <3>2. /\ Slot(k)' = Slot(k - 1) /\ Slot(k - 1) # next
          /\ Slot(k - 1) \in 0..(Size - 1)
      <4>1. CASE next = Size - 1
        BY <1>1, <1>s, <3>1, <4>1 DEF Slot
      <4>2. CASE next # Size - 1
        <5>1. next' = next + 1
          BY <1>1, <4>2
        <5>2. CASE k - 1 <= next
          BY <1>r, <1>s, <3>1, <5>1, <5>2 DEF Slot
        <5>3. CASE k - 1 > next
          BY <1>r, <1>s, <3>1, <5>1, <5>3 DEF Slot
        <5> QED
          BY <1>r, <3>1, <5>2, <5>3
      <4> QED
        BY <4>1, <4>2
    <3>3. samples'[Slot(k)'] = samples[Slot(k - 1)]
      BY <1>f, <1>r, <3>2
    <3>4. samples[Slot(k - 1)] = log[n + 1 - (k - 1)].d
      BY <3>1 DEF RingInv
    <3>5. n + 1 - (k - 1) \in 1..n /\ n + 1 - (k - 1) = n + 2 - k
      BY <1>r, <1>s, <3>1
    <3> QED
      BY <1>3, <3>3, <3>4, <3>5
  <2> QED
    BY <2>1, <2>2
<1>6. samples' \in [0..(Size - 1) -> Duration \cup {0}] /\ next' \in 0..(Size - 1)
  BY <1>1, <1>f, <1>r, <1>s
<1>7. \A k \in 1..filled' : samples'[Slot(k)'] = log'[Len(log') + 1 - k].d
  BY <1>2, <1>5, <1>r
<1>8. filled' < Size => next' = filled'
  <2>1. filled < Size => next = filled
    BY DEF RingInv
  <2> QED
    BY <1>1, <1>f, <1>r, <1>s, <1>4, <2>1
<1> QED
  BY <1>f, <1>r, <1>2, <1>4, <1>6, <1>7, <1>8 DEF RingInv

\* Nothing else touches the ring.
LEMMA OthersKeepRing ==
    [Next]_vars => UNCHANGED ring \/ \E d \in Duration : Record(d)
<1> SUFFICES ASSUME Next PROVE UNCHANGED ring \/ \E d \in Duration : Record(d)
  BY DEF vars
<1>1. ASSUME NEW g \in Goroutine, ReadMemory(g) \/ Proceed(g) PROVE UNCHANGED ring
  BY <1>1 DEF ReadMemory, Proceed, AdvancePeak, LockLatency, Summarise, Finish
<1>2. Tick => UNCHANGED ring
  BY DEF Tick
<1> QED
  BY <1>1, <1>2 DEF Next

LEMMA OthersKeepClock == [Next]_vars => clock' = clock \/ clock' = clock + 1
<1> SUFFICES ASSUME [Next]_vars PROVE clock' = clock \/ clock' = clock + 1
  OBVIOUS
<1>1. ASSUME NEW g \in Goroutine, ReadMemory(g) \/ Proceed(g) PROVE clock' = clock
  BY <1>1 DEF ReadMemory, Proceed, AdvancePeak, LockLatency, Summarise, Finish
<1> QED
  BY <1>1 DEF Next, Tick, Record, vars

\* The ring's invariant says what Window does: read backwards from the next slot, the
\* ring is the window read backwards.
LEMMA WindowOfRing ==
    ASSUME RingInv
    PROVE  LET w == Window(Durations(log), Size)
           IN  /\ w \in Seq(Duration) /\ Len(w) = filled /\ filled \in 0..Size
               /\ \A k \in 1..filled : samples[Slot(k)] = w[filled + 1 - k]
<1> DEFINE n == Len(log)
           ds == Durations(log)
           m == IF n > Size THEN n - Size + 1 ELSE 1
           w == SubSeq(ds, m, n)
<1>s. Size \in Nat \ {0}
  BY ObserverAssumption
<1>r. /\ log \in Seq([d : Duration, at : Nat]) /\ n \in Nat
      /\ next \in 0..(Size - 1) /\ filled = IF n < Size THEN n ELSE Size
  BY DEF RingInv
<1>1. ds \in Seq(Duration) /\ Len(ds) = n /\ \A i \in 1..n : ds[i] = log[i].d
  <2>1. DOMAIN log = 1..n /\ \A i \in 1..n : log[i] \in [d : Duration, at : Nat]
    BY <1>r, ElementOfSeq, LenProperties
  <2>2. ds = [i \in 1..n |-> log[i].d] /\ \A i \in 1..n : log[i].d \in Duration
    BY <2>1 DEF Durations
  <2> HIDE DEF ds
  <2> QED
    BY <1>r, <2>2
<1>2. m \in 1..(n + 1) /\ n - m + 1 = filled /\ filled \in Nat
  <2>1. n \in Nat /\ Size \in Nat \ {0}
    BY <1>r, <1>s
  <2>2. filled = IF n < Size THEN n ELSE Size
    BY <1>r
  <2>3. m = IF n > Size THEN n - Size + 1 ELSE 1
    OBVIOUS
  <2> HIDE DEF m, n
  <2> QED
    BY <2>1, <2>2, <2>3
<1> HIDE DEF ds, m
<1>3. Len(w) = filled /\ \A i \in 1..filled : w[i] = ds[m + i - 1]
  BY <1>1, <1>2, <1>r
<1>4. ASSUME NEW k \in 1..filled
      PROVE  samples[Slot(k)] = w[filled + 1 - k]
  <2>2. samples[Slot(k)] = log[n + 1 - k].d
    BY DEF RingInv
  <2>3. /\ filled + 1 - k \in 1..filled
        /\ m + (filled + 1 - k) - 1 = n + 1 - k
        /\ n + 1 - k \in 1..n
    BY <1>2, <1>r, <1>s
  <2>4. w[filled + 1 - k] = ds[n + 1 - k]
    BY <1>3, <2>3
  <2> QED
    BY <1>1, <2>2, <2>3, <2>4
<1>5. Window(ds, Size) = w
  BY <1>1 DEF Window, m
<1>6. w \in Seq(Duration) /\ filled \in 0..Size
  <2>1. filled \in 0..Size
    BY <1>r, <1>s
  <2>2. \A i \in 1..filled : m + i - 1 \in 1..n
    BY <1>2, <1>r
  <2>3. \A i \in 1..filled : w[i] \in Duration
    <3> HIDE DEF w
    <3> QED
      BY <1>1, <1>3, <2>2
  <2>4. w = [i \in 1..filled |-> w[i]]
    BY <1>1, <1>2, <1>r
  <2> HIDE DEF w
  <2> QED
    BY <2>1, <2>3, <2>4
<1> HIDE DEF w
<1> QED
  BY <1>3, <1>4, <1>5, <1>6 DEF ds

LEMMA RingInvIsWindow == RingInv => RingIsWindow
<1> SUFFICES ASSUME RingInv PROVE RingIsWindow
  OBVIOUS
<1>s. Size \in Nat \ {0} /\ next \in 0..(Size - 1)
  BY ObserverAssumption DEF RingInv
<1> DEFINE w == Window(Durations(log), Size)
<1>1. /\ Len(w) = filled /\ filled \in 0..Size
      /\ \A k \in 1..filled : samples[Slot(k)] = w[filled + 1 - k]
  BY WindowOfRing
<1> HIDE DEF w
<1>2. ASSUME NEW k \in 1..filled PROVE (next + Size - k) % Size = Slot(k)
  <2> DEFINE x == next + Size - k
  <2>1. x \in 0..(2 * Size - 1)
    BY <1>s, <1>1
  <2> HIDE DEF x
  <2>2. /\ x < Size => x % Size = x
        /\ x >= Size => x % Size = x - Size
    BY <2>1, Wrap
  <2>3. x % Size = Slot(k)
    <3>1. Size \in Nat /\ next \in 0..(Size - 1) /\ k \in 1..Size
      BY <1>s, <1>1
    <3> QED
      BY <2>2, <3>1 DEF x, Slot
  <2> QED
    BY <2>3 DEF x
<1> QED
  BY <1>1, <1>2 DEF RingIsWindow, w

\* What is ranked is the window in another order, so the figures are the window's.
LEMMA PercentilesRight == RingInv => Percentiles = Summary(Window(Durations(log), Size))
<1> SUFFICES ASSUME RingInv PROVE Percentiles = Summary(Window(Durations(log), Size))
  OBVIOUS
<1> DEFINE w == Window(Durations(log), Size)
           n == filled
           c == [i \in 1..n |-> samples[i - 1]]
           s == Sorted(c)
           r == [j \in 1..n |-> Slot(n + 1 - j) + 1]
<1>s. /\ Size \in Nat \ {0} /\ Duration \subseteq Nat /\ next \in 0..(Size - 1)
      /\ samples \in [0..(Size - 1) -> Nat] /\ (n < Size => next = n)
  <2>1. /\ Size \in Nat \ {0} /\ Duration \subseteq Nat /\ next \in 0..(Size - 1)
        /\ samples \in [0..(Size - 1) -> Duration \cup {0}] /\ (n < Size => next = n)
    BY ObserverAssumption DEF RingInv
  <2>2. Duration \cup {0} \subseteq Nat
    BY <2>1
  <2> QED
    BY <2>1, <2>2
<1>w. /\ w \in Seq(Nat) /\ Len(w) = n /\ n \in 0..Size
      /\ \A k \in 1..n : samples[Slot(k)] = w[n + 1 - k]
  <2>1. /\ w \in Seq(Duration) /\ Len(w) = n /\ n \in 0..Size
        /\ \A k \in 1..n : samples[Slot(k)] = w[n + 1 - k]
    BY WindowOfRing
  <2> HIDE DEF w
  <2>2. \A i \in 1..n : w[i] \in Nat
    <3>1. \A i \in 1..Len(w) : w[i] \in Duration
      BY <2>1, ElementOfSeq
    <3> QED
      BY <1>s, <2>1, <3>1
  <2>3. w = [i \in 1..n |-> w[i]]
    BY <2>1
  <2>4. w \in Seq(Nat)
    BY <2>1, <2>2, <2>3
  <2> QED
    BY <2>1, <2>4
<1> HIDE DEF w, n
<1>1. CASE n = 0
  <2>1. w = <<>>
    BY <1>1, <1>w
  <2> QED
    BY <1>1, <1>w, <2>1 DEF Percentiles, Summary, NothingMeasured, w, n
<1>2. CASE n # 0
  <2>1. n \in Nat \ {0} /\ n <= Size
    BY <1>2, <1>s, <1>w
  <2>2. c \in [1..n -> Nat]
    BY <1>s, <2>1
  <2>3. \A k \in 1..n : Slot(k) + 1 \in 1..n
    BY <1>s, <2>1 DEF Slot
  <2>4. \A k, l \in 1..n : Slot(k) = Slot(l) => k = l
    BY <1>s, <2>1 DEF Slot
  <2>5. \A j \in 1..n : n + 1 - j \in 1..n
    BY <2>1
  <2>6. r \in [1..n -> 1..n]
    BY <2>3, <2>5
  <2>7. ASSUME NEW i \in 1..n, NEW j \in 1..n, r[i] = r[j] PROVE i = j
    <3>1. /\ n + 1 - i \in 1..n /\ n + 1 - j \in 1..n
          /\ Slot(n + 1 - i) \in Int /\ Slot(n + 1 - j) \in Int
      BY <1>s, <2>1 DEF Slot
    <3>2. Slot(n + 1 - i) = Slot(n + 1 - j)
      BY <2>7, <3>1
    <3>3. n + 1 - i = n + 1 - j
      BY <2>4, <3>1, <3>2
    <3> QED
      BY <2>1, <3>3
  <2>8. r \in Bijection(1..n, 1..n)
    <3>1. r \in Injection(1..n, 1..n)
      BY <2>6, <2>7, Fun_IsInj
    <3>2. IsFiniteSet(1..n)
      BY <2>1, FS_Interval
    <3>3. r \in Surjection(1..n, 1..n)
      BY <3>1, <3>2, FS_Injection
    <3> QED
      BY <3>1, <3>3 DEF Bijection
  <2>9. ASSUME NEW j \in 1..n PROVE w[j] = c[r[j]]
    <3>1. n + 1 - j \in 1..n /\ n + 1 - (n + 1 - j) = j
      BY <2>1
    <3>2. samples[Slot(n + 1 - j)] = w[j]
      BY <1>w, <3>1
    <3>3. r[j] = Slot(n + 1 - j) + 1 /\ r[j] \in 1..n /\ Slot(n + 1 - j) \in Int
      <4>1. Slot(n + 1 - j) \in Int
        BY <1>s, <2>1 DEF Slot
      <4>2. r[j] = Slot(n + 1 - j) + 1
        OBVIOUS
      <4> HIDE DEF r
      <4> QED
        BY <2>6, <4>1, <4>2
    <3>4. c[r[j]] = samples[r[j] - 1] /\ r[j] - 1 = Slot(n + 1 - j)
      <4> HIDE DEF r
      <4> QED
        BY <3>3
    <3> QED
      BY <3>2, <3>4
  <2> HIDE DEF r
  <2>10. w = Order(c, r)
    <3>1. w = [j \in 1..n |-> w[j]]
      BY <1>w
    <3>2. Order(c, r) = [j \in 1..n |-> c[r[j]]]
      BY DEF Order
    <3> QED
      BY <2>9, <3>1, <3>2
  <2> HIDE DEF c
  <2>11. Reordered(w, c, n)
    BY <2>1, <2>2, <2>8, <2>10, SameCount
  <2>12. PICK b \in Bijection(1..n, 1..n) : s = Order(c, b)
    BY <2>1, <2>2, SortedIsAscending
  <2>13. Ascending(s)
    BY <2>1, <2>2, SortedIsAscending
  <2>14. Reordered(s, c, n)
    BY <2>1, <2>2, <2>12, SameCount
  <2> HIDE DEF s
  <2>15. Reordered(s, w, n)
    <3>1. s \in [1..n -> Nat] /\ \A d \in Nat : AtMost(s, d) = AtMost(w, d)
      BY <2>11, <2>14 DEF Reordered
    <3>2. ASSUME NEW i \in 1..n PROVE \E j \in 1..n : s[j] = w[i]
      <4>1. PICK k \in 1..n : w[i] = c[k]
        BY <2>11 DEF Reordered
      <4>2. PICK j \in 1..n : s[j] = c[k]
        BY <2>14 DEF Reordered
      <4> QED
        BY <4>1, <4>2
    <3>3. ASSUME NEW j \in 1..n PROVE \E i \in 1..n : s[j] = w[i]
      <4>1. PICK k \in 1..n : s[j] = c[k]
        BY <2>14 DEF Reordered
      <4>2. PICK i \in 1..n : w[i] = c[k]
        BY <2>11 DEF Reordered
      <4> QED
        BY <4>1, <4>2
    <3> QED
      BY <3>1, <3>2, <3>3 DEF Reordered
  <2>16. \A p \in {50, 95, 99} : s[Rank(n, p)] = NearestRank(w, p)
    BY <1>w, <2>1, <2>13, <2>15, RankedRight
  <2>17. /\ s[Rank(n, 50)] = NearestRank(w, 50) /\ s[Rank(n, 95)] = NearestRank(w, 95)
         /\ s[Rank(n, 99)] = NearestRank(w, 99)
    BY <2>16
  <2>18. w # <<>>
    BY <1>w, <2>1
  <2>19. /\ Percentiles = [samples |-> n, p50 |-> s[Rank(n, 50)],
                           p95 |-> s[Rank(n, 95)], p99 |-> s[Rank(n, 99)]]
    BY <1>2 DEF Percentiles, n, s, c
  <2>20. Summary(w) = [samples |-> n, p50 |-> NearestRank(w, 50),
                       p95 |-> NearestRank(w, 95), p99 |-> NearestRank(w, 99)]
    BY <1>w, <2>18 DEF Summary
  <2> QED
    BY <2>17, <2>19, <2>20 DEF w
<1> QED
  BY <1>1, <1>2

LEMMA RingAlways == Spec => []RingInv
<1>1. RingInv /\ [Next]_vars => RingInv'
  <2> SUFFICES ASSUME RingInv, [Next]_vars
               PROVE  RingInv'
    OBVIOUS
  <2>1. CASE UNCHANGED ring
    <3>1. log' = log /\ samples' = samples /\ next' = next /\ filled' = filled
      BY <2>1 DEF ring
    <3>2. clock' = clock \/ clock' = clock + 1
      BY OthersKeepClock
    <3>3. \A k \in 1..filled : Slot(k)' = Slot(k)
      BY <3>1 DEF Slot
    <3> QED
      BY <3>1, <3>2, <3>3 DEF RingInv
  <2>2. CASE \E d \in Duration : Record(d)
    BY <2>2, RecordRing
  <2> QED
    BY <2>1, <2>2, OthersKeepRing
<1> QED
  BY <1>1, InitRing, PTL DEF Spec

\* The ring always holds the last Size durations, in an order that only depends on
\* how many were recorded: what the percentiles are ranked from.
THEOREM RingHoldsWindow == Spec => []RingIsWindow
BY RingAlways, RingInvIsWindow, PTL

-----------------------------------------------------------------------------
(* The peak *)

\* Readings are numbers of the runtime, and the peak is one; a reading that has been
\* compared is covered.
PeakInv ==
    /\ clock \in Nat /\ latencyAt \in Nat /\ latencyMu \in Goroutine \cup {Nobody}
    /\ peakSys \in Memory \cup {0}
    /\ task = [g \in Goroutine |-> task[g]]
    /\ \A g \in Goroutine :
         /\ TaskOK(task[g])
         /\ task[g].at = "peak" => task[g].sys <= task[g].peak /\ task[g].peak <= peakSys

LEMMA InitPeak == Init => PeakInv
BY DEF Init, PeakInv, TaskOK, Idle

\* A step that moves goroutine g on to t, and the peak up at most.
LEMMA MovesOn ==
    ASSUME PeakInv, NEW g \in Goroutine, NEW t, task' = [task EXCEPT ![g] = t],
           clock' = clock, latencyAt' \in Nat, latencyMu' \in Goroutine \cup {Nobody},
           peakSys' \in Memory \cup {0}, peakSys <= peakSys',
           TaskOK(t), t.at = "peak" => t.sys <= t.peak /\ t.peak <= peakSys'
    PROVE  PeakInv'
<1>1. /\ task' = [h \in Goroutine |-> task'[h]]
      /\ task'[g] = t /\ \A h \in Goroutine \ {g} : task'[h] = task[h]
  BY DEF PeakInv
<1>2. Memory \cup {0} \subseteq Nat
  BY ObserverAssumption
<1>3. ASSUME NEW h \in Goroutine \ {g}, task[h].at = "peak"
      PROVE  task[h].sys <= task[h].peak /\ task[h].peak <= peakSys'
  <2>1. /\ task[h].sys <= task[h].peak /\ task[h].peak <= peakSys
        /\ task[h].peak \in Nat /\ peakSys \in Nat /\ peakSys' \in Nat
    BY <1>2, <1>3 DEF PeakInv, TaskOK
  <2> QED
    BY <2>1
<1>4. \A h \in Goroutine : TaskOK(task'[h])
  BY <1>1 DEF PeakInv
<1> QED
  BY <1>1, <1>3, <1>4 DEF PeakInv

LEMMA StepPeak == PeakInv /\ [Next]_vars => PeakInv'
<1> SUFFICES ASSUME PeakInv, [Next]_vars PROVE PeakInv'
  OBVIOUS
<1>m. Memory \cup {0} \subseteq Nat /\ peakSys \in Nat /\ peakSys <= peakSys
  BY ObserverAssumption DEF PeakInv
<1>1. CASE Tick \/ (\E d \in Duration : Record(d)) \/ UNCHANGED vars
  <2>1. /\ peakSys' = peakSys /\ task' = task
        /\ latencyAt' = latencyAt /\ latencyMu' = latencyMu
    BY <1>1 DEF Tick, Record, vars, cache
  <2>2. clock' = clock \/ clock' = clock + 1
    BY OthersKeepClock
  <2> QED
    BY <2>1, <2>2 DEF PeakInv
<1>2. ASSUME NEW g \in Goroutine, ReadMemory(g) PROVE PeakInv'
  <2>1. PICK sys \in Memory : task' = [task EXCEPT ![g] = [at |-> "memory", sys |-> sys]]
    BY <1>2 DEF ReadMemory, Set
  <2>2. /\ clock' = clock /\ peakSys' = peakSys
        /\ latencyAt' = latencyAt /\ latencyMu' = latencyMu
    BY <1>2 DEF ReadMemory, cache
  <2> DEFINE t == [at |-> "memory", sys |-> sys]
  <2>3. TaskOK(t) /\ t.at # "peak"
    BY DEF TaskOK
  <2> HIDE DEF t
  <2>4. task' = [task EXCEPT ![g] = t]
    BY <2>1 DEF t
  <2> QED
    BY <1>m, <2>2, <2>3, <2>4, MovesOn DEF PeakInv
<1>3. ASSUME NEW g \in Goroutine, AdvancePeak(g) PROVE PeakInv'
  <2> DEFINE sys == task[g].sys
             peak == IF sys > peakSys THEN sys ELSE peakSys
             t == IF g = Collector THEN Idle ELSE [at |-> "peak", sys |-> sys, peak |-> peak]
  <2>1. /\ task[g].at = "memory" /\ peakSys' = peak /\ task' = [task EXCEPT ![g] = t]
        /\ clock' = clock /\ latencyAt' = latencyAt /\ latencyMu' = latencyMu
    BY <1>3 DEF AdvancePeak, Set, cache
  <2>2. sys \in Memory /\ sys \in Nat
    BY <1>m, <2>1 DEF PeakInv, TaskOK
  <2>3. /\ peak \in Memory \cup {0} /\ peak \in Nat /\ sys <= peak /\ peakSys <= peak
        /\ peak = 0 => sys = 0
    BY <1>m, <2>2 DEF PeakInv
  <2>4. peak \in Memory
    BY <1>m, <2>2, <2>3
  <2>5. TaskOK(t) /\ (t.at = "peak" => t.sys <= t.peak /\ t.peak <= peak)
    BY <2>2, <2>3, <2>4 DEF TaskOK, Idle
  <2> HIDE DEF t, peak
  <2> QED
    BY <2>1, <2>3, <2>5, MovesOn DEF PeakInv
<1>4. ASSUME NEW g \in Goroutine, LockLatency(g) PROVE PeakInv'
  <2> DEFINE t == [at |-> "locked", now |-> clock, since |-> Since(clock)]
  <2>1. /\ task' = [task EXCEPT ![g] = t] /\ clock' = clock /\ peakSys' = peakSys
        /\ latencyAt' = latencyAt /\ latencyMu' = g
    BY <1>4 DEF LockLatency, Set
  <2>2. TaskOK(t) /\ t.at # "peak"
    BY DEF TaskOK, PeakInv
  <2> HIDE DEF t
  <2> QED
    BY <1>m, <2>1, <2>2, MovesOn DEF PeakInv
<1>5. ASSUME NEW g \in Goroutine, Summarise(g) PROVE PeakInv'
  <2> DEFINE t == [at |-> "done", since |-> task[g].since, p |-> latencyCached']
  <2>1. /\ task[g].at = "locked" /\ task' = [task EXCEPT ![g] = t]
        /\ clock' = clock /\ peakSys' = peakSys
        /\ latencyAt' \in {latencyAt, task[g].now} /\ latencyMu' = Nobody
    BY <1>5 DEF Summarise, Set
  <2>2. latencyAt' \in Nat
    BY <2>1 DEF PeakInv, TaskOK
  <2>3. TaskOK(t) /\ t.at # "peak"
    BY DEF TaskOK
  <2> HIDE DEF t
  <2> QED
    BY <1>m, <2>1, <2>2, <2>3, MovesOn DEF PeakInv
<1>6. ASSUME NEW g \in Goroutine, Finish(g) PROVE PeakInv'
  <2>1. /\ task' = [task EXCEPT ![g] = Idle] /\ clock' = clock /\ peakSys' = peakSys
        /\ latencyAt' = latencyAt /\ latencyMu' = latencyMu
    BY <1>6 DEF Finish, Set, cache
  <2>2. TaskOK(Idle) /\ Idle.at # "peak"
    BY DEF TaskOK, Idle
  <2> QED
    BY <1>m, <2>1, <2>2, MovesOn DEF PeakInv
<1> QED
  BY <1>1, <1>2, <1>3, <1>4, <1>5, <1>6 DEF Next, Proceed

LEMMA PeakAlways == Spec => []PeakInv
BY InitPeak, StepPeak, PTL DEF Spec

\* However readings and comparisons of views and the collector interleave, the peak a
\* snapshot shows covers its own reading, and the stored peak never falls below one shown.
THEOREM PeakCovers == Spec => []PeakHolds
<1>1. PeakInv => PeakHolds
  BY DEF PeakInv, PeakHolds, Goroutine
<1> QED
  BY <1>1, PeakAlways, PTL

-----------------------------------------------------------------------------
(* The figures *)

Figures(n) == Summary(Window(Durations(SubSeq(log, 1, n)), Size))

\* The cache is the window after the first n records: it has all that were older than
\* the cache is, and all that count for whoever is about to find it fresh.
CachedAs(n) ==
    /\ latencyCached = Figures(n)
    /\ \A i \in DOMAIN log : log[i].at < latencyAt => i <= n
    /\ \A g \in Goroutine :
          task[g].at = "locked" /\ task[g].now - latencyAt < TTL => task[g].since <= n

FigureInv ==
    /\ latencyAt <= clock
    /\ \A g \in Goroutine : task[g].at = "locked" =>
          /\ latencyMu = g
          /\ latencyAt <= task[g].now /\ task[g].now <= clock
          /\ task[g].since \in 0..Len(log)
    /\ latencyAt # 0 => \E n \in 0..Len(log) : CachedAs(n)
    /\ \A g \in Goroutine : task[g].at = "done" =>
          /\ task[g].since \in Nat
          /\ \E n \in task[g].since..Len(log) : task[g].p = Figures(n)

\* What was computed of a part of the log stays true of it.
LEMMA FiguresStay ==
    ASSUME RingInv, NEW d \in Duration, Record(d)
    PROVE  /\ Len(log') = Len(log) + 1 /\ Len(log) \in Nat
           /\ log'[Len(log) + 1].at = clock
           /\ \A i \in 1..Len(log) : log'[i] = log[i]
           /\ \A n \in 0..Len(log) : Figures(n)' = Figures(n)
<1> DEFINE e == [d |-> d, at |-> clock]
<1>1. log \in Seq([d : Duration, at : Nat]) /\ e \in [d : Duration, at : Nat] /\ log' = Append(log, e)
  BY DEF RingInv, Record
<1>2. ASSUME NEW n \in 0..Len(log) PROVE SubSeq(log', 1, n) = SubSeq(log, 1, n)
  <2>1. \A i \in 1..n : log'[i] = log[i]
    BY <1>1
  <2> QED
    BY <1>1, <2>1
<1>3. e.at = clock
  OBVIOUS
<1> HIDE DEF e
<1>4. /\ Len(log') = Len(log) + 1 /\ Len(log) \in Nat /\ log'[Len(log) + 1] = e
      /\ \A i \in 1..Len(log) : log'[i] = log[i]
  BY <1>1
<1> QED
  BY <1>2, <1>3, <1>4 DEF Figures

LEMMA InitFigures == Init => FigureInv
BY DEF Init, FigureInv, Idle

\* Requests are recorded: what is new is no older than the cache.
LEMMA RecordFigures ==
    ASSUME RingInv, PeakInv, FigureInv, NEW d \in Duration, Record(d)
    PROVE  FigureInv'
<1>1. /\ Len(log') = Len(log) + 1 /\ Len(log) \in Nat
      /\ log'[Len(log) + 1].at = clock
      /\ \A i \in 1..Len(log) : log'[i] = log[i]
      /\ \A n \in 0..Len(log) : Figures(n)' = Figures(n)
  BY FiguresStay
<1>2. /\ clock' = clock /\ latencyAt' = latencyAt /\ latencyCached' = latencyCached
      /\ latencyMu' = latencyMu /\ task' = task
  BY DEF Record, cache
<1>3. DOMAIN log = 1..Len(log) /\ DOMAIN log' = 1..(Len(log) + 1)
  <2>1. log \in Seq([d : Duration, at : Nat]) /\ log' \in Seq([d : Duration, at : Nat])
    BY DEF RingInv, Record
  <2> QED
    BY <1>1, <2>1, LenProperties
<1>4. clock \in Nat /\ latencyAt \in Nat /\ latencyAt <= clock
  BY DEF PeakInv, FigureInv
<1>5. ASSUME latencyAt # 0 PROVE \E n \in 0..Len(log') : CachedAs(n)'
  <2>1. PICK n \in 0..Len(log) : CachedAs(n)
    BY <1>5 DEF FigureInv
  <2>2. ASSUME NEW i \in DOMAIN log', log'[i].at < latencyAt PROVE i <= n
    <3>1. i # Len(log) + 1
      BY <1>1, <1>4, <2>2
    <3>2. i \in DOMAIN log /\ log'[i] = log[i]
      BY <1>1, <1>3, <3>1
    <3> QED
      BY <2>1, <2>2, <3>2 DEF CachedAs
  <2>3. CachedAs(n)'
    BY <1>1, <1>2, <2>1, <2>2 DEF CachedAs
  <2>4. n \in 0..Len(log')
    BY <1>1
  <2> QED
    BY <2>3, <2>4
<1>6. ASSUME NEW g \in Goroutine, task[g].at = "done"
      PROVE  \E n \in task[g].since..Len(log') : task[g].p = Figures(n)'
  <2>1. PICK n \in task[g].since..Len(log) : task[g].p = Figures(n)
    BY <1>6 DEF FigureInv
  <2>2. task[g].since \in Nat
    BY <1>6 DEF FigureInv
  <2>3. n \in 0..Len(log) /\ n \in task[g].since..Len(log')
    BY <1>1, <2>2
  <2> QED
    BY <1>1, <2>1, <2>3
<1>7. 0..Len(log) \subseteq 0..Len(log')
  BY <1>1
<1> QED
  BY <1>2, <1>5, <1>6, <1>7 DEF FigureInv

\* A goroutine that moves on to something that is neither about to look nor done.
LEMMA MoveFigures ==
    ASSUME PeakInv, FigureInv, NEW g \in Goroutine, NEW t, task' = [task EXCEPT ![g] = t],
           t.at \notin {"locked", "done"}, UNCHANGED <<clock, ring, cache>>
    PROVE  FigureInv'
<1>1. /\ task' = [h \in Goroutine |-> task'[h]]
      /\ task'[g] = t /\ \A h \in Goroutine \ {g} : task'[h] = task[h]
  BY DEF PeakInv
<1>2. \A h \in Goroutine : task'[h].at \in {"locked", "done"} => task'[h] = task[h]
  BY <1>1
<1>3. /\ clock' = clock /\ latencyAt' = latencyAt /\ latencyCached' = latencyCached
      /\ latencyMu' = latencyMu /\ log' = log
  BY DEF cache, ring
<1>4. \A n : Figures(n)' = Figures(n)
  BY <1>3 DEF Figures
<1>5. \A n : CachedAs(n) => CachedAs(n)'
  BY <1>2, <1>3, <1>4 DEF CachedAs
<1> QED
  BY <1>2, <1>3, <1>4, <1>5 DEF FigureInv

\* Whoever locks the cache counts records that are older than the cache, if it is fresh.
LEMMA LockFigures ==
    ASSUME RingInv, PeakInv, FigureInv, NEW g \in Goroutine, LockLatency(g)
    PROVE  FigureInv'
<1> DEFINE t == [at |-> "locked", now |-> clock, since |-> Since(clock)]
           Old == {i \in DOMAIN log : log[i].at + TTL <= clock}
<1>1. /\ latencyMu = Nobody /\ latencyMu' = g /\ task' = [task EXCEPT ![g] = t]
      /\ clock' = clock /\ latencyAt' = latencyAt /\ latencyCached' = latencyCached /\ log' = log
  BY DEF LockLatency, Set, ring
<1>2. /\ task' = [h \in Goroutine |-> task'[h]]
      /\ task'[g] = t /\ \A h \in Goroutine \ {g} : task'[h] = task[h]
  BY <1>1 DEF PeakInv
<1>3. \A h \in Goroutine : task[h].at # "locked"
  BY <1>1, ObserverAssumption DEF FigureInv, Goroutine
<1>4. /\ clock \in Nat /\ latencyAt \in Nat /\ latencyAt <= clock /\ TTL \in Nat /\ Len(log) \in Nat
      /\ DOMAIN log = 1..Len(log) /\ \A i \in DOMAIN log : log[i].at \in Nat
  <2>1. log \in Seq([d : Duration, at : Nat])
    BY DEF RingInv
  <2>2. Len(log) \in Nat /\ DOMAIN log = 1..Len(log) /\ \A i \in DOMAIN log : log[i].at \in Nat
    <3>1. Len(log) \in Nat /\ DOMAIN log = 1..Len(log)
      BY <2>1
    <3>2. \A i \in 1..Len(log) : log[i] \in [d : Duration, at : Nat]
      BY <2>1, ElementOfSeq
    <3> QED
      BY <3>1, <3>2
  <2> QED
    BY <2>2, ObserverAssumption DEF PeakInv, FigureInv
<1>5. ASSUME NEW n \in 0..Len(log), \A i \in Old : i <= n
      PROVE  Since(clock) \in 0..n
  <2>1. Old \subseteq 1..n
    BY <1>4, <1>5
  <2>2. IsFiniteSet(1..n) /\ Cardinality(1..n) = n
    BY FS_Interval
  <2> HIDE DEF Old
  <2>3. Cardinality(Old) <= n /\ IsFiniteSet(Old)
    BY <2>1, <2>2, FS_Subset
  <2>4. Cardinality(Old) \in Nat
    BY <2>3, FS_CardinalityType
  <2> QED
    BY <2>3, <2>4 DEF Since, Old
<1>6. Since(clock) \in 0..Len(log)
  BY <1>4, <1>5
<1>7. t.at = "locked" /\ t.now = clock /\ t.since = Since(clock)
  OBVIOUS
<1> HIDE DEF t
<1>8. \A h \in Goroutine : task'[h].at = "locked" => h = g
  BY <1>2, <1>3
<1>9. \A n : Figures(n)' = Figures(n)
  BY <1>1 DEF Figures
<1>10. ASSUME NEW n \in 0..Len(log), CachedAs(n) PROVE CachedAs(n)'
  <2>1. ASSUME clock - latencyAt < TTL PROVE Since(clock) <= n
    <3>1. \A i \in Old : log[i].at < latencyAt
      BY <1>4, <2>1
    <3>2. \A i \in Old : i <= n
      BY <1>10, <3>1 DEF CachedAs
    <3>3. Since(clock) \in 0..n
      BY <1>5, <3>2
    <3> QED
      BY <3>3
  <2>2. \A h \in Goroutine : task'[h].at = "locked" /\ task'[h].now - latencyAt < TTL
                               => task'[h].since <= n
    BY <1>2, <1>7, <1>8, <2>1
  <2> QED
    BY <1>1, <1>9, <1>10, <2>2 DEF CachedAs
<1>11. \A h \in Goroutine : task'[h].at = "done" => task'[h] = task[h]
  BY <1>2, <1>7
<1>12. \A h \in Goroutine : task'[h].at = "locked" =>
          /\ latencyMu' = h /\ latencyAt <= task'[h].now /\ task'[h].now <= clock
          /\ task'[h].since \in 0..Len(log)
  BY <1>1, <1>2, <1>4, <1>6, <1>7, <1>8
<1> QED
  BY <1>1, <1>4, <1>9, <1>10, <1>11, <1>12 DEF FigureInv

\* Ranked now, the figures have every record; found fresh, they have those that count.
LEMMA SummariseFigures ==
    ASSUME RingInv, PeakInv, FigureInv, NEW g \in Goroutine, Summarise(g)
    PROVE  FigureInv'
<1> DEFINE now == task[g].now
           stale == latencyAt = 0 \/ now - latencyAt >= TTL
           t == [at |-> "done", since |-> task[g].since, p |-> latencyCached']
           N == Len(log)
<1>1. /\ task[g].at = "locked"
      /\ latencyCached' = IF stale THEN Percentiles ELSE latencyCached
      /\ latencyAt' = IF stale THEN now ELSE latencyAt
      /\ latencyMu' = Nobody /\ task' = [task EXCEPT ![g] = t] /\ clock' = clock /\ log' = log
  BY DEF Summarise, Set, ring
<1>2. /\ task' = [h \in Goroutine |-> task'[h]]
      /\ task'[g] = t /\ \A h \in Goroutine \ {g} : task'[h] = task[h]
  BY <1>1 DEF PeakInv
<1>3. /\ latencyMu = g /\ latencyAt <= now /\ now <= clock /\ task[g].since \in 0..N
      /\ now \in Nat /\ latencyAt \in Nat /\ clock \in Nat /\ TTL \in Nat
  BY <1>1, ObserverAssumption DEF FigureInv, PeakInv, TaskOK
<1>4. \A h \in Goroutine \ {g} : task[h].at # "locked"
  BY <1>3 DEF FigureInv
<1>5. log \in Seq([d : Duration, at : Nat]) /\ N \in Nat /\ DOMAIN log = 1..N
  BY DEF RingInv
<1>6. \A n : Figures(n)' = Figures(n)
  BY <1>1 DEF Figures
<1>7. t.at = "done" /\ t.since = task[g].since /\ t.p = latencyCached'
  OBVIOUS
<1>8. Percentiles = Figures(N)
  <2>1. SubSeq(log, 1, N) = log
    BY <1>5
  <2> QED
    BY <2>1, PercentilesRight DEF Figures
<1> HIDE DEF t, N
<1>9. \A h \in Goroutine : task'[h].at # "locked"
  BY <1>2, <1>4, <1>7
<1>10. ASSUME stale
       PROVE  \E n \in task[g].since..N : CachedAs(n)' /\ latencyCached' = Figures(n)
  <2>1. PICK n : n = N
    OBVIOUS
  <2>2. latencyCached' = Figures(n) /\ latencyCached' = Figures(n)'
    BY <1>1, <1>6, <1>8, <1>10, <2>1
  <2>3. DOMAIN log' = 1..n
    BY <1>1, <1>5, <2>1
  <2>4. CachedAs(n)'
    BY <1>5, <1>9, <2>1, <2>2, <2>3 DEF CachedAs
  <2>5. n \in task[g].since..N
    BY <1>3, <1>5, <2>1
  <2> QED
    BY <2>2, <2>4, <2>5
<1>11. ASSUME ~stale
       PROVE  \E n \in task[g].since..N : CachedAs(n)' /\ latencyCached' = Figures(n)
  <2>1. PICK n \in 0..N : CachedAs(n)
    BY <1>11 DEF FigureInv, N
  <2>2. now - latencyAt < TTL
    BY <1>3, <1>11
  <2>3. task[g].since <= n
    BY <1>1, <2>1, <2>2 DEF CachedAs
  <2>4. CachedAs(n)' /\ latencyCached' = Figures(n)
    BY <1>1, <1>6, <1>9, <1>11, <2>1 DEF CachedAs
  <2>5. n \in task[g].since..N
    BY <1>3, <1>5, <2>3
  <2> QED
    BY <2>4, <2>5
<1>12. PICK n \in task[g].since..N : CachedAs(n)' /\ latencyCached' = Figures(n)
  <2>1. CASE stale
    BY <1>10, <2>1
  <2>2. CASE ~stale
    BY <1>11, <2>2
  <2> QED
    BY <2>1, <2>2
<1>13. n \in 0..N
  BY <1>3, <1>5
<1>14. latencyAt' <= clock
  BY <1>1, <1>3
<1>15. ASSUME NEW h \in Goroutine, task'[h].at = "done"
       PROVE  /\ task'[h].since \in Nat
              /\ \E m \in task'[h].since..N : task'[h].p = Figures(m)
  <2>1. CASE h = g
    BY <1>2, <1>3, <1>5, <1>7, <1>12, <2>1
  <2>2. CASE h # g
    BY <1>2, <1>15, <2>2 DEF FigureInv, N
  <2> QED
    BY <2>1, <2>2
<1> QED
  BY <1>1, <1>6, <1>9, <1>12, <1>13, <1>14, <1>15 DEF FigureInv, N

LEMMA StepFigures == RingInv /\ PeakInv /\ FigureInv /\ [Next]_vars => FigureInv'
<1> SUFFICES ASSUME RingInv, PeakInv, FigureInv, [Next]_vars PROVE FigureInv'
  OBVIOUS
<1>1. CASE Tick \/ UNCHANGED vars
  <2>1. /\ task' = task /\ latencyAt' = latencyAt /\ latencyCached' = latencyCached
        /\ latencyMu' = latencyMu /\ log' = log
    BY <1>1 DEF Tick, vars, cache, ring
  <2>2. clock \in Nat /\ clock' \in Nat /\ clock <= clock' /\ latencyAt \in Nat
    BY <1>1 DEF Tick, vars, PeakInv
  <2>3. \A n : Figures(n)' = Figures(n)
    BY <2>1 DEF Figures
  <2>4. \A n : CachedAs(n) => CachedAs(n)'
    BY <2>1, <2>3 DEF CachedAs
  <2>5. \A g \in Goroutine : task[g].at = "locked" => task[g].now \in Nat
    BY DEF PeakInv, TaskOK
  <2>6. latencyAt' <= clock' /\ \A g \in Goroutine : task[g].at = "locked" => task[g].now <= clock'
    BY <2>1, <2>2, <2>5 DEF FigureInv
  <2> QED
    BY <2>1, <2>3, <2>4, <2>6 DEF FigureInv
<1>2. CASE \E d \in Duration : Record(d)
  BY <1>2, RecordFigures
<1>3. ASSUME NEW g \in Goroutine, ReadMemory(g) \/ AdvancePeak(g) \/ Finish(g) PROVE FigureInv'
  <2>1. UNCHANGED <<clock, ring, cache>>
    BY <1>3 DEF ReadMemory, AdvancePeak, Finish
  <2>2. \E t : task' = [task EXCEPT ![g] = t] /\ t.at \notin {"locked", "done"}
    <3>1. CASE ReadMemory(g)
      BY <3>1 DEF ReadMemory, Set
    <3>2. CASE AdvancePeak(g)
      <4> DEFINE sys == task[g].sys
                 peak == IF sys > peakSys THEN sys ELSE peakSys
                 t == IF g = Collector THEN Idle ELSE [at |-> "peak", sys |-> sys, peak |-> peak]
      <4>1. task' = [task EXCEPT ![g] = t]
        BY <3>2 DEF AdvancePeak, Set
      <4>2. t.at \in {"idle", "peak"}
        BY DEF Idle
      <4> HIDE DEF t
      <4> QED
        BY <4>1, <4>2
    <3>3. CASE Finish(g)
      <4>1. task' = [task EXCEPT ![g] = Idle] /\ Idle.at = "idle"
        BY <3>3 DEF Finish, Set, Idle
      <4> QED
        BY <4>1
    <3> QED
      BY <1>3, <3>1, <3>2, <3>3
  <2>3. PICK t : task' = [task EXCEPT ![g] = t] /\ t.at \notin {"locked", "done"}
    BY <2>2
  <2> QED
    BY <2>1, <2>3, MoveFigures
<1>4. ASSUME NEW g \in Goroutine, LockLatency(g) PROVE FigureInv'
  BY <1>4, LockFigures
<1>5. ASSUME NEW g \in Goroutine, Summarise(g) PROVE FigureInv'
  BY <1>5, SummariseFigures
<1> QED
  BY <1>1, <1>2, <1>3, <1>4, <1>5 DEF Next, Proceed

\* Whichever view ranked them, the figures a view shows are the window's at one moment,
\* and everything recorded the cache's life before the view asked is in them.
THEOREM FiguresRecent == Spec => []FiguresAreRecent
<1>1. FigureInv => FiguresAreRecent
  BY DEF FigureInv, FiguresAreRecent, Figures, Goroutine
<1> QED
  BY <1>1, InitFigures, StepFigures, RingAlways, PeakAlways, PTL DEF Spec

-----------------------------------------------------------------------------
(* Types *)

\* Indices stay inside the ring, only goroutines hold the cache's lock, and what a
\* goroutine carries is of its kind.
THEOREM ObserverTypeOK == Spec => []TypeOK
<1>1. RingInv /\ PeakInv => TypeOK
  <2> SUFFICES ASSUME RingInv, PeakInv PROVE TypeOK
    OBVIOUS
  <2>1. filled \in 0..Size
    BY ObserverAssumption, LenProperties DEF RingInv
  <2> QED
    BY <2>1 DEF RingInv, PeakInv, TypeOK
<1> QED
  BY <1>1, RingAlways, PeakAlways, PTL

=============================================================================
