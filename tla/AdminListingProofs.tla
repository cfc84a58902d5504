------------------------- MODULE AdminListingProofs -------------------------
(***************************************************************************)
(* Whatever signs in, upgrades or goes away while the pages are read, and  *)
(* whatever the pages hold, the reaper's candidates were due, and a        *)
(* complete listing misses no more of those due than were deleted while it *)
(* was read.  The second counts: the page numbered n holds the identities  *)
(* with between (n - 1) * PerPage and n * PerPage newer ones, and it is    *)
(* full if there are that many.                                            *)
(***************************************************************************)
EXTENDS AdminListing, FiniteSetTheorems, TLAPS

\* Those of age that are listed, or still may be, were due: identities become
\* anonymous when they are created, and what is created during a walk is younger
\* than its cutoff.
NobodyTooYoung ==
    walk.at # "idle" =>
        /\ \A u \in anon : u <= walk.cutoff => u \in walk.due
        /\ \A u \in walk.out : u <= walk.cutoff => u \in walk.due

IInv == TypeOK /\ NobodyTooYoung

LEMMA WalkUnderWay ==
    ASSUME TypeOK, walk.at # "idle"
    PROVE  walk \in Walk
BY DEF TypeOK, Idle

LEMMA InitIInv == Init => IInv
BY ListingAssumption DEF Init, IInv, TypeOK, NobodyTooYoung, Idle

\* The walk's numbers are below the next identity.
LEMMA SignInStep == ASSUME IInv, SignIn PROVE IInv'
<1>f. /\ created < MaxUsers /\ created' = created + 1 /\ created \in Nat
      /\ users' = users \cup {created + 1} /\ anon' = anon \cup {created + 1} /\ walk' = walk
  BY ListingAssumption DEF SignIn, IInv, TypeOK
<1>t. /\ users \subseteq 1..created /\ anon \subseteq users /\ walk \in Walk \cup {Idle}
      /\ MaxUsers \in Nat
  BY ListingAssumption DEF IInv, TypeOK
<1>1. created' \in 0..MaxUsers /\ users' \subseteq 1..created' /\ anon' \subseteq users'
  BY <1>f, <1>t
<1>2. 1..created \subseteq 1..(created + 1) /\ 0..created \subseteq 0..(created + 1)
  BY <1>f
<1>3. walk' \in Walk' \cup {Idle}
  <2>1. CASE walk = Idle
    BY <1>f, <2>1
  <2>2. CASE walk \in Walk
    <3>1. /\ walk.cutoff \in 0..(created + 1) /\ walk.out \in SUBSET (1..(created + 1))
          /\ walk.due \in SUBSET (1..(created + 1))
      BY <1>2, <2>2 DEF Walk
    <3> QED
      BY <1>f, <2>2, <3>1 DEF Walk
  <2> QED
    BY <1>t, <2>1, <2>2
<1>4. NobodyTooYoung'
  <2>1. CASE walk.at = "idle"
    BY <1>f, <2>1 DEF NobodyTooYoung
  <2>2. CASE walk.at # "idle"
    <3>1. walk.cutoff \in 0..created
      BY <2>2, WalkUnderWay DEF IInv, Walk
    <3> QED
      BY <1>f, <3>1 DEF IInv, NobodyTooYoung
  <2> QED
    BY <2>1, <2>2
<1> QED
  BY <1>1, <1>3, <1>4 DEF IInv, TypeOK

LEMMA UpgradeStep == ASSUME IInv, NEW u \in users, Upgrade(u) PROVE IInv'
BY DEF Upgrade, IInv, TypeOK, NobodyTooYoung, Walk

\* What a step of the walk, or one that counts in it, must keep.
LEMMA WalkStep ==
    ASSUME IInv, created' = created, users' \subseteq users, anon' \subseteq anon,
           anon' \subseteq users', walk' \in Walk \cup {Idle},
           walk'.at # "idle" =>
             /\ \A u \in anon : u <= walk'.cutoff => u \in walk'.due
             /\ \A u \in walk'.out : u <= walk'.cutoff => u \in walk'.due
    PROVE  IInv'
<1>1. Walk' = Walk
  BY DEF Walk
<1> QED
  BY <1>1 DEF IInv, TypeOK, NobodyTooYoung

LEMMA DeleteStep == ASSUME IInv, NEW u \in users, Delete(u) PROVE IInv'
<1>f. /\ created' = created /\ users' = users \ {u} /\ anon' = anon \ {u}
      /\ anon \subseteq users
  BY DEF Delete, IInv, TypeOK
<1>1. CASE walk.at = "idle"
  <2>1. walk' = walk
    BY <1>1 DEF Delete
  <2> QED
    BY <1>f, <1>1, <2>1, WalkStep DEF IInv, TypeOK
<1>2. CASE walk.at # "idle"
  <2>1. walk \in Walk
    BY <1>2, WalkUnderWay DEF IInv
  <2>2. walk' = [walk EXCEPT !.removed = @ + 1]
    BY <1>2 DEF Delete
  <2>3. walk' \in Walk /\ walk'.cutoff = walk.cutoff /\ walk'.due = walk.due /\ walk'.out = walk.out
    BY <2>1, <2>2 DEF Walk
  <2> QED
    BY <1>f, <1>2, <2>3, WalkStep DEF IInv, NobodyTooYoung
<1> QED
  BY <1>1, <1>2

\* The cutoff and the ones it makes due are taken together.
LEMMA StartStep == ASSUME IInv, Start PROVE IInv'
<1>1. PICK cutoff \in 0..created :
        walk' = [at |-> "reading", page |-> 1, out |-> {}, cutoff |-> cutoff,
                 due |-> {u \in anon : u <= cutoff}, removed |-> 0]
  BY DEF Start
<1>2. created' = created /\ users' = users /\ anon' = anon
  BY DEF Start
<1>3. anon \subseteq users /\ users \subseteq 1..created /\ 1 \in 1..(MaxPages + 1)
  BY ListingAssumption DEF IInv, TypeOK
<1>4. walk' \in Walk
  BY <1>1, <1>3 DEF Walk
<1>5. /\ \A u \in anon : u <= walk'.cutoff => u \in walk'.due
      /\ walk'.out = {}
  BY <1>1
<1> QED
  BY <1>2, <1>3, <1>4, <1>5, WalkStep

\* Whatever a page holds, only its anonymous ones are taken.
LEMMA ReadPageStep == ASSUME IInv, ReadPage PROVE IInv'
<1> DEFINE p == Page(walk.page)
<1>1. walk.at # "idle" /\ walk.page <= MaxPages /\ created' = created /\ users' = users /\ anon' = anon
  BY DEF ReadPage
<1>2. walk \in Walk
  BY <1>1, WalkUnderWay DEF IInv
<1>3. walk' = [walk EXCEPT !.out = @ \cup (p \cap anon),
                           !.page = @ + 1,
                           !.at = IF Cardinality(p) < PerPage THEN "listed" ELSE @]
  BY DEF ReadPage
<1> HIDE DEF p
<1>4. anon \subseteq users /\ anon \subseteq 1..created /\ walk.page + 1 \in 1..(MaxPages + 1)
  BY <1>1, <1>2, ListingAssumption DEF IInv, TypeOK, Walk
<1>5. walk' \in Walk /\ walk'.cutoff = walk.cutoff /\ walk'.due = walk.due
      /\ walk'.out = walk.out \cup (p \cap anon)
  BY <1>2, <1>3, <1>4 DEF Walk
<1>6. /\ \A u \in anon : u <= walk.cutoff => u \in walk.due
      /\ \A u \in walk.out : u <= walk.cutoff => u \in walk.due
  BY <1>1 DEF IInv, NobodyTooYoung
<1> QED
  BY <1>1, <1>4, <1>5, <1>6, WalkStep

LEMMA StepIInv == IInv /\ [Next]_vars => IInv'
<1> SUFFICES ASSUME IInv, [Next]_vars PROVE IInv'
  OBVIOUS
<1>1. CASE GiveUp \/ Done
  <2>1. created' = created /\ users' = users /\ anon' = anon /\ walk' = Idle /\ walk'.at = "idle"
    BY <1>1 DEF GiveUp, Done, Idle
  <2>2. anon \subseteq users
    BY DEF IInv, TypeOK
  <2> QED
    BY <2>1, <2>2, WalkStep
<1>2. CASE UNCHANGED vars
  BY <1>2 DEF vars, IInv, TypeOK, NobodyTooYoung, Walk
<1> QED
  BY <1>1, <1>2, SignInStep, UpgradeStep, DeleteStep, StartStep, ReadPageStep DEF Next

\* A walk reads no page past the last allowed one, its candidates exist or existed, and
\* they were anonymous and old enough when the pass took its cutoff, whatever happened
\* between the pages.
THEOREM ListingIsSound == Spec => [](TypeOK /\ CandidatesWereDue)
<1>1. IInv => TypeOK /\ CandidatesWereDue
  BY DEF IInv, NobodyTooYoung, CandidatesWereDue, Candidates
<1> QED
  BY <1>1, InitIInv, StepIInv, PTL DEF Spec

-----------------------------------------------------------------------------
(* Counting.  Among finitely many numbers each has its own count of larger  *)
(* ones, and exactly k of them have fewer than k, if there are as many.     *)

Above(S, v) == {x \in S : x > v}

Head(S, k) == {v \in S : Cardinality(Above(S, v)) < k}

\* That a finite set of numbers has a greatest one comes down to the strict subsets of
\* a finite set being well founded.
LEMMA Greatest ==
    ASSUME NEW S \in SUBSET Int, IsFiniteSet(S), S # {}
    PROVE  \E m \in S : \A v \in S : v <= m
<1> DEFINE F == {Above(S, v) : v \in S}
<1>1. IsWellFoundedOn(StrictSubsetOrdering(S), FiniteSubsetsOf(S))
  BY FS_StrictSubsetOrderingWellFounded
<1>2. F \subseteq FiniteSubsetsOf(S) /\ F # {}
  <2>1. \A v \in S : Above(S, v) \in FiniteSubsetsOf(S)
    BY FS_FiniteSubsetsOfFinite DEF Above
  <2> QED
    BY <2>1
<1>3. PICK T \in F : \A U \in F : <<U, T>> \notin StrictSubsetOrdering(S)
  <2> HIDE DEF F
  <2> QED
    BY <1>1, <1>2, WFMin
<1>4. PICK m \in S : T = Above(S, m)
  BY <1>3
<1>5. ASSUME NEW v \in S, v > m PROVE FALSE
  <2>1. Above(S, v) \in F /\ v \in T /\ v \notin Above(S, v)
    BY <1>4, <1>5 DEF Above
  <2>2. ASSUME NEW x \in S, x > v PROVE x > m
    BY <1>5, <2>2
  <2>3. Above(S, v) \subseteq T
    BY <1>4, <2>2 DEF Above
  <2>4. <<Above(S, v), T>> \in StrictSubsetOrdering(S)
    BY <1>4, <2>1, <2>3 DEF StrictSubsetOrdering, Above
  <2> QED
    BY <1>3, <2>1, <2>4
<1> QED
  BY <1>5

LEMMA Least ==
    ASSUME NEW S \in SUBSET Int, IsFiniteSet(S), S # {}
    PROVE  \E m \in S : \A v \in S : m <= v
<1> DEFINE B(v) == {x \in S : x < v}
<1> DEFINE F == {B(v) : v \in S}
<1>1. IsWellFoundedOn(StrictSubsetOrdering(S), FiniteSubsetsOf(S))
  BY FS_StrictSubsetOrderingWellFounded
<1>2. F \subseteq FiniteSubsetsOf(S) /\ F # {}
  <2>1. \A v \in S : B(v) \in FiniteSubsetsOf(S)
    BY FS_FiniteSubsetsOfFinite
  <2> QED
    BY <2>1
<1>3. PICK T \in F : \A U \in F : <<U, T>> \notin StrictSubsetOrdering(S)
  <2> HIDE DEF F
  <2> QED
    BY <1>1, <1>2, WFMin
<1>4. PICK m \in S : T = B(m)
  BY <1>3
<1>5. ASSUME NEW v \in S, v < m PROVE FALSE
  <2>1. B(v) \in F /\ v \in T /\ v \notin B(v)
    BY <1>4, <1>5
  <2>2. ASSUME NEW x \in S, x < v PROVE x < m
    BY <1>5, <2>2
  <2>3. B(v) \subseteq T
    BY <1>4, <2>2
  <2>4. <<B(v), T>> \in StrictSubsetOrdering(S)
    BY <1>4, <2>1, <2>3 DEF StrictSubsetOrdering
  <2> QED
    BY <1>3, <2>1, <2>4
<1> QED
  BY <1>5

\* A set and a part of it.
LEMMA CountPart ==
    ASSUME NEW S, IsFiniteSet(S), NEW T \in SUBSET S
    PROVE  /\ IsFiniteSet(T) /\ Cardinality(T) \in Nat /\ Cardinality(S) \in Nat
           /\ Cardinality(T) <= Cardinality(S)
BY FS_Subset, FS_CardinalityType

LEMMA AboveFinite ==
    ASSUME NEW S, IsFiniteSet(S), NEW v
    PROVE  IsFiniteSet(Above(S, v)) /\ Cardinality(Above(S, v)) \in Nat
BY CountPart DEF Above

LEMMA FewerAbove ==
    ASSUME NEW S \in SUBSET Int, IsFiniteSet(S), NEW v \in S, NEW w \in S, v < w
    PROVE  Cardinality(Above(S, w)) < Cardinality(Above(S, v))
<1>1. Above(S, w) \subseteq Above(S, v)
  <2>1. ASSUME NEW x \in S, x > w PROVE x > v
    BY <2>1
  <2> QED
    BY <2>1 DEF Above
<1>2. w \in Above(S, v) /\ w \notin Above(S, w)
  BY DEF Above
<1>3. /\ Cardinality(Above(S, w)) <= Cardinality(Above(S, v))
      /\ Cardinality(Above(S, w)) # Cardinality(Above(S, v))
  BY <1>1, <1>2, AboveFinite, FS_Subset
<1> QED
  BY <1>3, AboveFinite

LEMMA HeadAtMost ==
    ASSUME NEW S \in SUBSET Int, IsFiniteSet(S), NEW k \in Nat
    PROVE  IsFiniteSet(Head(S, k)) /\ Cardinality(Head(S, k)) \in Nat
           /\ Cardinality(Head(S, k)) <= k
<1>1. Head(S, k) \subseteq S /\ IsFiniteSet(Head(S, k)) /\ Cardinality(Head(S, k)) \in Nat
  BY CountPart DEF Head
<1>2. CASE Head(S, k) = {}
  BY <1>1, <1>2, FS_EmptySet
<1>3. CASE Head(S, k) # {}
  <2>1. PICK m \in Head(S, k) : \A v \in Head(S, k) : m <= v
    BY <1>1, <1>3, Least
  <2>2. m \in S /\ Cardinality(Above(S, m)) < k
    BY <2>1 DEF Head
  <2>3. Head(S, k) \subseteq Above(S, m) \cup {m}
    <3> SUFFICES ASSUME NEW v \in Head(S, k), v # m PROVE v \in Above(S, m)
      OBVIOUS
    <3>1. v \in S /\ v \in Int /\ m \in Int /\ m <= v
      BY <1>1, <2>1, <2>2
    <3> QED
      BY <3>1 DEF Above
  <2>4. /\ IsFiniteSet(Above(S, m) \cup {m})
        /\ Cardinality(Above(S, m) \cup {m}) = Cardinality(Above(S, m)) + 1
    <3>1. IsFiniteSet(Above(S, m)) /\ m \notin Above(S, m)
      BY <2>2, AboveFinite DEF Above
    <3> QED
      BY <3>1, FS_AddElement
  <2>5. Cardinality(Head(S, k)) <= Cardinality(Above(S, m)) + 1
    BY <2>3, <2>4, FS_Subset
  <2> QED
    BY <1>1, <2>2, <2>5, AboveFinite
<1> QED
  BY <1>2, <1>3

LEMMA HeadFull ==
    ASSUME NEW S \in SUBSET Int, IsFiniteSet(S), NEW k \in Nat,
           NEW u \in S, Cardinality(Above(S, u)) >= k
    PROVE  Cardinality(Head(S, k)) >= k
<1> DEFINE C == {v \in S : Cardinality(Above(S, v)) >= k}
<1>1. C \subseteq S /\ IsFiniteSet(C) /\ C # {}
  BY CountPart
<1>2. PICK m \in C : \A v \in C : v <= m
  BY <1>1, Greatest
<1>3. Above(S, m) \subseteq Head(S, k)
  <2> SUFFICES ASSUME NEW v \in S, v > m PROVE Cardinality(Above(S, v)) < k
    BY DEF Above, Head
  <2>1. v \notin C
    BY <1>1, <1>2
  <2> QED
    BY <2>1, AboveFinite
<1>4. Cardinality(Above(S, m)) <= Cardinality(Head(S, k))
  BY <1>3, HeadAtMost, FS_Subset
<1> QED
  BY <1>2, <1>4, AboveFinite, HeadAtMost

-----------------------------------------------------------------------------
(* The listing is nearly complete.                                          *)

\* How many identities are listed before the page the walk is about to read.
Cursor == (walk.page - 1) * PerPage

\* Those the walk should have found by now, and did not.
Missing == {u \in walk.due \cap anon : u \notin walk.out /\ Before(u) < Cursor}

FewMissing ==
    /\ walk.at # "idle" => \A u \in walk.due : u <= walk.cutoff
    /\ walk.at = "reading" => Cardinality(Missing) <= walk.removed
    /\ MissesNoMoreThanRemoved

LEMMA Listed ==
    ASSUME TypeOK
    PROVE  /\ IsFiniteSet(users) /\ users \in SUBSET Int
           /\ anon \subseteq users /\ IsFiniteSet(anon)
           /\ \A u : Before(u) = Cardinality(Above(users, u)) /\ Before(u) \in Nat
<1>1. IsFiniteSet(1..created)
  BY FS_Interval DEF TypeOK
<1>2. IsFiniteSet(users) /\ users \in SUBSET Int /\ anon \subseteq users /\ IsFiniteSet(anon)
  <2>1. users \subseteq 1..created /\ anon \subseteq users
    BY DEF TypeOK
  <2>2. IsFiniteSet(users)
    BY <1>1, <2>1, FS_Subset
  <2>3. IsFiniteSet(anon)
    BY <2>1, <2>2, FS_Subset
  <2> QED
    BY <2>1, <2>2, <2>3
<1> QED
  BY <1>2, AboveFinite DEF Before, Above

\* The page between two cursors, and when it is the last.
LEMMA PageBounds ==
    ASSUME TypeOK, NEW n \in Nat \ {0}, NEW c, c = (n - 1) * PerPage
    PROVE  /\ c \in Nat /\ ((n + 1) - 1) * PerPage = c + PerPage
           /\ \A u \in users : u \in Page(n) <=> c <= Before(u) /\ Before(u) < c + PerPage
<1>0. PerPage \in Nat \ {0}
  BY ListingAssumption
<1>1. c \in Nat /\ ((n + 1) - 1) * PerPage = c + PerPage
  BY <1>0
<1>2. ASSUME NEW b \in Nat
      PROVE  b \div PerPage = n - 1 <=> (n - 1) * PerPage <= b /\ b < (n - 1) * PerPage + PerPage
  BY <1>0
<1> QED
  BY <1>1, <1>2, Listed DEF Page

LEMMA LastPage ==
    ASSUME TypeOK, NEW n \in Nat \ {0}, NEW c, c = (n - 1) * PerPage,
           Cardinality(Page(n)) < PerPage, NEW u \in users
    PROVE  Before(u) < c + PerPage
<1>0. PerPage \in Nat \ {0} /\ c \in Nat
  BY ListingAssumption, PageBounds
<1> SUFFICES ASSUME Before(u) >= c + PerPage PROVE FALSE
  BY <1>0, Listed
<1>1. Cardinality(Head(users, c + PerPage)) >= c + PerPage
  BY <1>0, Listed, HeadFull
<1>2. Cardinality(Head(users, c)) <= c /\ IsFiniteSet(Head(users, c))
  BY <1>0, Listed, HeadAtMost
<1>3. IsFiniteSet(Page(n)) /\ Cardinality(Page(n)) \in Nat
  BY Listed, CountPart DEF Page
<1>4. Head(users, c + PerPage) \subseteq Head(users, c) \cup Page(n)
  BY <1>0, PageBounds, Listed DEF Head
<1> DEFINE A == Head(users, c)
           B == Page(n)
           H == Head(users, c + PerPage)
<1>5. /\ Cardinality(A) \in Nat /\ Cardinality(A) <= c /\ IsFiniteSet(A)
      /\ Cardinality(B) \in Nat /\ Cardinality(B) < PerPage /\ IsFiniteSet(B)
      /\ Cardinality(H) >= c + PerPage /\ H \subseteq A \cup B
  BY <1>1, <1>2, <1>3, <1>4, FS_CardinalityType
<1> HIDE DEF A, B, H
<1>6. /\ IsFiniteSet(A \cup B)
      /\ Cardinality(A \cup B) = Cardinality(A) + Cardinality(B) - Cardinality(A \cap B)
  BY <1>5, FS_Union
<1>7. Cardinality(A \cap B) \in Nat
  BY <1>5, CountPart
<1>8. Cardinality(H) <= Cardinality(A \cup B) /\ Cardinality(H) \in Nat
  BY <1>5, <1>6, CountPart
<1> QED
  BY <1>0, <1>5, <1>6, <1>7, <1>8

LEMMA InitFew == Init => FewMissing
BY DEF Init, FewMissing, MissesNoMoreThanRemoved, Idle

\* A step that leaves the walk alone and lists nobody earlier hides nobody.
LEMMA QuietFew ==
    ASSUME TypeOK, FewMissing, walk' = walk,
           \A u \in anon' \cap walk.due : u \in anon /\ (Before(u) <= Before(u)'),
           \A u \in anon' \cap walk.due : Before(u)' \in Nat
    PROVE  FewMissing'
<1>1. ASSUME walk.at = "reading" PROVE Cardinality(Missing') <= walk.removed
  <2>1. walk \in Walk /\ Cursor \in Int /\ Cursor' = Cursor
    BY <1>1, WalkUnderWay, ListingAssumption DEF Cursor, Walk
  <2>2. Missing' \subseteq Missing
    BY <2>1, Listed DEF Missing
  <2>3. IsFiniteSet(Missing)
    BY Listed, CountPart DEF Missing
  <2>4. Cardinality(Missing') <= Cardinality(Missing)
    BY <2>2, <2>3, FS_Subset
  <2>5. Cardinality(Missing) <= walk.removed
    BY <1>1 DEF FewMissing
  <2>6. Cardinality(Missing') \in Nat /\ Cardinality(Missing) \in Nat /\ walk.removed \in Nat
    BY <2>1, <2>2, <2>3, CountPart DEF Walk
  <2> QED
    BY <2>4, <2>5, <2>6
<1>2. ASSUME walk.at = "listed"
      PROVE  Cardinality((walk.due \cap anon') \ Candidates) <= walk.removed
  <2> DEFINE M == (walk.due \cap anon) \ Candidates
             N == (walk.due \cap anon') \ Candidates
  <2>1. N \subseteq M /\ IsFiniteSet(M)
    BY Listed, CountPart
  <2>2. Cardinality(M) <= walk.removed /\ walk.removed \in Nat
    BY <1>2, WalkUnderWay DEF FewMissing, MissesNoMoreThanRemoved, Walk
  <2> HIDE DEF M, N
  <2>3. Cardinality(N) <= Cardinality(M) /\ Cardinality(N) \in Nat /\ Cardinality(M) \in Nat
    BY <2>1, CountPart
  <2>4. Cardinality(N) <= walk.removed
    BY <2>2, <2>3
  <2> QED
    BY <2>4 DEF N
<1>3. Candidates' = Candidates
  BY DEF Candidates
<1> QED
  BY <1>1, <1>2, <1>3 DEF FewMissing, MissesNoMoreThanRemoved

\* Who signs in is listed before the others and was not due.
LEMMA SignInFew == ASSUME TypeOK, FewMissing, SignIn, TypeOK' PROVE FewMissing'
<1>0. /\ created' = created + 1 /\ created \in Nat /\ users' = users \cup {created + 1}
      /\ anon' = anon \cup {created + 1} /\ walk' = walk
  BY ListingAssumption DEF SignIn, TypeOK
<1>1. ASSUME walk.at # "idle" PROVE walk.due \subseteq 1..created
  BY <1>1, WalkUnderWay DEF Walk
<1>2. CASE walk.at = "idle"
  BY <1>0, <1>2 DEF FewMissing, MissesNoMoreThanRemoved
<1>3. CASE walk.at # "idle"
  <2>1. \A u \in anon' \cap walk.due : u \in anon
    BY <1>0, <1>1, <1>3
  <2>2. \A u \in anon' \cap walk.due : Before(u) <= Before(u)' /\ Before(u)' \in Nat
    <3> SUFFICES ASSUME NEW u \in anon' \cap walk.due
                 PROVE  Before(u) <= Before(u)' /\ Before(u)' \in Nat
      OBVIOUS
    <3>1. Above(users, u) \subseteq Above(users', u) /\ IsFiniteSet(users')
      BY <1>0, Listed, FS_AddElement DEF Above
    <3>2. Before(u)' = Cardinality(Above(users', u))
      BY DEF Before, Above
    <3> QED
      BY <3>1, <3>2, Listed, AboveFinite, FS_Subset
  <2> QED
    BY <1>0, <2>1, <2>2, QuietFew
<1> QED
  BY <1>2, <1>3

LEMMA UpgradeFew == ASSUME TypeOK, FewMissing, NEW u \in users, Upgrade(u) PROVE FewMissing'
<1>1. walk' = walk /\ anon' \subseteq anon /\ users' = users
  BY DEF Upgrade
<1>2. \A v \in anon' \cap walk.due : Before(v)' = Before(v)
  BY <1>1 DEF Before
<1> QED
  BY <1>1, <1>2, Listed, QuietFew

\* A deletion moves one more of the older identities behind the cursor, at most.
LEMMA DeleteFew == ASSUME TypeOK, FewMissing, NEW d \in users, Delete(d) PROVE FewMissing'
<1>0. users' = users \ {d} /\ anon' = anon \ {d}
  BY DEF Delete
<1>1. CASE walk.at = "idle"
  BY <1>1 DEF Delete, FewMissing, MissesNoMoreThanRemoved
<1>2. CASE walk.at # "idle"
  <2>1. walk \in Walk
    BY <1>2, WalkUnderWay
  <2>2. walk' = [walk EXCEPT !.removed = @ + 1]
    BY <1>2 DEF Delete
  <2>3. /\ walk'.at = walk.at /\ walk'.page = walk.page /\ walk'.out = walk.out
        /\ walk'.due = walk.due /\ walk'.cutoff = walk.cutoff
        /\ walk'.removed = walk.removed + 1 /\ walk.removed \in Nat
    BY <2>1, <2>2 DEF Walk
  <2>4. Cursor' = Cursor /\ Cursor \in Nat
    <3>1. walk.page \in Nat \ {0} /\ PerPage \in Nat
      BY <2>1, ListingAssumption DEF Walk
    <3> QED
      BY <2>3, <3>1 DEF Cursor
  <2>5. \A v \in users : Before(v) <= Before(v)' + 1 /\ Before(v)' \in Nat
    <3> SUFFICES ASSUME NEW v \in users PROVE Before(v) <= Before(v)' + 1 /\ Before(v)' \in Nat
      OBVIOUS
    <3>1. Before(v)' = Cardinality(Above(users, v) \ {d})
      <4>1. Above(users', v) = Above(users, v) \ {d}
        BY <1>0 DEF Above
      <4>2. Before(v)' = Cardinality(Above(users', v))
        BY DEF Before, Above
      <4> QED
        BY <4>1, <4>2
    <3>a. PICK A : A = Above(users, v)
      OBVIOUS
    <3>2. IsFiniteSet(A) /\ Cardinality(A) \in Nat /\ Before(v) = Cardinality(A)
      BY <3>a, Listed, AboveFinite
    <3>3. /\ IsFiniteSet(A \ {d})
          /\ Cardinality(A \ {d}) = Cardinality(A) \/ Cardinality(A \ {d}) = Cardinality(A) - 1
      BY <3>2, FS_RemoveElement
    <3>4. Cardinality(A \ {d}) \in Nat
      BY <3>3, FS_CardinalityType
    <3> QED
      BY <3>a, <3>1, <3>2, <3>3, <3>4
  <2>6. ASSUME walk.at = "reading" PROVE Cardinality(Missing') <= walk.removed + 1
    <3>1. IsFiniteSet(Missing) /\ Cardinality(Missing) \in Nat /\ Cardinality(Missing) <= walk.removed
      BY <2>6, Listed, CountPart DEF Missing, FewMissing
    <3> DEFINE New == {v \in users : Before(v) = Cursor}
    <3>2. \A v, w \in New : v = w
      <4> SUFFICES ASSUME NEW v \in New, NEW w \in New, v < w PROVE FALSE
        BY Listed
      <4>1. Before(w) < Before(v)
        BY Listed, FewerAbove
      <4> QED
        BY <4>1, Listed
    <3>3. Missing' \subseteq Missing \cup New
      BY <1>0, <2>3, <2>4, <2>5, Listed DEF Missing
    <3> HIDE DEF New
    <3>4. PICK w : Missing' \subseteq Missing \cup {w}
      BY <3>2, <3>3
    <3>5. /\ IsFiniteSet(Missing \cup {w}) /\ Cardinality(Missing \cup {w}) \in Nat
          /\ Cardinality(Missing \cup {w}) <= Cardinality(Missing) + 1
      <4>1. /\ IsFiniteSet(Missing \cup {w})
            /\ \/ Cardinality(Missing \cup {w}) = Cardinality(Missing)
               \/ Cardinality(Missing \cup {w}) = Cardinality(Missing) + 1
        BY <3>1, FS_AddElement
      <4> QED
        BY <3>1, <4>1
    <3>6. Cardinality(Missing') <= Cardinality(Missing \cup {w}) /\ Cardinality(Missing') \in Nat
      BY <3>4, <3>5, CountPart
    <3> QED
      BY <2>3, <3>1, <3>5, <3>6
  <2>7. ASSUME walk.at = "listed"
        PROVE  Cardinality((walk.due \cap anon') \ Candidates) <= walk.removed + 1
    <3> DEFINE M == (walk.due \cap anon) \ Candidates
               N == (walk.due \cap anon') \ Candidates
    <3>1. N \subseteq M /\ IsFiniteSet(M)
      BY <1>0, Listed, CountPart
    <3>2. Cardinality(M) <= walk.removed
      BY <2>7 DEF FewMissing, MissesNoMoreThanRemoved
    <3> HIDE DEF M, N
    <3>3. Cardinality(N) <= Cardinality(M) /\ Cardinality(N) \in Nat /\ Cardinality(M) \in Nat
      BY <3>1, CountPart
    <3>4. Cardinality(N) <= walk.removed + 1
      BY <2>3, <3>2, <3>3
    <3> QED
      BY <3>4 DEF N
  <2>8. Candidates' = Candidates
    BY <2>3 DEF Candidates
  <2> QED
    BY <2>3, <2>6, <2>7, <2>8 DEF FewMissing, MissesNoMoreThanRemoved
<1> QED
  BY <1>1, <1>2

LEMMA StartFew == ASSUME TypeOK, Start PROVE FewMissing'
<1>1. PICK cutoff \in 0..created :
        walk' = [at |-> "reading", page |-> 1, out |-> {}, cutoff |-> cutoff,
                 due |-> {u \in anon : u <= cutoff}, removed |-> 0]
  BY DEF Start
<1>2. users' = users /\ anon' = anon
  BY DEF Start
<1>3. \A u \in users : Before(u)' \in Nat
  BY <1>2, Listed DEF Before
<1>4. Cursor' = 0
  BY <1>1, ListingAssumption DEF Cursor
<1>5. Missing' = {}
  BY <1>1, <1>2, <1>3, <1>4, Listed DEF Missing
<1> QED
  BY <1>1, <1>5, FS_EmptySet DEF FewMissing, MissesNoMoreThanRemoved

\* A page that is read hides nobody on it; one that is not full is the last.
LEMMA ReadPageFew == ASSUME TypeOK, FewMissing, ReadPage PROVE FewMissing'
<1>1. /\ walk.at = "reading" /\ walk.page <= MaxPages
      /\ created' = created /\ users' = users /\ anon' = anon
  BY DEF ReadPage
<1>2. walk \in Walk
  BY <1>1, WalkUnderWay
<1>p. PICK p : p = Page(walk.page)
  OBVIOUS
<1>3. walk' = [walk EXCEPT !.out = @ \cup (p \cap anon),
                           !.page = @ + 1,
                           !.at = IF Cardinality(p) < PerPage THEN "listed" ELSE @]
  BY <1>p DEF ReadPage
<1>4. /\ walk'.cutoff = walk.cutoff /\ walk'.due = walk.due /\ walk'.removed = walk.removed
      /\ walk'.out = walk.out \cup (p \cap anon) /\ walk'.page = walk.page + 1
      /\ walk'.at = IF Cardinality(p) < PerPage THEN "listed" ELSE "reading"
  BY <1>1, <1>2, <1>3 DEF Walk
<1>5. /\ Cursor \in Nat /\ Cursor' = Cursor + PerPage
      /\ \A u \in users : u \in p <=> Cursor <= Before(u) /\ Before(u) < Cursor + PerPage
  <2>1. walk.page \in Nat \ {0}
    BY <1>2, ListingAssumption DEF Walk
  <2> QED
    BY <1>4, <1>p, <2>1, PageBounds DEF Cursor
<1>6. \A u \in users : Before(u)' = Before(u)
  BY <1>1 DEF Before
<1>7. Missing' \subseteq Missing
  BY <1>1, <1>4, <1>5, <1>6, Listed, ListingAssumption DEF Missing
<1>8. /\ Cardinality(Missing') <= walk.removed /\ IsFiniteSet(Missing')
      /\ Cardinality(Missing') \in Nat /\ walk.removed \in Nat
  <2>1. IsFiniteSet(Missing) /\ Cardinality(Missing) <= walk.removed
    BY <1>1, Listed, CountPart DEF Missing, FewMissing
  <2>2. Cardinality(Missing') <= Cardinality(Missing) /\ IsFiniteSet(Missing')
        /\ Cardinality(Missing') \in Nat /\ Cardinality(Missing) \in Nat
    BY <1>7, <2>1, CountPart
  <2>3. walk.removed \in Nat
    BY <1>2 DEF Walk
  <2> QED
    BY <2>1, <2>2, <2>3
<1>9. ASSUME walk'.at = "listed"
      PROVE  Cardinality(((walk.due \cap anon) \ Candidates)') <= walk.removed
  <2>1. Cardinality(p) < PerPage
    BY <1>4, <1>9
  <2>2. \A u \in users : Before(u) < Cursor + PerPage
    <3>1. walk.page \in Nat \ {0}
      BY <1>2, ListingAssumption DEF Walk
    <3> QED
      BY <1>p, <2>1, <3>1, LastPage DEF Cursor
  <2>3. ((walk.due \cap anon) \ Candidates)' \subseteq Missing'
    BY <1>1, <1>4, <1>5, <1>6, <2>2, Listed DEF Missing, Candidates, FewMissing
  <2>4. Cardinality(((walk.due \cap anon) \ Candidates)') <= Cardinality(Missing')
        /\ Cardinality(((walk.due \cap anon) \ Candidates)') \in Nat
    BY <1>8, <2>3, CountPart
  <2> QED
    BY <1>8, <2>4
<1> QED
  BY <1>1, <1>4, <1>8, <1>9 DEF FewMissing, MissesNoMoreThanRemoved

LEMMA StepFew == TypeOK /\ FewMissing /\ [Next]_vars /\ TypeOK' => FewMissing'
<1> SUFFICES ASSUME TypeOK, FewMissing, [Next]_vars, TypeOK' PROVE FewMissing'
  OBVIOUS
<1>1. CASE GiveUp \/ Done
  BY <1>1 DEF GiveUp, Done, Idle, FewMissing, MissesNoMoreThanRemoved
<1>2. CASE UNCHANGED vars
  BY <1>2 DEF vars, FewMissing, MissesNoMoreThanRemoved, Missing, Before, Cursor, Candidates
<1> QED
  BY <1>1, <1>2, SignInFew, UpgradeFew, DeleteFew, StartFew, ReadPageFew DEF Next

\* Each deletion during the walk hides at most one of the identities that are due, and
\* nothing else does: pages of any size, any number of sign-ins and upgrades.
THEOREM ListingNearlyComplete == Spec => []MissesNoMoreThanRemoved
<1>1. IInv => TypeOK
  BY DEF IInv
<1>2. FewMissing => MissesNoMoreThanRemoved
  BY DEF FewMissing
<1> QED
  BY <1>1, <1>2, InitIInv, StepIInv, InitFew, StepFew, PTL DEF Spec

=============================================================================
