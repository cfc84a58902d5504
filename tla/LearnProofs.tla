---------------------------- MODULE LearnProofs ----------------------------
(***************************************************************************)
(* The quiz and the widget, for any questions, topics, tabs and users, and *)
(* for any size of the window that is read on entry.                       *)
(*                                                                         *)
(* A tab keeps no list of what it has been past, and other tabs of its     *)
(* user answer meanwhile.  That "done" is right comes from the run: a walk *)
(* enters it where everything before has been attempted, leaves a question *)
(* only by answering it, and follows links that step by one (Walked).  The *)
(* widget's figures are ordered because the history only grows (Figures),  *)
(* and what a tab has read of the history on entry stays a part of it      *)
(* (Entered).                                                              *)
(*                                                                         *)
(* What quizRun collects is shown by induction over the questions: a set   *)
(* of numbers with 0 in it that is closed under the next one (UpTo).       *)
(***************************************************************************)
EXTENDS Learn, FiniteSetTheorems, SequenceTheorems, TLAPS

-----------------------------------------------------------------------------
(* numbers *)

Below(S, v) == {x \in S : x < v}

\* Where there is a number there is a smallest one.
LEMMA Smallest ==
    ASSUME NEW S, S # {}, NEW n \in Nat, S \subseteq 0..n
    PROVE  \E m \in S : \A v \in S : m <= v
<1> DEFINE F == {Below(S, v) : v \in S}
<1>0. IsFiniteSet(S)
  <2>1. IsFiniteSet(0..n)
    BY FS_Interval
  <2> QED
    BY <2>1, FS_Subset
<1>1. IsWellFoundedOn(StrictSubsetOrdering(S), FiniteSubsetsOf(S))
  BY <1>0, FS_StrictSubsetOrderingWellFounded
<1>2. F \subseteq FiniteSubsetsOf(S) /\ F # {}
  <2>1. \A v \in S : Below(S, v) \in FiniteSubsetsOf(S)
    BY <1>0, FS_FiniteSubsetsOfFinite DEF Below
  <2> QED
    BY <2>1
<1>3. PICK T \in F : \A U \in F : <<U, T>> \notin StrictSubsetOrdering(S)
  <2> HIDE DEF F
  <2> QED
    BY <1>1, <1>2, WFMin
<1>4. PICK m \in S : T = Below(S, m)
  BY <1>3
<1>5. ASSUME NEW v \in S, v < m PROVE FALSE
  <2>1. Below(S, v) \in F /\ v \in T /\ v \notin Below(S, v)
    BY <1>4, <1>5 DEF Below
  <2>2. \A x \in S : x < v => x < m
    BY <1>5
  <2>3. Below(S, v) \subseteq T
    BY <1>4, <2>2 DEF Below
  <2>4. <<Below(S, v), T>> \in StrictSubsetOrdering(S)
    BY <2>1, <2>3, <1>4 DEF StrictSubsetOrdering, Below
  <2> QED
    BY <1>3, <2>1, <2>4
<1>6. \A v \in S : m <= v
  BY <1>5
<1> QED
  BY <1>6

\* Induction up to n, for the members of a set.
LEMMA UpTo ==
    ASSUME NEW n \in Nat, NEW S, 0 \in S, \A m \in 1..n : m - 1 \in S => m \in S
    PROVE  0..n \subseteq S
<1> DEFINE Out == {m \in 0..n : m \notin S}
<1>1. SUFFICES ASSUME Out # {} PROVE FALSE
  OBVIOUS
<1>2. PICK m \in Out : \A v \in Out : m <= v
  BY <1>1, Smallest
<1>3. m \in 1..n /\ m - 1 \in 0..n
  BY <1>2
<1> QED
  BY <1>2, <1>3

\* Integer division rounds down.
LEMMA DivBelow ==
    ASSUME NEW x \in Nat, NEW k \in Nat, NEW m \in Nat, m > 0, x < k * m
    PROVE  x \div m \in Nat /\ x \div m < k
<1>1. x \div m \in Nat /\ m * (x \div m) <= x
  OBVIOUS
<1> DEFINE d == x \div m
<1>2. ASSUME d >= k PROVE FALSE
  <2> HIDE DEF d
  <2>1. d \in Nat /\ m * d <= x
    BY <1>1 DEF d
  <2>2. m * d >= m * k
    BY <1>2, <2>1
  <2> QED
    BY <2>1, <2>2
<1> QED
  BY <1>1, <1>2

\* As many as counted, and no more than that: a percentage is at most 100.
LEMMA PercentBounded ==
    ASSUME NEW correct \in Nat, NEW total \in Nat
    PROVE  /\ Percent(correct, total) \in Nat
           /\ correct <= total => Percent(correct, total) <= 100
<1>1. CASE total = 0
  BY <1>1 DEF Percent
<1>2. CASE total # 0
  <2> DEFINE x == 200 * correct + total
             m == 2 * total
  <2>1. x \in Nat /\ m \in Nat /\ m > 0
    BY <1>2
  <2>2. Percent(correct, total) = x \div m
    BY <1>2 DEF Percent
  <2>3. x \div m \in Nat
    BY <2>1
  <2>4. ASSUME correct <= total PROVE x < 101 * m
    BY <1>2, <2>4
  <2> HIDE DEF x, m
  <2> QED
    BY <2>1, <2>2, <2>3, <2>4, DivBelow
<1> QED
  BY <1>1, <1>2

-----------------------------------------------------------------------------
(* the run of a topic *)

Wanted(topic, q) == topic = All \/ Topics[q] = topic

\* What quizRun has collected after the first n questions: those wanted, in order.
Collected(topic, s, n) ==
    /\ s \in Seq(1..n)
    /\ \A i \in 1..Len(s) : \A j \in 1..Len(s) : i < j => s[i] < s[j]
    /\ \A q \in 1..n : Wanted(topic, q) => \E i \in 1..Len(s) : s[i] = q

LEMMA Questions == /\ Len(Topics) \in Nat \ {0}
                   /\ Question = 1..Len(Topics)
BY LearnAssumption DEF Question

\* The loop of quizRun, one equation for each question.
LEMMA RunLoop ==
    ASSUME NEW topic
    PROVE  \E run : /\ Run(topic) = run[Len(Topics)]
                    /\ run[0] = <<>>
                    /\ \A n \in 1..Len(Topics) :
                         run[n] = IF Wanted(topic, n) THEN Append(run[n - 1], n) ELSE run[n - 1]
<1> DEFINE N == Len(Topics)
           Body(run, n) == IF n = 0 THEN <<>>
                           ELSE IF topic = All \/ Topics[n] = topic THEN Append(run[n - 1], n)
                           ELSE run[n - 1]
           Loop(run) == run = [n \in 0..N |-> Body(run, n)]
           S == {m \in 0..N : \E run : /\ run = [n \in 0..N |-> run[n]]
                                       /\ \A n \in 0..m : run[n] = Body(run, n)}
<1>1. N \in Nat
  BY Questions
<1>2. 0 \in S
  <2> DEFINE none == [n \in 0..N |-> <<>>]
  <2>1. none = [n \in 0..N |-> none[n]] /\ none[0] = <<>>
    BY <1>1
  <2> HIDE DEF none
  <2>2. \A n \in 0..0 : none[n] = Body(none, n)
    BY <2>1
  <2> QED
    BY <1>1, <2>1, <2>2
<1>3. ASSUME NEW m \in 1..N, m - 1 \in S PROVE m \in S
  <2>1. PICK run : /\ run = [n \in 0..N |-> run[n]]
                   /\ \A n \in 0..(m - 1) : run[n] = Body(run, n)
    BY <1>3
  <2> DEFINE more == [n \in 0..N |-> IF n = m THEN Body(run, m) ELSE run[n]]
  <2>2. \A n \in 0..N : more[n] = IF n = m THEN Body(run, m) ELSE run[n]
    OBVIOUS
  <2>3. more = [n \in 0..N |-> more[n]]
    OBVIOUS
  <2> HIDE DEF more
  <2>4. ASSUME NEW n \in 0..m PROVE more[n] = Body(more, n)
    <3>1. n # 0 => more[n - 1] = run[n - 1]
      BY <1>1, <2>2, m \in 1..N
    <3>2. more[n] = Body(run, n)
      <4>1. CASE n = m
        BY <1>1, <2>2, <4>1, m \in 1..N
      <4>2. CASE n # m
        <5>1. n \in 0..N /\ n \in 0..(m - 1)
          BY <1>1, <4>2, m \in 1..N
        <5> QED
          BY <2>1, <2>2, <4>2, <5>1
      <4> QED
        BY <4>1, <4>2
    <3> QED
      BY <3>1, <3>2
  <2>5. m \in 0..N
    BY <1>1
  <2> HIDE DEF Body
  <2> QED
    BY <2>3, <2>4, <2>5
<1>4. N \in S
  <2> HIDE DEF S
  <2>1. 0..N \subseteq S
    BY <1>1, <1>2, <1>3, UpTo
  <2> QED
    BY <1>1, <2>1
<1>5. PICK some : Loop(some)
  BY <1>1, <1>4
<1> DEFINE run == CHOOSE run : Loop(run)
<1>6. Loop(run)
  BY <1>5
<1>7. Run(topic) = run[N]
  BY DEF Run
<1> HIDE DEF run
<1>8. \A n \in 0..N : run[n] = Body(run, n)
  BY <1>6
<1>9. run[0] = <<>>
  BY <1>1, <1>8
<1>10. \A n \in 1..N : run[n] = IF Wanted(topic, n) THEN Append(run[n - 1], n) ELSE run[n - 1]
  BY <1>1, <1>8 DEF Wanted
<1> QED
  BY <1>7, <1>9, <1>10

\* One question more.
LEMMA CollectedNext ==
    ASSUME NEW topic, NEW n \in Nat \ {0}, NEW s, Collected(topic, s, n - 1)
    PROVE  Collected(topic, IF Wanted(topic, n) THEN Append(s, n) ELSE s, n)
<1>1. s \in Seq(1..n) /\ s \in Seq(1..(n - 1)) /\ Len(s) \in Nat
  BY DEF Collected
<1>2. CASE ~Wanted(topic, n)
  <2>1. \A q \in 1..n : Wanted(topic, q) => q \in 1..(n - 1)
    BY <1>2
  <2> QED
    BY <1>1, <1>2, <2>1 DEF Collected
<1>3. CASE Wanted(topic, n)
  <2> DEFINE t == Append(s, n)
  <2>1. /\ t \in Seq(1..n) /\ Len(t) = Len(s) + 1 /\ t[Len(s) + 1] = n
        /\ \A i \in 1..Len(s) : t[i] = s[i] /\ s[i] \in 1..(n - 1)
    BY <1>1
  <2> HIDE DEF t
  <2>2. ASSUME NEW i \in 1..Len(t), NEW j \in 1..Len(t), i < j PROVE t[i] < t[j]
    <3>1. i \in 1..Len(s)
      BY <1>1, <2>1, <2>2
    <3>2. CASE j \in 1..Len(s)
      BY <2>1, <2>2, <3>1, <3>2 DEF Collected
    <3>3. CASE j = Len(s) + 1
      BY <2>1, <3>1, <3>3
    <3> QED
      BY <1>1, <2>1, <3>2, <3>3
  <2>3. ASSUME NEW q \in 1..n, Wanted(topic, q) PROVE \E i \in 1..Len(t) : t[i] = q
    <3>1. CASE q = n
      <4>1. Len(t) \in 1..Len(t) /\ t[Len(t)] = q
        BY <1>1, <2>1, <3>1
      <4> QED
        BY <4>1
    <3>2. CASE q \in 1..(n - 1)
      <4>1. PICK i \in 1..Len(s) : s[i] = q
        BY <2>3, <3>2 DEF Collected
      <4> QED
        BY <1>1, <2>1, <4>1
    <3> QED
      BY <3>1, <3>2
  <2> QED
    BY <1>3, <2>1, <2>2, <2>3 DEF Collected, t
<1> QED
  BY <1>2, <1>3

\* quizRun gives the questions of a topic, each once.
LEMMA RunOf == ASSUME NEW topic PROVE Collected(topic, Run(topic), Len(Topics))
<1> DEFINE N == Len(Topics)
<1>1. N \in Nat
  BY Questions
<1>2. PICK run : /\ Run(topic) = run[N]
                 /\ run[0] = <<>>
                 /\ \A n \in 1..N :
                      run[n] = IF Wanted(topic, n) THEN Append(run[n - 1], n) ELSE run[n - 1]
  BY RunLoop
<1> DEFINE S == {n \in 0..N : Collected(topic, run[n], n)}
<1>3. 0 \in S
  <2>1. Collected(topic, <<>>, 0)
    BY DEF Collected
  <2> QED
    BY <1>1, <1>2, <2>1
<1>4. ASSUME NEW n \in 1..N, n - 1 \in S PROVE n \in S
  <2>1. Collected(topic, run[n - 1], n - 1)
    BY <1>4
  <2>2. Collected(topic, IF Wanted(topic, n) THEN Append(run[n - 1], n) ELSE run[n - 1], n)
    BY <1>1, <2>1, CollectedNext
  <2> QED
    BY <1>1, <1>2, <2>2
<1>5. N \in S
  <2> HIDE DEF S
  <2>1. 0..N \subseteq S
    BY <1>1, <1>3, <1>4, UpTo
  <2> QED
    BY <1>1, <2>1
<1> QED
  BY <1>2, <1>5

-----------------------------------------------------------------------------
(* the invariant *)

LookedUp == [at : {"asked"}, topic : Asked]
Chosen == [at : {"chosen"}, topic : Asked \cup {All}, q : Question, walk : BOOLEAN, seen : Nat]
Card == [at : {"found", "card", "recorded"}, topic : Asked \cup {All}, q : Question,
         walk : BOOLEAN]
Answered == [at : {"result", "following"}, topic : Asked \cup {All}, q : Question, walk : BOOLEAN,
             next : Question \cup {0}, score : Nat]
Listed == [at : {"listed"}, rows : 0..Recent]
Totalled == [at : {"totalled"}, rows : 0..Recent, total : Nat, before : Nat]
Shown == [at : {"widget"}, rows : 0..Recent, total : Nat, correct : Nat, percent : Nat, late : Nat]
Attempt == [q : Question, ok : BOOLEAN]

States == {Away} \cup LookedUp \cup Chosen \cup Card \cup Answered \cup Listed \cup Totalled \cup Shown

Typed == attempts \in [User -> Seq(Attempt)] /\ tab \in [Tab -> States]

\* A tab is at a question of its run.  If it came by the links, it has been past all
\* those before: each was answered by then, here or in another tab.
Walked(t) ==
    LET s == tab[t] u == Owner[t] run == Run(s.topic)
    IN  s.at \in {"chosen", "found", "card", "recorded", "result", "following"} =>
            /\ \E i \in 1..Len(run) :
                /\ run[i] = s.q
                /\ s.walk => \A j \in 1..(i - 1) : Attempted(u, run[j])
            /\ s.at \in {"recorded", "result", "following"} => Attempted(u, s.q)
            /\ s.at \in {"result", "following"} => s.next = NextOf(s.topic, s.q)
            /\ s.at = "following" => s.next # 0

\* u had attempted q when it had made n attempts.
Early(u, n, q) == \E k \in 1..n : attempts[u][k].q = q

\* The topic that is asked for has a question.  The one chosen had no attempt, of those
\* there were, if they fitted the window and left any.
Entered(t) ==
    LET s == tab[t] u == Owner[t]
    IN  /\ s.at = "asked" => \E q \in Question : Topics[q] = s.topic
        /\ s.at = "chosen" =>
              /\ s.seen <= Len(attempts[u])
              /\ s.seen <= Window =>
                    \/ ~Early(u, s.seen, s.q)
                    \/ \A q \in Question : Topics[q] = s.topic => Early(u, s.seen, q)

\* The history only grows, so each figure is bounded by the ones read after it.
Figures(t) ==
    LET s == tab[t] n == Len(attempts[Owner[t]])
    IN  /\ s.at = "listed" => s.rows <= n
        /\ s.at = "totalled" => s.rows <= s.total /\ s.total = s.before /\ s.before <= n
        /\ s.at = "widget" => /\ s.rows <= s.total /\ s.correct <= s.total + s.late
                              /\ s.late = 0 => s.percent <= 100

IInv == Typed /\ \A t \in Tab : Walked(t) /\ Entered(t) /\ Figures(t)

LEMMA InitIInv == Init => IInv
<1> SUFFICES ASSUME Init PROVE IInv
  OBVIOUS
<1>1. Typed
  BY DEF Init, Typed, States
<1>2. ASSUME NEW t \in Tab PROVE Walked(t) /\ Entered(t) /\ Figures(t)
  BY DEF Init, Walked, Entered, Figures, Away
<1> QED
  BY <1>1, <1>2 DEF IInv

-----------------------------------------------------------------------------
(* what the handlers compute *)

\* The link of a result leads to the question after it in its run.
LEMMA NextQuestion ==
    ASSUME NEW topic, NEW i \in 1..Len(Run(topic))
    PROVE  NextOf(topic, Run(topic)[i]) = IF i = Len(Run(topic)) THEN 0 ELSE Run(topic)[i + 1]
<1> DEFINE run == Run(topic)
<1>1. /\ run \in Seq(1..Len(Topics)) /\ Len(run) \in Nat /\ DOMAIN run = 1..Len(run)
      /\ \A j \in 1..Len(run) : \A k \in 1..Len(run) : j < k => run[j] < run[k]
  BY RunOf DEF Collected
<1> HIDE DEF run
<1>2. \A j \in 1..Len(run) : run[j] = run[i] => j = i
  <2>1. Len(Topics) \in Nat
    BY Questions
  <2>2. \A j \in 1..Len(run) : run[j] \in 1..Len(Topics)
    BY <1>1
  <2> QED
    BY <1>1, <2>1, <2>2 DEF run
<1> DEFINE idx == CHOOSE j \in DOMAIN Run(topic) : Run(topic)[j] = Run(topic)[i]
<1>3. idx = i
  BY <1>1, <1>2 DEF run
<1>4. NextOf(topic, Run(topic)[i]) = IF idx = Len(Run(topic)) THEN 0 ELSE Run(topic)[idx + 1]
  BY DEF NextOf
<1> HIDE DEF idx
<1> QED
  BY <1>3, <1>4

LEMMA NextTyped ==
    ASSUME NEW topic, NEW i \in 1..Len(Run(topic))
    PROVE  /\ Run(topic)[i] \in Question
           /\ NextOf(topic, Run(topic)[i]) \in Question \cup {0}
<1> DEFINE run == Run(topic)
<1>1. run \in Seq(Question) /\ Len(run) \in Nat
  BY RunOf, Questions DEF Collected
<1>2. run[i] \in Question /\ (i # Len(run) => run[i + 1] \in Question)
  <2> HIDE DEF run
  <2>1. i \in 1..Len(run) /\ (i # Len(run) => i + 1 \in 1..Len(run))
    BY <1>1 DEF run
  <2> QED
    BY <1>1, <2>1
<1> QED
  BY <1>2, NextQuestion

\* Every topic a handler works with has a question.
LEMMA RunNotEmpty ==
    ASSUME NEW topic, topic = All \/ \E q \in Question : Topics[q] = topic
    PROVE  1 \in 1..Len(Run(topic))
<1>1. PICK q \in 1..Len(Topics) : Wanted(topic, q)
  BY Questions DEF Wanted
<1> QED
  BY <1>1, RunOf DEF Collected

\* A list of attempts has one of question q.
Holds(list, q) == \E k \in DOMAIN list : list[k].q = q

\* ListQuizAttemptsByUser: the latest n, or all there are.
LEMMA ListOf ==
    ASSUME Typed, NEW u \in User, NEW n \in Nat
    PROVE  LET list == ListAttempts(u, n)
           IN  /\ Len(list) \in 0..n
               /\ Len(list) <= Len(attempts[u])
               /\ \A q : Holds(list, q) => Attempted(u, q)
               /\ Len(attempts[u]) <= n => list = attempts[u]
<1> DEFINE s == attempts[u]
           from == IF Len(s) > n THEN Len(s) - n + 1 ELSE 1
<1>1. s \in Seq(Attempt) /\ Len(s) \in Nat /\ DOMAIN s = 1..Len(s)
  BY DEF Typed
<1> DEFINE list == SubSeq(s, from, Len(s))
<1>2. ListAttempts(u, n) = list
  BY DEF ListAttempts
<1> HIDE DEF s
<1>3. from \in 1..(Len(s) + 1) /\ (Len(s) <= n => from = 1)
  BY <1>1
<1>4. /\ list \in Seq(Attempt) /\ Len(list) = Len(s) - from + 1
      /\ \A k \in 1..Len(list) : list[k] = s[from + k - 1]
  <2>1. \A k \in from..Len(s) : s[k] \in Attempt
    BY <1>1, <1>3
  <2>2. /\ list \in Seq(Attempt)
        /\ Len(list) = IF from <= Len(s) THEN Len(s) - from + 1 ELSE 0
        /\ \A k \in 1..(Len(s) - from + 1) : list[k] = s[from + k - 1]
    <3> HIDE DEF from
    <3> QED
      BY <1>1, <1>3, <2>1, SubSeqProperties
  <2> HIDE DEF from, list
  <2> QED
    BY <1>1, <1>3, <2>2
<1>5. Len(list) \in 0..n /\ Len(list) <= Len(s)
  BY <1>1, <1>3, <1>4
<1>6. ASSUME NEW q, Holds(list, q) PROVE Attempted(u, q)
  <2>0. PICK k \in DOMAIN list : list[k].q = q
    BY <1>6 DEF Holds
  <2>1. from + k - 1 \in DOMAIN s /\ list[k] = s[from + k - 1]
    <3> HIDE DEF from, list
    <3>1. k \in 1..Len(list)
      BY <1>4
    <3>2. from + k - 1 \in 1..Len(s)
      BY <1>1, <1>3, <1>4, <3>1
    <3> QED
      BY <1>1, <1>4, <3>1, <3>2
  <2> QED
    BY <2>0, <2>1 DEF Attempted, s
<1>7. Len(s) <= n => list = s
  BY <1>1, <1>3, SubSeqFull
<1> HIDE DEF list
<1> QED
  BY <1>2, <1>5, <1>6, <1>7 DEF s

\* firstUnattempted: everything before it is in the list, and if it is, everything is.
LEMMA FirstOf ==
    ASSUME NEW run, NEW list, Len(run) \in Nat, DOMAIN run = 1..Len(run), 1 \in 1..Len(run)
    PROVE  LET i == FirstUnattempted(run, list)
           IN  /\ i \in 1..Len(run)
               /\ \A j \in 1..(i - 1) : Holds(list, run[j])
               /\ Holds(list, run[i]) => \A j \in 1..Len(run) : Holds(list, run[j])
<1> DEFINE fresh == {i \in DOMAIN run : \A k \in DOMAIN list : list[k].q # run[i]}
           first == CHOOSE i \in fresh : \A j \in fresh : i <= j
<1>1. FirstUnattempted(run, list) = IF fresh = {} THEN 1 ELSE first
  BY DEF FirstUnattempted
<1>2. \A i \in 1..Len(run) : i \in fresh <=> ~Holds(list, run[i])
  BY DEF Holds
<1>3. CASE fresh = {}
  BY <1>1, <1>2, <1>3
<1>4. CASE fresh # {}
  <2>1. fresh \subseteq 0..Len(run)
    OBVIOUS
  <2>2. \E m \in fresh : \A v \in fresh : m <= v
    <3> HIDE DEF fresh
    <3> QED
      BY <1>4, <2>1, Smallest
  <2>3. first \in fresh /\ \A j \in fresh : first <= j
    <3> HIDE DEF fresh
    <3> QED
      BY <2>2
  <2>4. first \in 1..Len(run) /\ ~Holds(list, run[first])
    <3>1. fresh \subseteq 1..Len(run)
      OBVIOUS
    <3> HIDE DEF first, fresh
    <3> QED
      BY <1>2, <2>3, <3>1
  <2>5. ASSUME NEW j \in 1..(first - 1) PROVE Holds(list, run[j])
    <3> HIDE DEF first, fresh
    <3>1. j \in 1..Len(run) /\ j < first
      BY <2>4
    <3> QED
      BY <1>2, <2>3, <2>4, <3>1
  <2> HIDE DEF first, fresh
  <2> QED
    BY <1>1, <1>4, <2>4, <2>5
<1> QED
  BY <1>3, <1>4

\* CountCorrectAttemptsByUser counts some of the attempts.
LEMMA CorrectBounded ==
    ASSUME Typed, NEW u \in User
    PROVE  Correct(u) \in Nat /\ Correct(u) <= Len(attempts[u])
<1> DEFINE n == Len(attempts[u])
           right == {k \in DOMAIN attempts[u] : attempts[u][k].ok}
<1>1. n \in Nat /\ DOMAIN attempts[u] = 1..n
  BY DEF Typed
<1>2. right \subseteq 1..n
  BY <1>1
<1> HIDE DEF right
<1>3. IsFiniteSet(1..n) /\ Cardinality(1..n) = n
  BY <1>1, FS_Interval
<1>4. Cardinality(right) <= n /\ Cardinality(right) \in Nat
  BY <1>2, <1>3, FS_Subset, FS_CardinalityType
<1> QED
  BY <1>4 DEF Correct, right

\* Attempted, once the step is made.
AttemptedNow(u, q) == \E k \in DOMAIN attempts'[u] : attempts'[u][k].q = q

\* Nothing takes an attempt back.
LEMMA HistoryGrows ==
    ASSUME Typed, NEW u \in User, NEW a \in Attempt,
           attempts' = [attempts EXCEPT ![u] = Append(@, a)]
    PROVE  /\ attempts' \in [User -> Seq(Attempt)]
           /\ \A v \in User : /\ Len(attempts[v]) \in Nat /\ Len(attempts'[v]) \in Nat
                              /\ Len(attempts[v]) <= Len(attempts'[v])
           /\ \A v \in User : \A k \in 1..Len(attempts[v]) : attempts'[v][k] = attempts[v][k]
           /\ \A v \in User : \A q : Attempted(v, q) => AttemptedNow(v, q)
           /\ AttemptedNow(u, a.q)
<1>1. \A v \in User : /\ attempts[v] \in Seq(Attempt)
                      /\ attempts'[v] = IF v = u THEN Append(attempts[v], a) ELSE attempts[v]
  BY DEF Typed
<1>2. attempts' \in [User -> Seq(Attempt)]
  BY DEF Typed
<1>3. \A v \in User : /\ Len(attempts[v]) \in Nat /\ Len(attempts'[v]) \in Nat
                      /\ Len(attempts[v]) <= Len(attempts'[v])
  BY <1>1
<1>4. ASSUME NEW v \in User, NEW k \in 1..Len(attempts[v])
      PROVE  k \in DOMAIN attempts'[v] /\ attempts'[v][k] = attempts[v][k]
  BY <1>1
<1>5. ASSUME NEW v \in User, NEW q, Attempted(v, q) PROVE AttemptedNow(v, q)
  <2>1. PICK k \in 1..Len(attempts[v]) : attempts[v][k].q = q
    BY <1>1, <1>5 DEF Attempted
  <2> QED
    BY <1>4, <2>1 DEF AttemptedNow
<1>6. AttemptedNow(u, a.q)
  <2> DEFINE s == attempts[u]
  <2>1. s \in Seq(Attempt) /\ attempts'[u] = Append(s, a)
    BY <1>1
  <2> HIDE DEF s
  <2>2. /\ Len(s) + 1 \in DOMAIN Append(s, a)
        /\ Append(s, a)[Len(s) + 1] = a
    BY <2>1
  <2> QED
    BY <2>1, <2>2 DEF Attempted, AttemptedNow
<1> QED
  BY <1>2, <1>3, <1>4, <1>5, <1>6

-----------------------------------------------------------------------------
(* the steps *)

\* What a step leaves of the history.
Grown ==
    /\ attempts' \in [User -> Seq(Attempt)]
    /\ \A v \in User : Len(attempts[v]) \in Nat /\ Len(attempts'[v]) \in Nat
                       /\ Len(attempts[v]) <= Len(attempts'[v])
    /\ \A v \in User : \A k \in 1..Len(attempts[v]) : attempts'[v][k] = attempts[v][k]
    /\ \A v \in User : \A q : Attempted(v, q) => AttemptedNow(v, q)

LEMMA Kept == ASSUME Typed, UNCHANGED attempts PROVE Grown
BY DEF Typed, Grown, Attempted, AttemptedNow

LEMMA Shapes ==
    ASSUME Typed, NEW t \in Tab
    PROVE  /\ Owner[t] \in User
           /\ tab[t].at = "asked" <=> tab[t] \in LookedUp
           /\ tab[t].at = "chosen" <=> tab[t] \in Chosen
           /\ tab[t].at \in {"found", "card", "recorded"} <=> tab[t] \in Card
           /\ tab[t].at \in {"result", "following"} <=> tab[t] \in Answered
           /\ tab[t].at = "listed" <=> tab[t] \in Listed
           /\ tab[t].at = "totalled" <=> tab[t] \in Totalled
           /\ tab[t].at = "widget" <=> tab[t] \in Shown
BY LearnAssumption DEF Typed, States, Away, LookedUp, Chosen, Card, Answered, Listed, Totalled, Shown

\* Early, once the step is made.
EarlyNow(u, n, q) == \E k \in 1..n : attempts'[u][k].q = q

\* What was in the history stays where it was.
LEMMA EarlyStays ==
    ASSUME Grown, NEW u \in User, NEW n \in Nat, n <= Len(attempts[u]), NEW q
    PROVE  EarlyNow(u, n, q) <=> Early(u, n, q)
<1>1. \A k \in 1..n : attempts'[u][k] = attempts[u][k]
  BY DEF Grown
<1> QED
  BY <1>1 DEF Early, EarlyNow

\* A tab that does nothing: others answering does not take away what it has been past.
LEMMA Bystander ==
    ASSUME Typed, NEW t \in Tab, tab'[t] = tab[t], Walked(t), Entered(t), Figures(t), Grown
    PROVE  Walked(t)' /\ Entered(t)' /\ Figures(t)'
<1>1. Owner[t] \in User
  BY Shapes
<1>2. Walked(t)'
  <2> SUFFICES ASSUME tab[t].at \in {"chosen", "found", "card", "recorded", "result",
                                       "following"}
               PROVE  Walked(t)'
    BY DEF Walked
  <2> DEFINE s == tab[t]
             run == Run(s.topic)
  <2>1. PICK i \in 1..Len(run) :
              /\ run[i] = s.q
              /\ s.walk => \A j \in 1..(i - 1) : AttemptedNow(Owner[t], run[j])
    BY <1>1 DEF Walked, Grown
  <2>2. /\ s.at \in {"recorded", "result", "following"} => AttemptedNow(Owner[t], s.q)
        /\ s.at \in {"result", "following"} => s.next = NextOf(s.topic, s.q)
        /\ s.at = "following" => s.next # 0
    BY <1>1 DEF Walked, Grown
  <2> QED
    BY <2>1, <2>2 DEF Walked, Attempted, AttemptedNow
<1>3. Figures(t)'
  <2>1. tab[t].at = "listed" => tab[t].rows \in Nat
    BY Shapes, LearnAssumption DEF Listed
  <2>2. tab[t].at = "totalled" => tab[t].before \in Nat
    BY Shapes DEF Totalled
  <2> QED
    BY <1>1, <2>1, <2>2 DEF Figures, Grown
<1>4. Entered(t)'
  <2> SUFFICES ASSUME tab[t].at \in {"asked", "chosen"} PROVE Entered(t)'
    BY DEF Entered
  <2>1. CASE tab[t].at = "asked"
    BY <2>1 DEF Entered
  <2>2. CASE tab[t].at = "chosen"
    <3>1. tab[t].seen \in Nat /\ tab[t].seen <= Len(attempts[Owner[t]])
      BY <2>2, Shapes DEF Chosen, Entered
    <3>2. \A q : EarlyNow(Owner[t], tab[t].seen, q) <=> Early(Owner[t], tab[t].seen, q)
      BY <1>1, <3>1, EarlyStays
    <3>3. tab[t].seen <= Len(attempts'[Owner[t]])
      BY <1>1, <3>1 DEF Grown
    <3> QED
      <4>1. tab[t].seen <= Window =>
                \/ ~EarlyNow(Owner[t], tab[t].seen, tab[t].q)
                \/ \A q \in Question : Topics[q] = tab[t].topic => EarlyNow(Owner[t], tab[t].seen, q)
        BY <2>2, <3>2 DEF Entered
      <4> QED
        BY <2>2, <3>3, <4>1 DEF Entered, Early, EarlyNow
  <2> QED
    BY <2>1, <2>2
<1> QED
  BY <1>2, <1>3, <1>4

\* A step is of one tab.
LEMMA OneTab ==
    ASSUME IInv, NEW t \in Tab, NEW s \in States, Show(t, s), Grown,
           tab'[t] = s => Walked(t)' /\ Entered(t)' /\ Figures(t)'
    PROVE  IInv'
<1>1. tab' \in [Tab -> States] /\ tab'[t] = s /\ \A v \in Tab \ {t} : tab'[v] = tab[v]
  BY DEF IInv, Typed, Show
<1>2. Typed'
  BY <1>1 DEF Typed, Grown
<1>3. ASSUME NEW v \in Tab PROVE Walked(v)' /\ Entered(v)' /\ Figures(v)'
  BY <1>1, Bystander DEF IInv
<1> QED
  BY <1>2, <1>3 DEF IInv

LEMMA EnterStep == ASSUME IInv, NEW t \in Tab, NEW asked \in Asked, Enter(t, asked) PROVE IInv'
<1> DEFINE topic == Resolve(asked)
           first == [at |-> "found", topic |-> All, q |-> Run(All)[1], walk |-> TRUE]
           looked == [at |-> "asked", topic |-> topic]
           s == IF topic = All THEN first ELSE looked
<1>1. Typed /\ Owner[t] \in User /\ Show(t, s) /\ Grown
  BY Shapes, Kept DEF IInv, Enter
<1>2. 1 \in 1..Len(Run(All)) /\ Run(All)[1] \in Question
  <2>1. 1 \in 1..Len(Run(All))
    BY RunNotEmpty
  <2> QED
    BY <2>1, NextTyped
<1>3. topic # All => topic \in Asked /\ \E q \in Question : Topics[q] = topic
  BY DEF Resolve
<1> HIDE DEF topic
<1>4. s \in States
  BY <1>2, <1>3 DEF States, Card, LookedUp
<1>5. ASSUME tab'[t] = s PROVE Walked(t)' /\ Entered(t)' /\ Figures(t)'
  <2>1. CASE topic = All
    <3>1. tab'[t] = first
      BY <1>5, <2>1
    <3> QED
      BY <1>2, <3>1 DEF Walked, Entered, Figures, Attempted, AttemptedNow
  <2>2. CASE topic # All
    <3>1. tab'[t] = looked
      BY <1>5, <2>2
    <3> QED
      BY <1>3, <2>2, <3>1 DEF Walked, Entered, Figures, Attempted, AttemptedNow
  <2> QED
    BY <2>1, <2>2
<1> HIDE DEF s
<1> QED
  BY <1>1, <1>4, <1>5, OneTab

\* All before the question chosen has been attempted.  If the list is all there is and
\* has that question, it has the whole topic.
LEMMA ChooseStep == ASSUME IInv, NEW t \in Tab, ChooseQuestion(t) PROVE IInv'
<1> DEFINE u == Owner[t]
           topic == tab[t].topic
           run == Run(topic)
           list == ListAttempts(u, Window)
           i == FirstUnattempted(run, list)
           n == Len(attempts[u])
           s == [at |-> "chosen", topic |-> topic, q |-> run[i], walk |-> TRUE, seen |-> n]
<1>1. /\ Typed /\ u \in User /\ tab[t] \in LookedUp /\ Show(t, s) /\ Grown
      /\ attempts' = attempts /\ tab[t].at = "asked"
  BY Shapes, Kept DEF IInv, ChooseQuestion
<1>2. topic \in Asked /\ \E q \in Question : Topics[q] = topic
  BY <1>1 DEF IInv, Entered, LookedUp
<1>3. n \in Nat /\ DOMAIN attempts[u] = 1..n
  BY <1>1 DEF Typed
<1>4. /\ \A q : Holds(list, q) => Attempted(u, q)
      /\ n <= Window => list = attempts[u]
  BY <1>1, ListOf, LearnAssumption
<1> HIDE DEF u, topic, list
<1>5. /\ 1 \in 1..Len(run) /\ Len(run) \in Nat /\ DOMAIN run = 1..Len(run)
      /\ \A q \in Question : Topics[q] = topic => \E j \in 1..Len(run) : run[j] = q
  BY <1>2, RunNotEmpty, RunOf, Questions DEF Collected, Wanted
<1> HIDE DEF run
<1>6. /\ i \in 1..Len(run)
      /\ \A j \in 1..(i - 1) : Holds(list, run[j])
      /\ Holds(list, run[i]) => \A j \in 1..Len(run) : Holds(list, run[j])
  BY <1>5, FirstOf
<1> HIDE DEF i, n
<1>7. run[i] \in Question
  BY <1>6, NextTyped DEF run
<1>8. s \in States
  BY <1>2, <1>3, <1>7 DEF States, Chosen
<1>9. n <= Window => \/ ~Early(u, n, run[i])
                     \/ \A q \in Question : Topics[q] = topic => Early(u, n, q)
  <2> SUFFICES ASSUME n <= Window, Early(u, n, run[i]), NEW q \in Question, Topics[q] = topic
               PROVE  Early(u, n, q)
    OBVIOUS
  <2>1. \A p : Holds(list, p) <=> Early(u, n, p)
    BY <1>3, <1>4 DEF Holds, Early
  <2> QED
    BY <1>5, <1>6, <2>1
<1>10. ASSUME tab'[t] = s PROVE Walked(t)' /\ Entered(t)' /\ Figures(t)'
  <2> HIDE DEF s
  <2>0. /\ s.at = "chosen" /\ s.topic = topic /\ s.q = run[i] /\ s.walk = TRUE /\ s.seen = n
    BY DEF s
  <2>1. Walked(t)'
    <3>1. \A j \in 1..(i - 1) : Attempted(u, run[j])
      BY <1>4, <1>6
    <3> QED
      BY <1>1, <1>6, <1>10, <2>0, <3>1 DEF Walked, Attempted, u, run
  <2>2. Entered(t)'
    BY <1>1, <1>3, <1>9, <1>10, <2>0 DEF Entered, Early, u, n
  <2>3. Figures(t)'
    BY <1>10, <2>0 DEF Figures
  <2> QED
    BY <2>1, <2>2, <2>3
<1> HIDE DEF s
<1> QED
  BY <1>1, <1>8, <1>10, OneTab

LEMMA OpenStep == ASSUME IInv, NEW t \in Tab, NEW q \in Question, Open(t, q) PROVE IInv'
<1> DEFINE s == [at |-> "found", topic |-> All, q |-> q, walk |-> FALSE]
<1>1. Typed /\ Show(t, s) /\ Grown
  BY Kept DEF IInv, Open
<1>2. s \in States
  BY DEF States, Card
<1>3. PICK i \in 1..Len(Run(All)) : Run(All)[i] = q
  BY RunOf, Questions DEF Collected, Wanted
<1>4. ASSUME tab'[t] = s PROVE Walked(t)' /\ Entered(t)' /\ Figures(t)'
  BY <1>3, <1>4 DEF Walked, Entered, Figures, Attempted, AttemptedNow
<1> HIDE DEF s
<1> QED
  BY <1>1, <1>2, <1>4, OneTab

LEMMA RecordStep ==
    ASSUME IInv, NEW t \in Tab, NEW ok \in BOOLEAN, RecordAttempt(t, ok) PROVE IInv'
<1> DEFINE s == [tab[t] EXCEPT !.at = "recorded"]
           a == [q |-> tab[t].q, ok |-> ok]
<1>1. Typed /\ Owner[t] \in User /\ tab[t] \in Card /\ Show(t, s) /\ Walked(t)
  BY Shapes DEF IInv, RecordAttempt
<1>2. a \in Attempt /\ attempts' = [attempts EXCEPT ![Owner[t]] = Append(@, a)]
  BY <1>1 DEF RecordAttempt, Attempt, Card
<1>3. Grown /\ AttemptedNow(Owner[t], tab[t].q)
  <2>1. a.q = tab[t].q
    OBVIOUS
  <2> HIDE DEF a
  <2> QED
    BY <1>1, <1>2, <2>1, HistoryGrows DEF Grown
<1>4. /\ s \in Card /\ s.at = "recorded"
      /\ s.q = tab[t].q /\ s.topic = tab[t].topic /\ s.walk = tab[t].walk
  BY <1>1 DEF Card
<1>5. ASSUME tab'[t] = s PROVE Walked(t)' /\ Entered(t)' /\ Figures(t)'
  <2> HIDE DEF s
  <2>1. PICK i \in 1..Len(Run(s.topic)) :
              /\ Run(s.topic)[i] = s.q
              /\ s.walk => \A j \in 1..(i - 1) : Attempted(Owner[t], Run(s.topic)[j])
    BY <1>1, <1>4 DEF Walked, RecordAttempt, Card
  <2>2. s.walk => \A j \in 1..(i - 1) : AttemptedNow(Owner[t], Run(s.topic)[j])
    BY <1>1, <1>3, <2>1 DEF Grown
  <2> QED
    BY <1>3, <1>4, <1>5, <2>1, <2>2 DEF Walked, Entered, Figures, Attempted, AttemptedNow
<1> HIDE DEF s
<1> QED
  BY <1>1, <1>3, <1>4, <1>5, OneTab DEF States

LEMMA ResultStep == ASSUME IInv, NEW t \in Tab, Result(t) PROVE IInv'
<1> DEFINE s == [at |-> "result", topic |-> tab[t].topic, q |-> tab[t].q, walk |-> tab[t].walk,
                 next |-> NextOf(tab[t].topic, tab[t].q), score |-> Correct(Owner[t])]
<1>1. Typed /\ Owner[t] \in User /\ tab[t] \in Card /\ Show(t, s) /\ Grown /\ tab[t].at = "recorded"
  BY Shapes, Kept DEF IInv, Result
<1>2. PICK i \in 1..Len(Run(tab[t].topic)) :
            /\ Run(tab[t].topic)[i] = tab[t].q
            /\ tab[t].walk => \A j \in 1..(i - 1) : Attempted(Owner[t], Run(tab[t].topic)[j])
  BY <1>1 DEF IInv, Walked
<1>3. NextOf(tab[t].topic, tab[t].q) \in Question \cup {0} /\ Correct(Owner[t]) \in Nat
  BY <1>1, <1>2, NextTyped, CorrectBounded
<1>4. s \in States
  BY <1>1, <1>3 DEF States, Card, Answered
<1>5. ASSUME tab'[t] = s PROVE Walked(t)' /\ Entered(t)' /\ Figures(t)'
  <2>1. tab[t].walk => \A j \in 1..(i - 1) : AttemptedNow(Owner[t], Run(tab[t].topic)[j])
    BY <1>1, <1>2 DEF Grown
  <2>2. AttemptedNow(Owner[t], tab[t].q)
    BY <1>1 DEF IInv, Walked, Grown
  <2> QED
    BY <1>2, <1>5, <2>1, <2>2 DEF Walked, Entered, Figures, Attempted, AttemptedNow
<1> HIDE DEF s
<1> QED
  BY <1>1, <1>4, <1>5, OneTab

LEMMA ResultFailsStep == ASSUME IInv, NEW t \in Tab, ResultFails(t) PROVE IInv'
<1> DEFINE s == [tab[t] EXCEPT !.at = "card"]
<1>1. Typed /\ Owner[t] \in User /\ tab[t] \in Card /\ Show(t, s) /\ Grown /\ tab[t].at = "recorded"
  BY Shapes, Kept DEF IInv, ResultFails
<1>2. /\ s \in Card /\ s.at = "card"
      /\ s.q = tab[t].q /\ s.topic = tab[t].topic /\ s.walk = tab[t].walk
  BY <1>1 DEF Card
<1>3. ASSUME tab'[t] = s PROVE Walked(t)' /\ Entered(t)' /\ Figures(t)'
  <2> HIDE DEF s
  <2>1. PICK i \in 1..Len(Run(s.topic)) :
              /\ Run(s.topic)[i] = s.q
              /\ s.walk => \A j \in 1..(i - 1) : Attempted(Owner[t], Run(s.topic)[j])
    BY <1>1, <1>2 DEF IInv, Walked
  <2>2. s.walk => \A j \in 1..(i - 1) : AttemptedNow(Owner[t], Run(s.topic)[j])
    BY <1>1, <2>1 DEF Grown
  <2> QED
    BY <1>2, <1>3, <2>1, <2>2 DEF Walked, Entered, Figures, Attempted, AttemptedNow
<1> HIDE DEF s
<1> QED
  BY <1>1, <1>2, <1>3, OneTab DEF States

\* Following the link, or being left with the result when that fails.
LEMMA SameResult ==
    ASSUME IInv, NEW t \in Tab, NEW at \in {"result", "following"}, tab[t] \in Answered,
           at = "following" => tab[t].next # 0,
           Show(t, [tab[t] EXCEPT !.at = at]), UNCHANGED attempts
    PROVE  IInv'
<1> DEFINE s == [tab[t] EXCEPT !.at = at]
<1>1. Typed /\ Owner[t] \in User /\ Grown
  BY Shapes, Kept DEF IInv
<1>2. /\ s \in Answered /\ s.at = at /\ s.q = tab[t].q /\ s.topic = tab[t].topic
      /\ s.walk = tab[t].walk /\ s.next = tab[t].next
  BY DEF Answered
<1>3. tab[t].at \in {"result", "following"}
  BY DEF Answered
<1>4. ASSUME tab'[t] = s PROVE Walked(t)' /\ Entered(t)' /\ Figures(t)'
  <2> HIDE DEF s
  <2>1. PICK i \in 1..Len(Run(s.topic)) :
              /\ Run(s.topic)[i] = s.q
              /\ s.walk => \A j \in 1..(i - 1) : Attempted(Owner[t], Run(s.topic)[j])
    BY <1>2, <1>3 DEF IInv, Walked
  <2>2. /\ Attempted(Owner[t], s.q) /\ s.next = NextOf(s.topic, s.q)
        /\ s.at = "following" => s.next # 0
    BY <1>2, <1>3 DEF IInv, Walked
  <2>3. /\ s.walk => \A j \in 1..(i - 1) : AttemptedNow(Owner[t], Run(s.topic)[j])
        /\ AttemptedNow(Owner[t], s.q)
    BY <1>1, <2>1, <2>2 DEF Grown
  <2> QED
    BY <1>2, <1>4, <2>1, <2>2, <2>3 DEF Walked, Entered, Figures, Attempted, AttemptedNow
<1> HIDE DEF s
<1> QED
  BY <1>1, <1>2, <1>4, OneTab DEF States, s

LEMMA FollowNextStep == ASSUME IInv, NEW t \in Tab, FollowNext(t) PROVE IInv'
BY SameResult, Shapes DEF IInv, FollowNext

\* The question the link leads to comes after one that was just answered.
LEMMA ShowCardStep == ASSUME IInv, NEW t \in Tab, ShowCard(t) PROVE IInv'
<1> DEFINE run == Run(tab[t].topic)
           q == IF tab[t].at = "following" THEN tab[t].next ELSE tab[t].q
           s == [at |-> "card", topic |-> tab[t].topic, q |-> q, walk |-> tab[t].walk]
<1>1. /\ Typed /\ Owner[t] \in User /\ Show(t, s) /\ Grown
      /\ tab[t].at \in {"chosen", "found", "following"}
      /\ tab[t] \in Chosen \cup Card \cup Answered
  BY Shapes, Kept DEF IInv, ShowCard
<1>2. PICK i \in 1..Len(run) :
            /\ run[i] = tab[t].q
            /\ tab[t].walk => \A j \in 1..(i - 1) : Attempted(Owner[t], run[j])
  BY <1>1 DEF IInv, Walked
<1>3. \E k \in 1..Len(run) :
         /\ run[k] = q
         /\ tab[t].walk => \A j \in 1..(k - 1) : Attempted(Owner[t], run[j])
  <2>1. CASE tab[t].at # "following"
    BY <1>2, <2>1
  <2>2. CASE tab[t].at = "following"
    <3>1. Attempted(Owner[t], run[i]) /\ tab[t].next = NextOf(tab[t].topic, run[i])
      BY <1>2, <2>2 DEF IInv, Walked
    <3>2. tab[t].next # 0
      BY <2>2 DEF IInv, Walked
    <3>3. i # Len(run) /\ tab[t].next = run[i + 1]
      BY <3>1, <3>2, NextQuestion
    <3>4. Len(run) \in Nat
      BY RunOf DEF Collected
    <3>5. ASSUME tab[t].walk, NEW j \in 1..(i + 1 - 1) PROVE Attempted(Owner[t], run[j])
      <4>1. j = i \/ j \in 1..(i - 1)
        OBVIOUS
      <4> QED
        BY <1>2, <3>1, <3>5, <4>1
    <3>6. i + 1 \in 1..Len(run)
      BY <3>3, <3>4
    <3> QED
      BY <2>2, <3>3, <3>5, <3>6
  <2> QED
    BY <2>1, <2>2
<1>4. q \in Question
  BY <1>3, NextTyped
<1> HIDE DEF q
<1>5. s \in States
  BY <1>1, <1>4 DEF States, Card, Chosen, Answered
<1>6. ASSUME tab'[t] = s PROVE Walked(t)' /\ Entered(t)' /\ Figures(t)'
  <2>1. PICK k \in 1..Len(run) :
              /\ run[k] = q
              /\ tab[t].walk => \A j \in 1..(k - 1) : AttemptedNow(Owner[t], run[j])
    BY <1>1, <1>3 DEF Grown
  <2> QED
    BY <1>6, <2>1 DEF Walked, Entered, Figures, Attempted, AttemptedNow
<1> HIDE DEF s
<1> QED
  BY <1>1, <1>5, <1>6, OneTab

LEMMA ListRecentStep == ASSUME IInv, NEW t \in Tab, ListRecent(t) PROVE IInv'
<1> DEFINE s == [at |-> "listed", rows |-> Len(ListAttempts(Owner[t], Recent))]
<1>1. Typed /\ Owner[t] \in User /\ Show(t, s) /\ Grown /\ attempts' = attempts
  BY Shapes, Kept DEF IInv, ListRecent
<1>2. /\ Len(ListAttempts(Owner[t], Recent)) \in 0..Recent
      /\ Len(ListAttempts(Owner[t], Recent)) <= Len(attempts[Owner[t]])
  BY <1>1, ListOf, LearnAssumption
<1>3. s \in States
  BY <1>2 DEF States, Listed
<1>4. ASSUME tab'[t] = s PROVE Walked(t)' /\ Entered(t)' /\ Figures(t)'
  BY <1>1, <1>2, <1>4 DEF Walked, Entered, Figures, Attempted, AttemptedNow
<1> HIDE DEF s
<1> QED
  BY <1>1, <1>3, <1>4, OneTab

LEMMA TotalStep == ASSUME IInv, NEW t \in Tab, Total(t) PROVE IInv'
<1> DEFINE n == Len(attempts[Owner[t]])
           s == [at |-> "totalled", rows |-> tab[t].rows, total |-> n, before |-> n]
<1>1. /\ Typed /\ Owner[t] \in User /\ tab[t] \in Listed /\ Show(t, s) /\ Grown
      /\ attempts' = attempts /\ tab[t].at = "listed"
  BY Shapes, Kept DEF IInv, Total
<1>2. n \in Nat /\ tab[t].rows <= n
  BY <1>1 DEF IInv, Figures, Grown
<1>3. s \in States
  BY <1>1, <1>2 DEF States, Totalled, Listed
<1>4. ASSUME tab'[t] = s PROVE Walked(t)' /\ Entered(t)' /\ Figures(t)'
  BY <1>1, <1>2, <1>4 DEF Walked, Entered, Figures, Attempted, AttemptedNow
<1> HIDE DEF s
<1> QED
  BY <1>1, <1>3, <1>4, OneTab

\* What was answered since the total was read is in the correct ones only.
LEMMA WidgetStep == ASSUME IInv, NEW t \in Tab, Widget(t) PROVE IInv'
<1> DEFINE n == Len(attempts[Owner[t]])
           c == Correct(Owner[t])
           p == Percent(c, tab[t].total)
           s == [at |-> "widget", rows |-> tab[t].rows, total |-> tab[t].total, correct |-> c,
                 percent |-> p, late |-> n - tab[t].before]
<1>1. /\ Typed /\ Owner[t] \in User /\ tab[t] \in Totalled /\ Show(t, s) /\ Grown
      /\ tab[t].at = "totalled"
  BY Shapes, Kept DEF IInv, Widget
<1>2. /\ n \in Nat /\ tab[t].rows <= tab[t].total /\ tab[t].total = tab[t].before
      /\ tab[t].before <= n
  BY <1>1 DEF IInv, Figures, Grown
<1>3. /\ tab[t].rows \in 0..Recent /\ tab[t].total \in Nat /\ tab[t].before \in Nat
  BY <1>1 DEF Totalled
<1>4. c \in Nat /\ c <= n
  BY <1>1, CorrectBounded
<1>5. p \in Nat /\ (c <= tab[t].total => p <= 100)
  <2> HIDE DEF c
  <2> QED
    BY <1>3, <1>4, PercentBounded
<1> HIDE DEF c, p, n
<1>6. s \in States
  BY <1>2, <1>3, <1>4, <1>5 DEF States, Shown
<1>7. ASSUME tab'[t] = s PROVE Walked(t)' /\ Entered(t)' /\ Figures(t)'
  <2>1. c <= tab[t].total + (n - tab[t].before)
    BY <1>2, <1>3, <1>4
  <2>2. n - tab[t].before = 0 => p <= 100
    BY <1>2, <1>3, <1>4, <1>5
  <2> QED
    BY <1>2, <1>7, <2>1, <2>2 DEF Walked, Entered, Figures, Attempted, AttemptedNow
<1> HIDE DEF s
<1> QED
  BY <1>1, <1>6, <1>7, OneTab

\* Nothing is shown any more.
LEMMA ToAway == ASSUME IInv, NEW t \in Tab, Show(t, Away), UNCHANGED attempts PROVE IInv'
<1>1. Typed /\ Grown /\ Away \in States
  BY Kept DEF IInv, States
<1>2. ASSUME tab'[t] = Away PROVE Walked(t)' /\ Entered(t)' /\ Figures(t)'
  BY <1>2 DEF Walked, Entered, Figures, Away
<1> QED
  BY <1>1, <1>2, OneTab

LEMMA FailsStep == ASSUME IInv, NEW t \in Tab, Fails(t) PROVE IInv'
<1>1. CASE Show(t, Away)
  BY <1>1, ToAway DEF Fails
<1>2. CASE tab[t].at = "following" /\ Show(t, [tab[t] EXCEPT !.at = "result"])
  BY <1>2, SameResult, Shapes DEF IInv, Fails
<1> QED
  BY <1>1, <1>2 DEF Fails

LEMMA LeaveStep == ASSUME IInv, NEW t \in Tab, Leave(t) PROVE IInv'
BY ToAway DEF Leave

LEMMA StepIInv == ASSUME IInv, [Next]_vars PROVE IInv'
<1>1. CASE UNCHANGED vars
  BY <1>1 DEF vars, IInv, Typed, Walked, Entered, Early, Figures, Attempted
<1>2. CASE Next
  BY <1>2, EnterStep, ChooseStep, OpenStep, FollowNextStep, ShowCardStep, RecordStep, ResultStep,
     ResultFailsStep, ListRecentStep, TotalStep, WidgetStep, FailsStep, LeaveStep DEF Next
<1> QED
  BY <1>1, <1>2

\* The invariant holds: types, and what each tab's walk and the figures it has
\* read say of the store (the queries of learn.sql and the handlers over them).
THEOREM LearnIInv == Spec => []IInv
<1>1. IInv /\ [Next]_vars => IInv'
  BY StepIInv
<1> QED
  BY <1>1, InitIInv, PTL DEF Spec

-----------------------------------------------------------------------------

\* Whatever tabs do at a time, a link leads to a question there is, the widget lists no
\* more than its limit, and its figures are numbers.
THEOREM LearnTypeOK == Spec => []TypeOK
<1>1. IInv => TypeOK
  <2> SUFFICES ASSUME Typed PROVE TypeOK
    BY DEF IInv
  <2>1. \A u \in User : attempts[u] \in Seq([q : Question, ok : BOOLEAN])
    BY DEF Typed, Attempt
  <2>2. ASSUME NEW t \in Tab, tab[t] \in Chosen \cup Card \cup Answered
        PROVE  /\ tab[t].at \in {"chosen", "found", "card", "recorded", "result", "following"}
               /\ [topic |-> tab[t].topic, q |-> tab[t].q, walk |-> tab[t].walk] \in Walk
               /\ tab[t].at = "chosen" => tab[t].seen \in Nat
               /\ tab[t].at \in {"result", "following"} =>
                      tab[t].next \in Question \cup {0} /\ tab[t].score \in Nat
    BY <2>2 DEF Chosen, Card, Answered, Walk
  <2>3. ASSUME NEW t \in Tab, tab[t] \in Listed \cup Totalled \cup Shown
        PROVE  /\ tab[t].at \in {"listed", "totalled", "widget"}
               /\ tab[t].rows \in 0..Recent
               /\ tab[t].at = "totalled" => {tab[t].total, tab[t].before} \subseteq Nat
               /\ tab[t].at = "widget" => {tab[t].total, tab[t].correct, tab[t].percent, tab[t].late}
                                            \subseteq Nat
    BY <2>3 DEF Listed, Totalled, Shown
  <2>4. ASSUME NEW t \in Tab, tab[t] \in LookedUp PROVE tab[t].at = "asked" /\ tab[t].topic \in Asked
    BY <2>4 DEF LookedUp
  <2>5. \A t \in Tab : tab[t] \in States
    BY DEF Typed
  <2> QED
    BY <2>1, <2>2, <2>3, <2>4, <2>5 DEF TypeOK, States
<1> QED
  BY <1>1, LearnIInv, PTL

\* "Done" is told only to someone who has attempted every question of the run, however
\* many tabs answered meanwhile and whatever the window on entry left out.
THEOREM LearnDone == Spec => []DoneMeansAll
<1>1. IInv => DoneMeansAll
  <2> SUFFICES ASSUME IInv, NEW t \in Tab, NEW q \in Question,
                      tab[t].at = "result", tab[t].walk, tab[t].next = 0,
                      Wanted(tab[t].topic, q)
               PROVE  Attempted(Owner[t], q)
    BY DEF DoneMeansAll, Wanted
  <2> DEFINE run == Run(tab[t].topic)
  <2>1. PICK i \in 1..Len(run) :
              /\ run[i] = tab[t].q
              /\ \A j \in 1..(i - 1) : Attempted(Owner[t], run[j])
    BY DEF IInv, Walked
  <2>2. Attempted(Owner[t], run[i]) /\ NextOf(tab[t].topic, run[i]) = 0
    BY <2>1 DEF IInv, Walked
  <2>3. i = Len(run)
    <3>1. CASE i # Len(run)
      <4>1. Len(run) \in Nat /\ i + 1 \in 1..Len(run)
        BY <3>1, RunOf DEF Collected
      <4>2. run[i + 1] \in Question
        BY <4>1, NextTyped
      <4> QED
        BY <2>2, <3>1, <4>2, NextQuestion, Questions
    <3> QED
      BY <3>1
  <2>4. PICK k \in 1..Len(run) : run[k] = q
    BY RunOf, Questions DEF Collected
  <2>5. k = i \/ k \in 1..(i - 1)
    BY <2>3
  <2> QED
    BY <2>1, <2>2, <2>4, <2>5
<1> QED
  BY <1>1, LearnIInv, PTL

\* The widget's figures disagree by no more than what was answered while they were read.
THEOREM LearnWidget == Spec => []WidgetAddsUp
<1>1. IInv => WidgetAddsUp
  BY DEF IInv, Figures, WidgetAddsUp
<1> QED
  BY <1>1, LearnIInv, PTL

\* Topic entry shows a question that had no attempt when the attempts were read, if
\* there was one and they fitted the window, whatever other tabs answer before the card
\* is there.
THEOREM LearnEntry == Spec => EntryIsFresh
<1> DEFINE Fresh(t, s, card) ==
             LET Seen(q) == \E k \in 1..s.seen : attempts[Owner[t]][k].q = q
             IN  s.at = "chosen" /\ card.at = "card" /\ s.seen <= Window
                 => ~Seen(card.q) \/ \A q \in Question : Topics[q] = card.topic => Seen(q)
<1>1. ASSUME IInv, [Next]_vars, NEW t \in Tab PROVE Fresh(t, tab[t], tab'[t])
  <2> SUFFICES ASSUME tab[t].at = "chosen", tab'[t].at = "card", tab[t].seen <= Window
               PROVE  Fresh(t, tab[t], tab'[t])
    OBVIOUS
  <2>1. tab'[t] # tab[t] /\ tab \in [Tab -> States]
    BY <1>1 DEF IInv, Typed
  <2>2. PICK v \in Tab :
            \/ \E asked \in Asked : Enter(v, asked)
            \/ \E q \in Question : Open(v, q)
            \/ ChooseQuestion(v) \/ FollowNext(v) \/ ShowCard(v)
            \/ \E ok \in BOOLEAN : RecordAttempt(v, ok)
            \/ Result(v) \/ ResultFails(v)
            \/ ListRecent(v) \/ Total(v) \/ Widget(v)
            \/ Fails(v) \/ Leave(v)
    BY <1>1, <2>1 DEF Next, vars
  <2>3. \A w \in Tab \ {t} : \A s : Show(w, s) => tab'[t] = tab[t]
    BY <2>1 DEF Show
  <2>4. v = t
    BY <2>1, <2>2, <2>3 DEF Enter, Open, ChooseQuestion, FollowNext, ShowCard, RecordAttempt,
       Result, ResultFails, ListRecent, Total, Widget, Fails, Leave
  <2>5. \A s : Show(t, s) => tab'[t] = s
    BY <2>1 DEF Show
  <2>6. ~Fails(t)
    BY <2>5 DEF Fails, Away
  <2>7. ShowCard(t)
    BY <2>2, <2>4, <2>6 DEF Enter, Open, ChooseQuestion, FollowNext, RecordAttempt, Result,
       ResultFails, ListRecent, Total, Widget, Leave
  <2>8. tab'[t].q = tab[t].q /\ tab'[t].topic = tab[t].topic
    BY <2>5, <2>7 DEF ShowCard
  <2>9. \/ ~Early(Owner[t], tab[t].seen, tab[t].q)
        \/ \A q \in Question : Topics[q] = tab[t].topic => Early(Owner[t], tab[t].seen, q)
    BY <1>1 DEF IInv, Entered
  <2> QED
    BY <2>8, <2>9 DEF Early
<1>2. IInv /\ [Next]_vars => \A t \in Tab : Fresh(t, tab[t], tab'[t])
  BY <1>1
<1>3. Spec => [][\A t \in Tab : Fresh(t, tab[t], tab'[t])]_vars
  BY <1>2, LearnIInv, PTL DEF Spec
<1> QED
  BY <1>3 DEF EntryIsFresh

=============================================================================
