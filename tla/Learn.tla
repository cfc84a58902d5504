------------------------------- MODULE Learn --------------------------------
(***************************************************************************)
(* The quiz and the dashboard's quiz widget, as a user with several tabs   *)
(* meets them.  A handler makes several transactions; each is a step here, *)
(* and the steps of two tabs of one user interleave.                       *)
(*                                                                         *)
(* Questions are numbered in display order; Topics gives the topic of each. *)
(* Attempts are kept in the order of their created_at.  The questions do   *)
(* not change, so reading them is a step only where it starts a request.   *)
(* A first transaction that fails leaves the tab where it was and is no    *)
(* step; a later one is Fails.  An unusable choice (422) shows the same    *)
(* card again: no step either.                                             *)
(***************************************************************************)
EXTENDS Integers, Sequences, FiniteSets

CONSTANTS
    Tab, User,
    Owner,      \* Owner[t]: whose tab it is
    Topics,     \* topic of each question, in display order
    All,        \* no topic: the whole sequence
    Asked,      \* values of ?topic= that are asked for, known or not
    Window,     \* quizTopicAttemptWindow
    Recent,     \* dashboardRecentAttempts
    MaxAttempts \* bound: attempts of one user

ASSUME LearnAssumption ==
    /\ Owner \in [Tab -> User]
    /\ Window \in Nat /\ Recent \in Nat /\ MaxAttempts \in Nat
    /\ Topics \in Seq({Topics[q] : q \in DOMAIN Topics})
    /\ Topics # <<>> /\ \A q \in DOMAIN Topics : Topics[q] # All

VARIABLES
    attempts, \* attempts[u]: [q, ok], oldest first
    tab       \* tab[t]: what the tab shows, or what its request has done

vars == <<attempts, tab>>

Question == DOMAIN Topics
Away == [at |-> "away"]

Init ==
    /\ attempts = [u \in User |-> <<>>]
    /\ tab = [t \in Tab |-> Away]

Show(t, s) == tab' = [tab EXCEPT ![t] = s]

-----------------------------------------------------------------------------
(* what the handlers compute *)

Resolve(topic) == IF \E q \in Question : Topics[q] = topic THEN topic ELSE All

\* run[n]: what quizRun has collected after n questions.
Run(topic) ==
    LET run[n \in 0..Len(Topics)] ==
            IF n = 0 THEN <<>>
            ELSE IF topic = All \/ Topics[n] = topic THEN Append(run[n - 1], n) ELSE run[n - 1]
    IN  run[Len(Topics)]

\* Mutant: the limit is forgotten.
ListUnlimited(u, n) == attempts[u]

\* ListQuizAttemptsByUser with limit n.
ListAttempts(u, n) ==
    LET s == attempts[u] IN SubSeq(s, IF Len(s) > n THEN Len(s) - n + 1 ELSE 1, Len(s))

\* Mutant: positions in the run are compared with questions.
FirstUnattemptedIndex(run, list) ==
    LET fresh == {i \in DOMAIN run : \A k \in DOMAIN list : list[k].q # i}
    IN  IF fresh = {} THEN 1 ELSE CHOOSE i \in fresh : \A j \in fresh : i <= j

\* Index in run of the first question list has no attempt of, or of the first.
FirstUnattempted(run, list) ==
    LET fresh == {i \in DOMAIN run : \A k \in DOMAIN list : list[k].q # run[i]}
    IN  IF fresh = {} THEN 1 ELSE CHOOSE i \in fresh : \A j \in fresh : i <= j

\* Mutant: done one question early.
NextSkipsLast(topic, q) ==
    LET run == Run(topic)
        idx == CHOOSE i \in DOMAIN run : run[i] = q
    IN  IF idx >= Len(run) - 1 THEN 0 ELSE run[idx + 1]

\* The question the "next" link leads to; 0 is done.
NextOf(topic, q) ==
    LET run == Run(topic)
        idx == CHOOSE i \in DOMAIN run : run[i] = q
    IN  IF idx = Len(run) THEN 0 ELSE run[idx + 1]

Correct(u) == Cardinality({k \in DOMAIN attempts[u] : attempts[u][k].ok})

-----------------------------------------------------------------------------
(* the quiz *)

\* GET /learn/quiz?topic=: the questions are read.  Without a topic the run
\* starts at its first one.  walk: history, the tab came in at an entry point
\* and has followed the links since.
Enter(t, asked) ==
    /\ tab[t].at = "away"
    /\ LET topic == Resolve(asked)
       IN  Show(t, IF topic = All
                   THEN [at |-> "found", topic |-> All, q |-> Run(All)[1], walk |-> TRUE]
                   ELSE [at |-> "asked", topic |-> topic])
    /\ UNCHANGED attempts

\* With a topic, the next transaction reads the attempts and a question is
\* chosen.  seen: history, how many attempts there were then.
ChooseQuestion(t) ==
    /\ tab[t].at = "asked"
    /\ LET run == Run(tab[t].topic)
           list == ListAttempts(Owner[t], Window)
       IN  Show(t, [at |-> "chosen", topic |-> tab[t].topic,
                    q |-> run[FirstUnattempted(run, list)], walk |-> TRUE,
                    seen |-> Len(attempts[Owner[t]])])
    /\ UNCHANGED attempts

\* GET /learn/quiz?q=, the link of a row of the widget.
Open(t, q) ==
    /\ tab[t].at = "away"
    /\ Show(t, [at |-> "found", topic |-> All, q |-> q, walk |-> FALSE])
    /\ UNCHANGED attempts

\* GET /learn/quiz?q=&topic=, the link of a result, which stays on the page.
FollowNext(t) ==
    /\ tab[t].at = "result"
    /\ tab[t].next # 0
    /\ Show(t, [tab[t] EXCEPT !.at = "following"])
    /\ UNCHANGED attempts

\* The last transaction reads the score, which a full page shows, and the card
\* is shown.
ShowCard(t) ==
    /\ tab[t].at \in {"chosen", "found", "following"}
    /\ LET q == IF tab[t].at = "following" THEN tab[t].next ELSE tab[t].q
       IN  Show(t, [at |-> "card", topic |-> tab[t].topic, q |-> q, walk |-> tab[t].walk])
    /\ UNCHANGED attempts

\* POST answer: the attempt is recorded in a transaction of its own ...
RecordAttempt(t, ok) ==
    /\ tab[t].at = "card"
    /\ Len(attempts[Owner[t]]) < MaxAttempts
    /\ attempts' = [attempts EXCEPT ![Owner[t]] = Append(@, [q |-> tab[t].q, ok |-> ok])]
    /\ Show(t, [tab[t] EXCEPT !.at = "recorded"])

\* ... and the score is read in the next one.
Result(t) ==
    /\ tab[t].at = "recorded"
    /\ Show(t, [at |-> "result", topic |-> tab[t].topic, q |-> tab[t].q, walk |-> tab[t].walk,
                next |-> NextOf(tab[t].topic, tab[t].q), score |-> Correct(Owner[t])])
    /\ UNCHANGED attempts

\* The score cannot be read: status 500, the card stays, the attempt too.
ResultFails(t) ==
    /\ tab[t].at = "recorded"
    /\ Show(t, [tab[t] EXCEPT !.at = "card"])
    /\ UNCHANGED attempts

-----------------------------------------------------------------------------
(* the widget: three transactions *)

ListRecent(t) ==
    /\ tab[t].at = "away"
    /\ Show(t, [at |-> "listed", rows |-> Len(ListAttempts(Owner[t], Recent))])
    /\ UNCHANGED attempts

\* Mutant: the total is the length of the list.
TotalOfList(t) ==
    /\ tab[t].at = "listed"
    /\ Show(t, [at |-> "totalled", rows |-> tab[t].rows, total |-> tab[t].rows,
                before |-> Len(attempts[Owner[t]])])
    /\ UNCHANGED attempts

\* before: history, how many attempts there were when the total was read.
Total(t) ==
    /\ tab[t].at = "listed"
    /\ LET n == Len(attempts[Owner[t]])
       IN  Show(t, [at |-> "totalled", rows |-> tab[t].rows, total |-> n, before |-> n])
    /\ UNCHANGED attempts

\* Percent of the correct ones, rounded half up.
Percent(correct, total) ==
    IF total = 0 THEN 0 ELSE (200 * correct + total) \div (2 * total)

Widget(t) ==
    /\ tab[t].at = "totalled"
    /\ LET c == Correct(Owner[t])
       IN  Show(t, [at |-> "widget", rows |-> tab[t].rows, total |-> tab[t].total, correct |-> c,
                    percent |-> Percent(c, tab[t].total),
                    late |-> Len(attempts[Owner[t]]) - tab[t].before])
    /\ UNCHANGED attempts

\* A read after the first of a request fails: status 500.  The result whose
\* link was followed stays; otherwise there is nothing to come back to.
Fails(t) ==
    /\ \/ /\ tab[t].at \in {"asked", "chosen", "found", "listed", "totalled"}
          /\ Show(t, Away)
       \/ /\ tab[t].at = "following"
          /\ Show(t, [tab[t] EXCEPT !.at = "result"])
    /\ UNCHANGED attempts

Leave(t) ==
    /\ tab[t].at \in {"card", "result", "widget"}
    /\ Show(t, Away)
    /\ UNCHANGED attempts

Next ==
    \E t \in Tab :
        \/ \E asked \in Asked : Enter(t, asked)
        \/ \E q \in Question : Open(t, q)
        \/ ChooseQuestion(t) \/ FollowNext(t) \/ ShowCard(t)
        \/ \E ok \in BOOLEAN : RecordAttempt(t, ok)
        \/ Result(t) \/ ResultFails(t)
        \/ ListRecent(t) \/ Total(t) \/ Widget(t)
        \/ Fails(t) \/ Leave(t)

Spec == Init /\ [][Next]_vars

-----------------------------------------------------------------------------

Walk == [topic : Asked \cup {All}, q : Question, walk : BOOLEAN]

\* Type invariant: a link leads to a question, the widget has at most Recent
\* rows.
TypeOK ==
    /\ \A u \in User : attempts[u] \in Seq([q : Question, ok : BOOLEAN])
    /\ \A t \in Tab :
        LET s == tab[t]
        IN  \/ s = Away
            \/ s.at = "asked" /\ s.topic \in Asked
            \/ /\ s.at \in {"chosen", "found", "card", "recorded", "result", "following"}
               /\ [topic |-> s.topic, q |-> s.q, walk |-> s.walk] \in Walk
               /\ s.at = "chosen" => s.seen \in Nat
               /\ s.at \in {"result", "following"} =>
                      s.next \in Question \cup {0} /\ s.score \in Nat
            \/ /\ s.at \in {"listed", "totalled", "widget"}
               /\ s.rows \in 0..Recent
               /\ s.at = "totalled" => {s.total, s.before} \subseteq Nat
               /\ s.at = "widget" => {s.total, s.correct, s.percent, s.late} \subseteq Nat

Attempted(u, q) == \E k \in DOMAIN attempts[u] : attempts[u][k].q = q

\* Topic entry is stale by no more than what was answered while quizPage was at
\* work: the card it shows, once the score is read too, is of a question that had
\* no attempt when the attempts were read, unless all of the topic had one.  That
\* is so as long as the history fitted the window then; what another tab has
\* answered since is not seen.
EntryIsFresh ==
    [][\A t \in Tab :
        LET s == tab[t] card == tab'[t]
            Seen(q) == \E k \in 1..s.seen : attempts[Owner[t]][k].q = q
        IN  s.at = "chosen" /\ card.at = "card" /\ s.seen <= Window
            => ~Seen(card.q) \/ \A q \in Question : Topics[q] = card.topic => Seen(q)]_vars

\* A user who came in at an entry point, whatever was answered in other tabs
\* meanwhile, and is told that the run is done, has attempted every question
\* of it.  The window needs no room for that.
DoneMeansAll ==
    \A t \in Tab :
        /\ tab[t].at = "result" /\ tab[t].walk /\ tab[t].next = 0
        => \A q \in Question : tab[t].topic \in {All, Topics[q]} => Attempted(Owner[t], q)

\* The widget's three figures come from three moments: it lists no more than it
\* counts, and its correct ones exceed its total (and its percentage 100) by no
\* more than what was recorded in between.
WidgetAddsUp ==
    \A t \in Tab : tab[t].at = "widget" =>
        /\ tab[t].rows <= tab[t].total
        /\ tab[t].correct <= tab[t].total + tab[t].late
        /\ tab[t].late = 0 => tab[t].percent <= 100

=============================================================================
