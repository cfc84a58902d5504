----------------------------- MODULE MCBrowser -----------------------------
(* Three deployments: guest mode with a quiz of two questions, each of its own *)
(* topic, visited with and without JavaScript, and one without guest mode and  *)
(* without a seeded quiz.  Either the tab sends as many requests as it likes   *)
(* and nothing goes wrong, or it sends a few and one thing does.               *)
EXTENDS Browser

MCSite(js, guestMode, quiz) == [js |-> js, guestMode |-> guestMode, quiz |-> quiz]
TwoTopics == <<"routing", "database">>
MCSites == {MCSite(TRUE, TRUE, TwoTopics), MCSite(FALSE, TRUE, TwoTopics), MCSite(TRUE, FALSE, <<>>)}
MCBudgets == {[upsets |-> 0, sends |-> Endless], [upsets |-> 1, sends |-> 4]}
=============================================================================
