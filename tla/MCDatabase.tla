----------------------------- MODULE MCDatabase -----------------------------
(* The repositories for TLC: a behaviour calls either the ones of users, cards *)
(* and attempts or the ones of organisations; they share no state but the ids  *)
(* of users, and their product would only multiply the two.                    *)
EXTENDS Database, Organisations, TLC

VARIABLE slice

MCInit == DBInit /\ Init /\ slice \in {"learn", "organisations"}
MCNext ==
  /\ UNCHANGED slice
  /\ \/ slice = "learn" /\ DBNext /\ UNCHANGED orgvars
     \/ slice = "organisations" /\ Next /\ UNCHANGED dbvars
MCSpec == MCInit /\ [][MCNext]_<<dbvars, orgvars, slice>>

Symmetry == Permutations(Org) \cup Permutations(Tx) \cup Permutations(CardIds)
              \cup Permutations(Emails)
=============================================================================
