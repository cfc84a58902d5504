------------------------------ MODULE MCLearn -------------------------------
(* The quiz for TLC: two tabs of one user, three questions on two topics.  *)
EXTENDS Learn, TLC

CONSTANTS u1, all, rls, budgets, stray

MCOwner == [t \in Tab |-> u1]
MCTopics == <<rls, budgets, rls>>

Symmetry == Permutations(Tab)

=============================================================================
