----------------------------- MODULE MCObserver -----------------------------
(* The observer for TLC: the views are interchangeable.                    *)
EXTENDS Observer, TLC

Symmetry == Permutations(View)

=============================================================================
