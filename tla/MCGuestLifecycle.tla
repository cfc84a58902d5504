-------------------------- MODULE MCGuestLifecycle --------------------------
(* The guest lifecycle for TLC: identities and request slots are           *)
(* interchangeable model values.                                           *)
EXTENDS GuestLifecycle, TLC

Symmetry == Permutations(Auth) \cup Permutations(Req)

=============================================================================
