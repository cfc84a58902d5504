--------------------------- MODULE MCRateLimiter ---------------------------
(* The limiter for TLC: request slots are interchangeable.  `crowded` is a     *)
(* history variable: two requests of a client have been refused at once, each  *)
(* having reserved before the other cancelled (run limiter_refusal shows what  *)
(* that leads to).                                                             *)
EXTENDS RateLimiter, TLC

VARIABLE crowded

Cancelling == {r \in Req : req[r].step = "cancel"}
MCInit == Init /\ crowded = FALSE
MCNext == Next /\ crowded' = (crowded \/ \E r, s \in Cancelling' : r # s /\ req'[r].ip = req'[s].ip)
MCSpec == MCInit /\ [][MCNext]_<<vars, crowded>>

Symmetry == Permutations(Req) \cup Permutations(IP)

\* Cancelling one at a time a request costs its client nothing (take cancels its
\* reservation): the bucket holds what it would hold had only the admitted ones come.
RefusedAloneIsFree == crowded \/ RefusalIsFree

\* And a client refused that way that comes back when Retry-After says is let through.
RetryAloneHonoured == crowded \/ RetryHonoured

=============================================================================
