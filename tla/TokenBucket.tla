---------------------------- MODULE TokenBucket ----------------------------
(***************************************************************************)
(* The contract of the rate limiter: every client has one token bucket,    *)
(* for ever.  Tokens are counted in ticks of credit: a request costs       *)
(* Period of them, one comes back per tick, and Burst requests' worth is   *)
(* the most a client can save.                                             *)
(***************************************************************************)
EXTENDS Integers

CONSTANTS IP, Period, Burst

VARIABLES
    clock,     \* ticks since the start
    credit,    \* credit[ip]: what ip can spend now
    admitted   \* admitted[ip]: requests of ip let through so far

bvars == <<clock, credit, admitted>>

Capacity == Burst * Period

Refilled(c) == IF c < Capacity THEN c + 1 ELSE c

Init ==
    /\ clock = 0
    /\ credit = [ip \in IP |-> Capacity]
    /\ admitted = [ip \in IP |-> 0]

Tick ==
    /\ clock' = clock + 1
    /\ credit' = [ip \in IP |-> Refilled(credit[ip])]
    /\ UNCHANGED admitted

Admit(ip) ==
    /\ credit[ip] >= Period
    /\ credit' = [credit EXCEPT ![ip] = @ - Period]
    /\ admitted' = [admitted EXCEPT ![ip] = @ + 1]
    /\ UNCHANGED clock

Next == Tick \/ \E ip \in IP : Admit(ip)

Spec == Init /\ [][Next]_bvars

\* The law of the bucket: in the first t ticks a client is let through at most
\* Burst + t / Period times.
WithinRate == \A ip \in IP : admitted[ip] * Period <= Capacity + clock

=============================================================================
