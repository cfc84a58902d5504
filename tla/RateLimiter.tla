---------------------------- MODULE RateLimiter ----------------------------
(***************************************************************************)
(* The per-IP limiter in front of the routes: limiterStore (a map of       *)
(* buckets under a mutex, swept by a background goroutine) and take, which *)
(* reserves a token and cancels the reservation when it would have to      *)
(* wait.  The mutex covers the map and not the bucket: a request keeps the *)
(* bucket that get returned while others evict, recreate and reserve.      *)
(*                                                                         *)
(* The bucket itself is golang.org/x/time/rate: Reserve and Cancel say     *)
(* what ReserveN and CancelAt do.  Credit is counted in ticks (see         *)
(* TokenBucket), so a reservation's delay and the tokens it lacks are the  *)
(* same number.  take reads the clock, reserves and cancels within a tick. *)
(***************************************************************************)
EXTENDS Integers, Sequences

CONSTANTS
    IP,          \* client addresses
    Req,         \* requests in flight
    Period,      \* ticks between two tokens: 1 / rps
    Burst,       \* tokens in a full bucket
    StaleAfter,  \* ticks a client is idle before its bucket is dropped
    Second,      \* ticks in a second, the unit of Retry-After
    Stall,       \* longest a request waits between get and take
    MaxClock,    \* bound: the clock stops here
    MaxDebt,     \* bound: no request comes to a bucket deeper in debt
    MaxBuckets   \* bound: buckets ever created

ASSUME LimiterAssumption ==
    /\ Period \in Nat \ {0} /\ Burst \in Nat \ {0} /\ StaleAfter \in Nat
    /\ Second \in Nat \ {0} /\ Stall \in Nat
    /\ MaxClock \in Nat /\ MaxDebt \in Nat /\ MaxBuckets \in Nat

\* What makes eviction harmless for the tiers the server mounts: an idle bucket
\* is full again, and no request still holds it, when it is dropped.
ASSUME TierAssumption == Burst * Period + Stall <= StaleAfter + 1

VARIABLES
    clock,
    heap,      \* every bucket ever created; a pointer is an index into it
    entry,     \* entry[ip]: the map, 0 when ip has no entry
    lastSeen,  \* lastSeen[ip]: when the entry of ip was last used
    req,       \* req[r]: what request r is doing
    ideal,     \* history: credit of the bucket that is never dropped
    admitted,  \* history: requests of ip let through
    retryAt    \* history: when the last refusal told ip to come back, or 0

vars == <<clock, heap, entry, lastSeen, req, ideal, admitted, retryAt>>

Capacity == Burst * Period

Min2(x, y) == IF x < y THEN x ELSE y

Idle == [step |-> "idle"]

\* due is the reservation's timeToAct.
Holding == [step : {"take", "cancel"}, ip : IP, bucket : 1..MaxBuckets,
            since : Nat, due : Nat]

Bucket == [credit : Int, last : Nat, event : Nat]

TypeOK ==
    /\ clock \in 0..MaxClock
    /\ heap \in Seq(Bucket) /\ Len(heap) <= MaxBuckets
    /\ entry \in [IP -> 0..Len(heap)]
    /\ lastSeen \in [IP -> 0..clock]
    /\ req \in [Req -> Holding \cup {Idle}]
    /\ ideal \in [IP -> 0..Capacity]
    /\ admitted \in [IP -> Nat]
    /\ retryAt \in [IP -> Nat]
    /\ \A i \in 1..Len(heap) : heap[i].credit <= Capacity

Init ==
    /\ clock = 0
    /\ heap = <<>>
    /\ entry = [ip \in IP |-> 0]
    /\ lastSeen = [ip \in IP |-> 0]
    /\ req = [r \in Req |-> Idle]
    /\ ideal = [ip \in IP |-> Capacity]
    /\ admitted = [ip \in IP |-> 0]
    /\ retryAt = [ip \in IP |-> 0]

-----------------------------------------------------------------------------
\* What bucket b holds now: Limiter.advance.
Available(b) == Min2(Capacity, b.credit + (clock - b.last))

\* retryAfterSeconds: whole seconds, rounded up, at least one.
RetryAfterRoundedDown(wait) == IF wait < Second THEN 1 ELSE wait \div Second

RetryAfter(wait) == IF wait <= 0 THEN 1 ELSE (wait + Second - 1) \div Second

\* Mutant: get does not refresh lastSeen of an entry it found.
GetStale(r, ip) ==
    /\ req[r] = Idle
    /\ entry[ip] # 0 => heap[entry[ip]].credit >= -MaxDebt
    /\ IF entry[ip] # 0 THEN UNCHANGED <<heap, entry, lastSeen>>
       ELSE /\ Len(heap) < MaxBuckets
            /\ heap' = Append(heap, [credit |-> Capacity, last |-> clock, event |-> 0])
            /\ entry' = [entry EXCEPT ![ip] = Len(heap) + 1]
            /\ lastSeen' = [lastSeen EXCEPT ![ip] = clock]
    /\ req' = [req EXCEPT ![r] = [step |-> "take", ip |-> ip, bucket |-> entry'[ip],
                                  since |-> clock, due |-> 0]]
    /\ UNCHANGED <<clock, ideal, admitted, retryAt>>

\* limiterStore.get, under the store's mutex.
Get(r, ip) ==
    /\ req[r] = Idle
    /\ entry[ip] # 0 => heap[entry[ip]].credit >= -MaxDebt
    /\ IF entry[ip] # 0 THEN UNCHANGED <<heap, entry>>
       ELSE /\ Len(heap) < MaxBuckets
            /\ heap' = Append(heap, [credit |-> Capacity, last |-> clock, event |-> 0])
            /\ entry' = [entry EXCEPT ![ip] = Len(heap) + 1]
    /\ lastSeen' = [lastSeen EXCEPT ![ip] = clock]
    /\ req' = [req EXCEPT ![r] = [step |-> "take", ip |-> ip, bucket |-> entry'[ip],
                                  since |-> clock, due |-> 0]]
    /\ UNCHANGED <<clock, ideal, admitted, retryAt>>

\* take: ReserveN(now, 1).  A token at hand lets the request through.  Otherwise
\* the bucket goes into debt, and the refusal carries the delay as Retry-After.
Reserve(r) ==
    LET ip    == req[r].ip
        i     == req[r].bucket
        left  == Available(heap[i]) - Period
        delay == IF left < 0 THEN -left ELSE 0
    IN  /\ req[r].step = "take"
        /\ heap' = [heap EXCEPT ![i] = [credit |-> left, last |-> clock,
                                        event |-> clock + delay]]
        /\ \/ /\ delay = 0
              /\ req' = [req EXCEPT ![r] = Idle]
              /\ ideal' = [ideal EXCEPT ![ip] = @ - Period]
              /\ admitted' = [admitted EXCEPT ![ip] = @ + 1]
              /\ retryAt' = [retryAt EXCEPT ![ip] = 0]
           \/ /\ delay > 0
              /\ req' = [req EXCEPT ![r].step = "cancel", ![r].due = clock + delay]
              /\ retryAt' = [retryAt EXCEPT ![ip] = clock + RetryAfter(delay) * Second]
              /\ UNCHANGED <<ideal, admitted>>
        /\ UNCHANGED <<clock, entry, lastSeen>>

\* Mutant: the reservation of a refused request is not cancelled.
CancelNothing(r) ==
    /\ req[r].step = "cancel"
    /\ req' = [req EXCEPT ![r] = Idle]
    /\ UNCHANGED <<clock, heap, entry, lastSeen, ideal, admitted, retryAt>>

\* Mutant: the cancelled reservation gives back one token too many.
CancelTwice(r) ==
    LET i == req[r].bucket IN
    /\ req[r].step = "cancel"
    /\ heap' = [heap EXCEPT ![i].credit = Min2(Capacity, Available(heap[i]) + 2 * Period),
                            ![i].last = clock]
    /\ req' = [req EXCEPT ![r] = Idle]
    /\ UNCHANGED <<clock, entry, lastSeen, ideal, admitted, retryAt>>

\* CancelAt(now): what was reserved after this reservation is not given back.
Cancel(r) ==
    LET i       == req[r].bucket
        b       == heap[i]
        restore == Period - (b.event - req[r].due)
        before  == req[r].due - Period
    IN  /\ req[r].step = "cancel"
        /\ heap' = IF restore <= 0 THEN heap
                   ELSE [heap EXCEPT ![i] =
                           [credit |-> Min2(Capacity, Available(b) + restore),
                            last   |-> clock,
                            event  |-> IF b.event = req[r].due /\ before >= clock
                                         THEN before ELSE b.event]]
        /\ req' = [req EXCEPT ![r] = Idle]
        /\ UNCHANGED <<clock, entry, lastSeen, ideal, admitted, retryAt>>

\* Mutant: evict compares with >= half of staleAfter.
EvictTooSoon ==
    LET idle == {ip \in IP : entry[ip] # 0 /\ 2 * (clock - lastSeen[ip]) > StaleAfter} IN
    /\ idle # {}
    /\ entry' = [ip \in IP |-> IF ip \in idle THEN 0 ELSE entry[ip]]
    /\ UNCHANGED <<clock, heap, lastSeen, req, ideal, admitted, retryAt>>

\* evict, under the store's mutex, whenever run's ticker fires.
Evict ==
    LET idle == {ip \in IP : entry[ip] # 0 /\ clock - lastSeen[ip] > StaleAfter} IN
    /\ idle # {}
    /\ entry' = [ip \in IP |-> IF ip \in idle THEN 0 ELSE entry[ip]]
    /\ UNCHANGED <<clock, heap, lastSeen, req, ideal, admitted, retryAt>>

Tick ==
    /\ clock < MaxClock
    /\ \A r \in Req : req[r] # Idle => /\ req[r].step = "take"
                                       /\ clock - req[r].since < Stall
    /\ clock' = clock + 1
    /\ ideal' = [ip \in IP |-> Min2(Capacity, ideal[ip] + 1)]
    /\ UNCHANGED <<heap, entry, lastSeen, req, admitted, retryAt>>

Next ==
    \/ \E r \in Req : (\E ip \in IP : Get(r, ip)) \/ Reserve(r) \/ Cancel(r)
    \/ Evict
    \/ Tick

Spec == Init /\ [][Next]_vars

-----------------------------------------------------------------------------
\* Dropping and recreating buckets, holding them outside the mutex and cancelling
\* reservations in any order never lets a client through more often than a bucket
\* that lives for ever would: TokenBucket is implemented.
Contract == INSTANCE TokenBucket WITH credit <- ideal

ContractKept == Contract!Spec

\* What that means to a client: in t ticks it is let through at most Burst + t / Period
\* times, however its requests interleave with the sweeps.
WithinRate == Contract!WithinRate

\* The bucket in the map is never richer than the ideal one, debts of requests
\* that are about to cancel included.
NeverRicher ==
    \A ip \in IP : entry[ip] # 0 => Available(heap[entry[ip]]) <= ideal[ip]

\* A request spends from the bucket that is in the map: the one it got has not
\* been evicted and replaced in between.
NoSplitBucket ==
    \A r \in Req : req[r] # Idle => req[r].bucket = entry[req[r].ip]

Quiet == \A r \in Req : req[r] = Idle

\* take's comment: the reservation is cancelled "so a refused request costs
\* nothing".  Once no request is in flight the bucket holds what it would hold had
\* the refused ones never come.
RefusalIsFree ==
    Quiet => \A ip \in IP :
        entry[ip] # 0 => Available(heap[entry[ip]]) = ideal[ip]

\* retryAfterSeconds: "so a client never retries early".  A client that comes back
\* when it was told to is let through.
RetryHonoured ==
    Quiet => \A ip \in IP :
        (entry[ip] # 0 /\ retryAt[ip] # 0 /\ clock >= retryAt[ip])
            => Available(heap[entry[ip]]) >= Period

=============================================================================
