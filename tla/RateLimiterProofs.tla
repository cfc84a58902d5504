------------------------- MODULE RateLimiterProofs -------------------------
(***************************************************************************)
(* The limiter implements one token bucket per client that is never        *)
(* dropped, for any number of clients and requests, any rate and any burst *)
(* the tiers allow (TierAssumption).                                       *)
(*                                                                         *)
(* The invariant ties three things together.  A request in flight holds    *)
(* the bucket that is in the map.  A client idle for d ticks has an ideal  *)
(* credit of at least d - Stall, so a bucket is full again when it is      *)
(* evicted.  The reservations that are about to be cancelled are a chain   *)
(* of due times, Period apart, below the bucket's last event, and each     *)
(* gives back no more than it took.                                        *)
(*                                                                         *)
(* Of refusals one at a time (MCRateLimiter) it proves more: a client      *)
(* alone in the limiter gets back exactly what its refused request took,   *)
(* and is let through when its Retry-After is over.                        *)
(***************************************************************************)
EXTENDS MCRateLimiter, SequenceTheorems, TLAPS

Balance(ip) == Available(heap[entry[ip]])

Mapped(ip) == entry[ip] # 0

Refused(r) == req[r] # Idle /\ req[r].step = "cancel"

\* No two clients share a bucket.
OwnBucket ==
    \A ip, jp \in IP : Mapped(ip) /\ entry[ip] = entry[jp] => ip = jp

\* A bucket is dropped only when it is full, and stays full until it is recreated.
FullWhenDropped == \A ip \in IP : ~Mapped(ip) => ideal[ip] = Capacity

\* Credit comes back while a client is idle.
Recovering == \A ip \in IP : ideal[ip] >= Min2(Capacity, clock - lastSeen[ip] - Stall)

\* A request holds its bucket for at most Stall ticks after get.
Prompt ==
    \A r \in Req : req[r] # Idle =>
        /\ req[r].since <= lastSeen[req[r].ip]
        /\ clock <= req[r].since + Stall

\* A reservation about to be cancelled: it is in debt, the last event is when
\* that debt is paid, and the ideal bucket holds what it will give back.
Chained ==
    \A r \in Req : Refused(r) =>
        LET ip == req[r].ip IN
        /\ req[r].due > clock
        /\ heap[entry[ip]].event = clock - Balance(ip)
        /\ \E k \in Nat : req[r].due = heap[entry[ip]].event - k * Period
        /\ ideal[ip] >= clock + Period - req[r].due

\* Each has a due time of its own.
DistinctDues ==
    \A r, s \in Req : Refused(r) /\ Refused(s) /\ req[r].ip = req[s].ip
                        /\ req[r].due = req[s].due => r = s

IInv ==
    /\ TypeOK
    /\ NoSplitBucket
    /\ NeverRicher
    /\ OwnBucket
    /\ FullWhenDropped
    /\ Recovering
    /\ Prompt
    /\ Chained
    /\ DistinctDues

-----------------------------------------------------------------------------
(* The constants.                                                          *)

\* A full bucket holds at least one request's worth of credit, and an idle one is
\* full again before it is dropped.
LEMMA CapacityFacts ==
    /\ Capacity \in Nat
    /\ Period \in Nat \ {0}
    /\ Stall \in Nat
    /\ StaleAfter \in Nat
    /\ Capacity >= Period
    /\ Capacity + Stall <= StaleAfter + 1
    /\ Stall <= StaleAfter
<1>1. Period \in Nat \ {0} /\ Burst \in Nat \ {0} /\ Stall \in Nat /\ StaleAfter \in Nat
  BY LimiterAssumption
<1>2. Burst * Period \in Nat /\ Burst * Period >= Period
  BY <1>1
<1> QED
  BY <1>1, <1>2, TierAssumption DEF Capacity

\* Retry-After is a natural number of ticks after the clock.
LEMMA RetryAfterNat ==
    ASSUME NEW wait \in Nat, NEW c \in Nat
    PROVE  c + RetryAfter(wait) * Second \in Nat
<1>1. Second \in Nat \ {0}
  BY LimiterAssumption
<1>2. CASE wait <= 0
  BY <1>1, <1>2 DEF RetryAfter
<1>3. CASE wait > 0
  <2>1. (wait + Second - 1) \div Second \in Nat
    BY <1>1, <1>3
  <2> QED
    BY <1>1, <1>3, <2>1 DEF RetryAfter
<1> QED
  BY <1>2, <1>3

-----------------------------------------------------------------------------
(* The initial state.                                                      *)

LEMMA InitIInv == Init => IInv
<1> SUFFICES ASSUME Init PROVE IInv
  OBVIOUS
<1> USE CapacityFacts
<1>1. heap \in Seq(Bucket) /\ Len(heap) = 0
  BY EmptySeq DEF Init
<1>2. TypeOK
  BY <1>1, LimiterAssumption DEF Init, TypeOK
<1>3. NoSplitBucket /\ NeverRicher /\ OwnBucket /\ FullWhenDropped /\ Prompt
  BY DEF Init, NoSplitBucket, NeverRicher, OwnBucket, FullWhenDropped, Prompt, Mapped
<1>4. Recovering
  <2> SUFFICES ASSUME NEW ip \in IP
               PROVE  ideal[ip] >= Min2(Capacity, clock - lastSeen[ip] - Stall)
    BY DEF Recovering
  <2>1. ideal[ip] = Capacity /\ clock = 0 /\ lastSeen[ip] = 0
    BY DEF Init
  <2> QED
    BY <2>1 DEF Min2
<1>5. Chained /\ DistinctDues
  BY DEF Init, Chained, DistinctDues, Refused
<1> QED
  BY <1>2, <1>3, <1>4, <1>5 DEF IInv

-----------------------------------------------------------------------------
(* Evict and Tick change no bucket and no request.                         *)

LEMMA EvictIInv == IInv /\ Evict => IInv'
<1> SUFFICES ASSUME IInv, Evict PROVE IInv'
  OBVIOUS
<1> USE CapacityFacts
<1>t. TypeOK
  BY DEF IInv
<1>u. UNCHANGED <<clock, heap, lastSeen, req, ideal, admitted, retryAt>>
  BY DEF Evict
<1>e. \A ip \in IP : \/ entry'[ip] = entry[ip]
                     \/ entry'[ip] = 0 /\ Mapped(ip) /\ clock - lastSeen[ip] > StaleAfter
  BY DEF Evict, Mapped
\* The entry of a request in flight is too fresh to be dropped.
<1>h. \A r \in Req : req[r] # Idle => req[r].ip \in IP /\ entry'[req[r].ip] = entry[req[r].ip]
  <2> SUFFICES ASSUME NEW r \in Req, req[r] # Idle
               PROVE  req[r].ip \in IP /\ entry'[req[r].ip] = entry[req[r].ip]
    OBVIOUS
  <2>1. req[r] \in Holding
    BY <1>t DEF TypeOK
  <2>2. /\ req[r].ip \in IP /\ req[r].since \in Nat
        /\ lastSeen[req[r].ip] \in Nat /\ clock \in Nat
    BY <1>t, <2>1 DEF TypeOK, Holding
  <2>3. req[r].since <= lastSeen[req[r].ip] /\ clock <= req[r].since + Stall
    BY DEF IInv, Prompt
  <2> QED
    BY <1>e, <2>2, <2>3
<1>1. TypeOK'
  <2>1. entry' \in [IP -> 0..Len(heap)]
    BY <1>t, <1>e DEF TypeOK, Evict
  <2> QED
    BY <1>t, <1>u, <2>1 DEF TypeOK, Holding, Bucket
<1>2. NoSplitBucket'
  BY <1>u, <1>h DEF IInv, NoSplitBucket
<1>3. NeverRicher'
  BY <1>u, <1>e DEF IInv, NeverRicher, Available
<1>4. OwnBucket'
  BY <1>e DEF IInv, OwnBucket, Mapped
<1>5. FullWhenDropped'
  <2> SUFFICES ASSUME NEW ip \in IP, ~Mapped(ip)' PROVE ideal[ip] = Capacity
    BY <1>u DEF FullWhenDropped
  <2>1. CASE ~Mapped(ip)
    BY <2>1 DEF IInv, FullWhenDropped
  <2>2. CASE Mapped(ip)
    <3>1. clock - lastSeen[ip] > StaleAfter
      BY <1>e, <2>2 DEF Mapped
    <3>2. ideal[ip] \in 0..Capacity /\ clock \in Nat /\ lastSeen[ip] \in Nat
      BY <1>t DEF TypeOK
    <3>3. ideal[ip] >= Min2(Capacity, clock - lastSeen[ip] - Stall)
      BY DEF IInv, Recovering
    <3>4. clock - lastSeen[ip] - Stall >= Capacity
      BY <3>1, <3>2
    <3> QED
      BY <3>2, <3>3, <3>4 DEF Min2
  <2> QED
    BY <2>1, <2>2
<1>6. Recovering' /\ Prompt'
  BY <1>u DEF IInv, Recovering, Prompt
<1>7. Chained' /\ DistinctDues'
  <2>1. \A r : Refused(r)' <=> Refused(r)
    BY <1>u DEF Refused
  <2>2. \A r \in Req : Refused(r) => Balance(req[r].ip)' = Balance(req[r].ip)
    BY <1>u, <1>h DEF Balance, Available, Refused
  <2> QED
    BY <1>u, <1>h, <2>1, <2>2 DEF IInv, Chained, DistinctDues, Refused
<1> QED
  BY <1>1, <1>2, <1>3, <1>4, <1>5, <1>6, <1>7 DEF IInv

LEMMA TickIInv == IInv /\ Tick => IInv'
<1> SUFFICES ASSUME IInv, Tick PROVE IInv'
  OBVIOUS
<1> USE CapacityFacts
<1>t. TypeOK
  BY DEF IInv
<1>u. UNCHANGED <<heap, entry, lastSeen, req, admitted, retryAt>>
  BY DEF Tick
<1>c. clock \in Nat /\ clock' = clock + 1 /\ clock' \in 0..MaxClock
  BY <1>t, LimiterAssumption DEF Tick, TypeOK
<1>i. \A ip \in IP : /\ ideal[ip] \in 0..Capacity
                     /\ ideal'[ip] = Min2(Capacity, ideal[ip] + 1)
                     /\ lastSeen[ip] \in Nat /\ lastSeen[ip] <= clock
  BY <1>t DEF Tick, TypeOK
\* The clock does not run while a reservation is being cancelled.
<1>r. \A r \in Req : ~Refused(r)
  BY <1>t DEF Tick, Refused, TypeOK, Holding, Idle
<1>1. TypeOK'
  <2>1. lastSeen \in [IP -> 0..clock']
    BY <1>t, <1>c, <1>i DEF TypeOK
  <2>2. ideal' \in [IP -> 0..Capacity]
    BY <1>t, <1>i DEF Tick, TypeOK, Min2
  <2> QED
    BY <1>t, <1>u, <1>c, <2>1, <2>2 DEF TypeOK, Holding, Bucket
<1>2. NoSplitBucket'
  BY <1>u DEF IInv, NoSplitBucket
<1>3. NeverRicher'
  <2> SUFFICES ASSUME NEW ip \in IP, Mapped(ip)
               PROVE  Available(heap[entry[ip]])' <= ideal'[ip]
    BY <1>u DEF NeverRicher, Mapped
  <2>1. heap[entry[ip]] \in Bucket
    BY <1>t, ElementOfSeq DEF TypeOK, Mapped
  <2>2. heap[entry[ip]].credit \in Int /\ heap[entry[ip]].last \in Nat
    BY <2>1 DEF Bucket
  <2>3. Available(heap[entry[ip]]) <= ideal[ip]
    BY DEF IInv, NeverRicher, Mapped
  <2> QED
    BY <1>u, <1>c, <1>i, <2>2, <2>3 DEF Available, Min2
<1>4. OwnBucket'
  BY <1>u DEF IInv, OwnBucket, Mapped
<1>5. FullWhenDropped'
  BY <1>u, <1>i DEF IInv, FullWhenDropped, Mapped, Min2
<1>6. Recovering'
  <2> SUFFICES ASSUME NEW ip \in IP
               PROVE  ideal'[ip] >= Min2(Capacity, clock' - lastSeen[ip] - Stall)
    BY <1>u DEF Recovering
  <2>1. ideal[ip] >= Min2(Capacity, clock - lastSeen[ip] - Stall)
    BY DEF IInv, Recovering
  <2> QED
    BY <1>c, <1>i, <2>1 DEF Min2
<1>7. Prompt'
  <2> SUFFICES ASSUME NEW r \in Req, req[r] # Idle
               PROVE  req[r].since <= lastSeen[req[r].ip] /\ clock + 1 <= req[r].since + Stall
    BY <1>u, <1>c DEF Prompt
  <2>1. req[r] \in Holding
    BY <1>t DEF TypeOK
  <2>2. clock - req[r].since < Stall
    BY DEF Tick
  <2> QED
    BY <1>c, <2>1, <2>2 DEF IInv, Prompt, Holding
<1>8. Chained' /\ DistinctDues'
  BY <1>u, <1>r DEF Chained, DistinctDues, Refused
<1> QED
  BY <1>1, <1>2, <1>3, <1>4, <1>5, <1>6, <1>7, <1>8 DEF IInv

-----------------------------------------------------------------------------
(* Get: a new bucket is full, and so is the ideal one.                     *)

LEMMA GetIInv == ASSUME NEW r \in Req, NEW ip \in IP, IInv, Get(r, ip) PROVE IInv'
<1> USE CapacityFacts
<1>t. TypeOK
  BY DEF IInv
<1>u. UNCHANGED <<clock, ideal, admitted, retryAt>> /\ clock \in Nat
  BY <1>t DEF Get, TypeOK
<1> DEFINE fresh == [credit |-> Capacity, last |-> clock, event |-> 0]
<1>f. fresh \in Bucket
  BY <1>u DEF Bucket
\* The map and the heap grow and forget nothing.
<1>h. /\ heap' \in Seq(Bucket) /\ Len(heap') <= MaxBuckets /\ Len(heap') \in Nat
      /\ Len(heap) <= Len(heap')
      /\ \A i \in 1..Len(heap) : heap'[i] = heap[i]
      /\ \A i \in 1..Len(heap') : i \in 1..Len(heap) \/ heap'[i] = fresh
      /\ entry' \in [IP -> 0..Len(heap')]
      /\ \A jp \in IP : Mapped(jp) => entry'[jp] = entry[jp]
      /\ \A jp \in IP : jp # ip => entry'[jp] = entry[jp]
      /\ Mapped(ip)'
      /\ ~Mapped(ip) => entry'[ip] = Len(heap) + 1 /\ heap'[entry'[ip]] = fresh
  <2>1. CASE Mapped(ip)
    <3>1. heap' = heap /\ entry' = entry
      BY <2>1 DEF Get, Mapped
    <3> QED
      BY <2>1, <3>1, <1>t DEF TypeOK, Mapped
  <2>2. CASE ~Mapped(ip)
    <3>1. /\ Len(heap) < MaxBuckets /\ heap' = Append(heap, fresh)
          /\ entry' = [entry EXCEPT ![ip] = Len(heap) + 1]
      BY <2>2 DEF Get, Mapped
    <3>2. heap \in Seq(Bucket) /\ Len(heap) \in Nat
      BY <1>t DEF TypeOK
    <3>3. /\ heap' \in Seq(Bucket) /\ Len(heap') = Len(heap) + 1
          /\ \A i \in 1..Len(heap) : heap'[i] = heap[i]
          /\ heap'[Len(heap) + 1] = fresh
      <4> HIDE DEF fresh
      <4> QED
        BY <1>f, <3>1, <3>2, AppendProperties
    <3> HIDE DEF fresh
    <3>4. entry \in [IP -> 0..Len(heap)] /\ MaxBuckets \in Nat
      BY <1>t, LimiterAssumption DEF TypeOK
    <3> QED
      BY <2>2, <3>1, <3>2, <3>3, <3>4 DEF Mapped
  <2> QED
    BY <2>1, <2>2
<1> HIDE DEF fresh
<1>l. lastSeen' = [lastSeen EXCEPT ![ip] = clock]
  BY DEF Get
<1>q. /\ req[r] = Idle
      /\ req' = [req EXCEPT ![r] = [step |-> "take", ip |-> ip, bucket |-> entry'[ip],
                                    since |-> clock, due |-> 0]]
      /\ req \in [Req -> Holding \cup {Idle}]
  BY <1>t DEF Get, TypeOK
<1>o. \A s \in Req : s # r => req'[s] = req[s]
  BY <1>q
<1>n. /\ req'[r] = [step |-> "take", ip |-> ip, bucket |-> entry'[ip],
                    since |-> clock, due |-> 0]
      /\ req'[r] # Idle /\ req'[r].ip = ip /\ req'[r].bucket = entry'[ip]
      /\ req'[r].since = clock /\ req'[r].step = "take"
  BY <1>q DEF Idle
<1>a. \A s \in Req : req[s] # Idle => /\ req[s].ip \in IP /\ Mapped(req[s].ip)
                                      /\ entry'[req[s].ip] = entry[req[s].ip]
                                      /\ entry[req[s].ip] \in 1..Len(heap)
  <2> SUFFICES ASSUME NEW s \in Req, req[s] # Idle
               PROVE  /\ req[s].ip \in IP /\ Mapped(req[s].ip)
                      /\ entry'[req[s].ip] = entry[req[s].ip]
                      /\ entry[req[s].ip] \in 1..Len(heap)
    OBVIOUS
  <2>1. req[s].ip \in IP /\ req[s].bucket \in 1..MaxBuckets
    BY <1>q DEF Holding
  <2>2. req[s].bucket = entry[req[s].ip]
    BY DEF IInv, NoSplitBucket
  <2>3. entry[req[s].ip] \in 0..Len(heap) /\ Len(heap) \in Nat
    BY <1>t, <2>1 DEF TypeOK
  <2> QED
    BY <1>h, <2>1, <2>2, <2>3 DEF Mapped
<1>1. TypeOK'
  <2>1. entry'[ip] \in 1..MaxBuckets
    BY <1>h, LimiterAssumption DEF Mapped
  <2>2. req'[r] \in Holding
    BY <1>n, <1>u, <2>1 DEF Holding
  <2>3. req' \in [Req -> Holding \cup {Idle}]
    BY <1>q, <1>n, <2>2
  <2>4. \A i \in 1..Len(heap') : heap'[i].credit <= Capacity
    <3>1. fresh.credit = Capacity
      BY DEF fresh
    <3>2. \A i \in 1..Len(heap) : heap[i].credit <= Capacity
      BY <1>t DEF TypeOK
    <3> QED
      BY <1>h, <3>1, <3>2
  <2>5. lastSeen' \in [IP -> 0..clock]
    BY <1>t, <1>l, <1>u DEF TypeOK
  <2> QED
    BY <1>t, <1>u, <1>h, <2>3, <2>4, <2>5 DEF TypeOK
<1>2. NoSplitBucket'
  BY <1>o, <1>n, <1>a DEF IInv, NoSplitBucket
<1>3. NeverRicher'
  <2> SUFFICES ASSUME NEW jp \in IP, Mapped(jp)'
               PROVE  Available(heap'[entry'[jp]]) <= ideal[jp]
    BY <1>u DEF NeverRicher, Mapped, Available
  <2>1. CASE Mapped(jp)
    <3>1. entry[jp] \in 1..Len(heap)
      BY <1>t, <2>1 DEF TypeOK, Mapped
    <3>2. heap'[entry'[jp]] = heap[entry[jp]]
      BY <1>h, <2>1, <3>1
    <3> QED
      BY <2>1, <3>2 DEF IInv, NeverRicher, Mapped
  <2>2. CASE ~Mapped(jp)
    <3>1. jp = ip
      BY <1>h, <2>2 DEF Mapped
    <3>2. ideal[ip] = Capacity
      BY <2>2, <3>1 DEF IInv, FullWhenDropped
    <3>3. Available(fresh) = Capacity
      BY <1>u DEF Available, Min2, fresh
    <3> QED
      BY <1>h, <2>2, <3>1, <3>2, <3>3
  <2> QED
    BY <2>1, <2>2
<1>4. OwnBucket'
  <2>1. \A jp \in IP : entry[jp] \in 0..Len(heap) /\ Len(heap) \in Nat
    BY <1>t DEF TypeOK
  <2> QED
    BY <1>h, <2>1 DEF IInv, OwnBucket, Mapped
<1>5. FullWhenDropped'
  BY <1>u, <1>h DEF IInv, FullWhenDropped, Mapped
<1>6. Recovering'
  <2> SUFFICES ASSUME NEW jp \in IP
               PROVE  ideal[jp] >= Min2(Capacity, clock - lastSeen'[jp] - Stall)
    BY <1>u DEF Recovering
  <2>1. ideal[jp] \in 0..Capacity /\ lastSeen \in [IP -> 0..clock]
    BY <1>t DEF TypeOK
  <2>2. CASE jp = ip
    BY <1>u, <1>l, <2>1, <2>2 DEF Min2
  <2>3. CASE jp # ip
    BY <1>l, <2>1, <2>3 DEF IInv, Recovering
  <2> QED
    BY <2>2, <2>3
<1>7. Prompt'
  <2> SUFFICES ASSUME NEW s \in Req, req'[s] # Idle
               PROVE  req'[s].since <= lastSeen'[req'[s].ip] /\ clock <= req'[s].since + Stall
    BY <1>u DEF Prompt
  <2>0. lastSeen \in [IP -> 0..clock]
    BY <1>t DEF TypeOK
  <2>1. CASE s = r
    BY <1>n, <1>l, <1>u, <2>0, <2>1
  <2>2. CASE s # r
    <3>1. req'[s] = req[s] /\ req[s] # Idle /\ req[s].ip \in IP
      BY <1>o, <1>a, <2>2
    <3>2. req[s].since <= lastSeen[req[s].ip] /\ clock <= req[s].since + Stall
      BY <3>1 DEF IInv, Prompt
    <3>3. req[s].since \in Nat
      BY <1>q, <3>1 DEF Holding
    <3> QED
      BY <1>l, <1>u, <2>0, <3>1, <3>2, <3>3
  <2> QED
    BY <2>1, <2>2
<1>8. \A s \in Req : Refused(s)' => Refused(s) /\ req'[s] = req[s]
  BY <1>o, <1>n DEF Refused
<1>9. \A s \in Req : Refused(s) => heap'[entry'[req[s].ip]] = heap[entry[req[s].ip]]
  BY <1>h, <1>a DEF Refused
<1>10. Chained'
  BY <1>u, <1>8, <1>9 DEF IInv, Chained, Balance, Available
<1>11. DistinctDues'
  BY <1>8 DEF IInv, DistinctDues
<1> QED
  BY <1>1, <1>2, <1>3, <1>4, <1>5, <1>6, <1>7, <1>10, <1>11 DEF IInv

-----------------------------------------------------------------------------
(* Reserve and Cancel: both replace one bucket, the one of the request.    *)

\* What the invariant says of a request in flight and of its bucket.
LEMMA HolderFacts ==
    ASSUME NEW r \in Req, req[r] # Idle, IInv
    PROVE  /\ req[r].ip \in IP /\ req[r].since \in Nat /\ req[r].due \in Nat
           /\ req[r] \in Holding
           /\ req[r].bucket = entry[req[r].ip]
           /\ req[r].bucket \in 1..Len(heap)
           /\ Mapped(req[r].ip)
           /\ heap[req[r].bucket] \in Bucket
           /\ heap[req[r].bucket].credit \in Int
           /\ heap[req[r].bucket].last \in Nat
           /\ heap[req[r].bucket].event \in Nat
           /\ Balance(req[r].ip) = Available(heap[req[r].bucket])
           /\ Balance(req[r].ip) \in Int
           /\ Balance(req[r].ip) <= ideal[req[r].ip]
           /\ Balance(req[r].ip) <= Capacity
           /\ ideal[req[r].ip] \in 0..Capacity
           /\ clock \in Nat
<1> USE CapacityFacts
<1>t. TypeOK
  BY DEF IInv
<1>1. req[r] \in Holding
  BY <1>t DEF TypeOK
<1>2. /\ req[r].ip \in IP /\ req[r].since \in Nat /\ req[r].due \in Nat
      /\ req[r].bucket \in 1..MaxBuckets
  BY <1>1 DEF Holding
<1>3. req[r].bucket = entry[req[r].ip]
  BY DEF IInv, NoSplitBucket
<1>4. req[r].bucket \in 1..Len(heap) /\ Mapped(req[r].ip)
  <2>1. entry[req[r].ip] \in 0..Len(heap) /\ Len(heap) \in Nat
    BY <1>t, <1>2 DEF TypeOK
  <2> QED
    BY <1>2, <1>3, <2>1 DEF Mapped
<1>5. heap[req[r].bucket] \in Bucket
  BY <1>t, <1>4, ElementOfSeq DEF TypeOK
<1>6. /\ heap[req[r].bucket].credit \in Int /\ heap[req[r].bucket].last \in Nat
      /\ heap[req[r].bucket].event \in Nat
  BY <1>5 DEF Bucket
<1>7. ideal[req[r].ip] \in 0..Capacity /\ clock \in Nat
  BY <1>t, <1>2 DEF TypeOK
<1>8. Balance(req[r].ip) = Available(heap[req[r].bucket])
  BY <1>3 DEF Balance
<1>9. Balance(req[r].ip) <= ideal[req[r].ip]
  BY <1>2, <1>4 DEF IInv, NeverRicher, Balance, Mapped
<1>10. Balance(req[r].ip) \in Int /\ Balance(req[r].ip) <= Capacity
  BY <1>6, <1>7, <1>8 DEF Available, Min2
<1> QED
  BY <1>1, <1>2, <1>3, <1>4, <1>5, <1>6, <1>7, <1>8, <1>9, <1>10

\* Replacing the bucket of one client leaves every other client's alone.
LEMMA ReplaceBucket ==
    ASSUME NEW ip \in IP, IInv, Mapped(ip),
           NEW b \in Bucket, b.credit <= Capacity,
           heap' = [heap EXCEPT ![entry[ip]] = b]
    PROVE  /\ heap' \in Seq(Bucket)
           /\ Len(heap') = Len(heap)
           /\ heap'[entry[ip]] = b
           /\ \A i \in 1..Len(heap') : heap'[i].credit <= Capacity
           /\ \A jp \in IP : Mapped(jp) /\ jp # ip => heap'[entry[jp]] = heap[entry[jp]]
<1>t. TypeOK
  BY DEF IInv
<1>1. heap \in Seq(Bucket) /\ Len(heap) \in Nat
  BY <1>t DEF TypeOK
<1>2. \A jp \in IP : Mapped(jp) => entry[jp] \in 1..Len(heap)
  BY <1>t, <1>1 DEF TypeOK, Mapped
<1>3. /\ heap' \in Seq(Bucket) /\ Len(heap') = Len(heap)
      /\ \A j \in 1..Len(heap) : heap'[j] = IF j = entry[ip] THEN b ELSE heap[j]
  BY <1>1, <1>2, ExceptSeq
<1>4. \A i \in 1..Len(heap) : heap[i].credit <= Capacity
  BY <1>t DEF TypeOK
<1>5. \A jp \in IP : Mapped(jp) /\ jp # ip => entry[jp] # entry[ip]
  BY DEF IInv, OwnBucket
<1> QED
  BY <1>2, <1>3, <1>4, <1>5

\* The requests about to be cancelled keep their bucket in debt: it ends after now.
LEMMA InDebt ==
    ASSUME NEW r \in Req, Refused(r), IInv
    PROVE  /\ Balance(req[r].ip) < 0
           /\ heap[entry[req[r].ip]].event = clock - Balance(req[r].ip)
           /\ req[r].due > clock
           /\ req[r].due <= heap[entry[req[r].ip]].event
<1> USE CapacityFacts
<1>1. req[r] # Idle
  BY DEF Refused
<1>2. /\ req[r].due > clock
      /\ heap[entry[req[r].ip]].event = clock - Balance(req[r].ip)
      /\ \E k \in Nat : req[r].due = heap[entry[req[r].ip]].event - k * Period
  BY DEF IInv, Chained
<1>3. PICK k \in Nat : req[r].due = heap[entry[req[r].ip]].event - k * Period
  BY <1>2
<1>4. k * Period \in Nat
  OBVIOUS
<1>5. /\ req[r].due \in Nat /\ heap[entry[req[r].ip]].event \in Nat /\ clock \in Nat
      /\ Balance(req[r].ip) \in Int
  BY <1>1, HolderFacts
<1> QED
  BY <1>2, <1>3, <1>4, <1>5

\* A request let through: the bucket and the ideal one pay the same price.
LEMMA AdmitEffect ==
    ASSUME NEW r \in Req, IInv, Reserve(r),
           Available(heap[req[r].bucket]) >= Period
    PROVE  LET ip == req[r].ip IN
           \E b \in Bucket :
               /\ b.credit = Balance(ip) - Period /\ b.last = clock
               /\ heap' = [heap EXCEPT ![entry[ip]] = b]
               /\ req' = [req EXCEPT ![r] = Idle]
               /\ ideal' = [ideal EXCEPT ![ip] = @ - Period]
               /\ admitted' = [admitted EXCEPT ![ip] = @ + 1]
               /\ retryAt' = [retryAt EXCEPT ![ip] = 0]
               /\ UNCHANGED <<clock, entry, lastSeen>>
<1> USE CapacityFacts
<1>n. req[r] # Idle /\ req[r].step = "take"
  BY DEF Reserve, Idle
<1>p. PICK ip \in IP : ip = req[r].ip
  BY <1>n, HolderFacts
<1>f. /\ req[r].bucket = entry[ip] /\ clock \in Nat
      /\ Balance(ip) = Available(heap[req[r].bucket]) /\ Balance(ip) \in Int
  BY <1>n, <1>p, HolderFacts
<1>l. PICK left \in Nat : left = Balance(ip) - Period
  BY <1>f
<1>b. PICK b \in Bucket : /\ b = [credit |-> left, last |-> clock, event |-> clock]
                          /\ b.credit = left /\ b.last = clock
  <2> DEFINE c == [credit |-> left, last |-> clock, event |-> clock]
  <2>1. c \in Bucket /\ c.credit = left /\ c.last = clock
    BY <1>f, <1>l DEF Bucket
  <2> QED
    BY <2>1
<1>d. /\ heap' = [heap EXCEPT ![entry[ip]] = b]
      /\ req' = [req EXCEPT ![r] = Idle]
      /\ ideal' = [ideal EXCEPT ![ip] = @ - Period]
      /\ admitted' = [admitted EXCEPT ![ip] = @ + 1]
      /\ retryAt' = [retryAt EXCEPT ![ip] = 0]
      /\ UNCHANGED <<clock, entry, lastSeen>>
  <2>1. left = Available(heap[req[r].bucket]) - Period
    BY <1>f, <1>l
  <2>2. ~(left < 0) /\ ~(0 > 0) /\ clock + 0 = clock
    BY <1>f
  <2> QED
    BY <1>p, <1>f, <1>b, <2>1, <2>2 DEF Reserve
<1> QED
  BY <1>p, <1>l, <1>b, <1>d

LEMMA AdmitIInv ==
    ASSUME NEW r \in Req, IInv, Reserve(r),
           Available(heap[req[r].bucket]) >= Period
    PROVE  IInv' /\ Contract!Admit(req[r].ip)
<1> USE CapacityFacts
<1>t. TypeOK
  BY DEF IInv
<1>n. req[r] # Idle /\ req[r].step = "take"
  BY DEF Reserve, Idle
<1>p. PICK ip \in IP : ip = req[r].ip
  BY <1>n, HolderFacts
<1>f. /\ Mapped(ip) /\ req[r].bucket = entry[ip]
      /\ Balance(ip) = Available(heap[req[r].bucket]) /\ Balance(ip) \in Int
      /\ Balance(ip) <= ideal[ip] /\ Balance(ip) <= Capacity
      /\ ideal[ip] \in 0..Capacity /\ clock \in Nat /\ req[r].since \in Nat
  BY <1>n, <1>p, HolderFacts
<1>l. PICK left \in Nat : left = Balance(ip) - Period /\ left <= Capacity
  BY <1>f
<1>d. PICK b \in Bucket :
        /\ b.credit = left /\ b.last = clock
        /\ heap' = [heap EXCEPT ![entry[ip]] = b]
        /\ req' = [req EXCEPT ![r] = Idle]
        /\ ideal' = [ideal EXCEPT ![ip] = @ - Period]
        /\ admitted' = [admitted EXCEPT ![ip] = @ + 1]
        /\ retryAt' = [retryAt EXCEPT ![ip] = 0]
        /\ UNCHANGED <<clock, entry, lastSeen>>
  BY <1>p, <1>l, AdmitEffect
<1>h. /\ heap' \in Seq(Bucket) /\ Len(heap') = Len(heap) /\ heap'[entry[ip]] = b
      /\ \A i \in 1..Len(heap') : heap'[i].credit <= Capacity
      /\ \A jp \in IP : Mapped(jp) /\ jp # ip => heap'[entry[jp]] = heap[entry[jp]]
  <2>1. b.credit <= Capacity
    BY <1>d, <1>l
  <2>2. heap' = [heap EXCEPT ![entry[ip]] = b]
    BY <1>d
  <2> QED
    BY <1>f, <2>1, <2>2, ReplaceBucket
<1>v. Available(heap[entry[ip]])' = left
  BY <1>d, <1>h, <1>l, <1>f DEF Available, Min2
<1>o. \A s \in Req : req'[s] # Idle => s # r /\ req'[s] = req[s]
  BY <1>d, <1>t DEF TypeOK
<1>i. /\ ideal'[ip] = ideal[ip] - Period /\ ideal'[ip] >= left /\ ideal'[ip] \in 0..Capacity
      /\ \A jp \in IP : jp # ip => ideal'[jp] = ideal[jp]
  BY <1>d, <1>f, <1>l, <1>t DEF TypeOK
\* Nobody is cancelling: the bucket would be in debt.
<1>r. \A s \in Req : Refused(s) => req[s].ip # ip
  BY <1>p, <1>f, <1>l, InDebt
<1>1. TypeOK'
  <2>1. ideal' \in [IP -> 0..Capacity]
    BY <1>t, <1>d, <1>i DEF TypeOK
  <2>2. admitted \in [IP -> Nat] /\ retryAt \in [IP -> Nat]
    BY <1>t DEF TypeOK
  <2>3. req' \in [Req -> Holding \cup {Idle}]
    BY <1>t, <1>d DEF TypeOK
  <2> QED
    BY <1>t, <1>d, <1>h, <2>1, <2>2, <2>3 DEF TypeOK
<1>2. NoSplitBucket' /\ Prompt'
  BY <1>d, <1>o DEF IInv, NoSplitBucket, Prompt
<1>3. NeverRicher'
  <2> SUFFICES ASSUME NEW jp \in IP, Mapped(jp)
               PROVE  Available(heap[entry[jp]])' <= ideal'[jp]
    BY <1>d DEF NeverRicher, Mapped
  <2>1. CASE jp = ip
    BY <1>v, <1>i, <2>1
  <2>2. CASE jp # ip
    BY <1>h, <1>d, <1>i, <2>2 DEF IInv, NeverRicher, Available, Mapped
  <2> QED
    BY <2>1, <2>2
<1>4. OwnBucket'
  BY <1>d DEF IInv, OwnBucket, Mapped
<1>5. FullWhenDropped'
  BY <1>d, <1>f, <1>i DEF IInv, FullWhenDropped, Mapped
<1>6. Recovering'
  <2> SUFFICES ASSUME NEW jp \in IP
               PROVE  ideal'[jp] >= Min2(Capacity, clock - lastSeen[jp] - Stall)
    BY <1>d DEF Recovering
  <2>1. CASE jp = ip
    <3>1. req[r].since <= lastSeen[ip] /\ clock <= req[r].since + Stall
      BY <1>n, <1>p DEF IInv, Prompt
    <3>2. lastSeen[ip] \in Nat
      BY <1>t, <1>f DEF TypeOK
    <3> QED
      BY <1>f, <1>i, <2>1, <3>1, <3>2 DEF Min2
  <2>2. CASE jp # ip
    BY <1>i, <2>2 DEF IInv, Recovering
  <2> QED
    BY <2>1, <2>2
<1>7. \A s \in Req : Refused(s)' => Refused(s) /\ req'[s] = req[s] /\ req[s].ip # ip
  BY <1>o, <1>r DEF Refused
<1>8. Chained'
  <2> SUFFICES ASSUME NEW s \in Req, Refused(s)'
               PROVE  /\ req[s].due > clock
                      /\ heap'[entry[req[s].ip]].event = clock - Balance(req[s].ip)'
                      /\ \E k \in Nat : req[s].due = heap'[entry[req[s].ip]].event - k * Period
                      /\ ideal'[req[s].ip] >= clock + Period - req[s].due
    BY <1>7, <1>d DEF Chained
  <2>1. req[s] # Idle /\ Refused(s) /\ req[s].ip # ip
    BY <1>7 DEF Refused
  <2>2. req[s].ip \in IP /\ Mapped(req[s].ip)
    BY <2>1, HolderFacts
  <2>3. heap'[entry[req[s].ip]] = heap[entry[req[s].ip]] /\ ideal'[req[s].ip] = ideal[req[s].ip]
    BY <1>h, <1>i, <2>1, <2>2
  <2>4. Balance(req[s].ip)' = Balance(req[s].ip)
    BY <1>d, <1>7, <2>3 DEF Balance, Available
  <2> QED
    BY <2>1, <2>3, <2>4 DEF IInv, Chained
<1>9. DistinctDues'
  BY <1>7 DEF IInv, DistinctDues
<1>10. Contract!Admit(req[r].ip)
  <2>1. ideal[ip] >= Period
    BY <1>f, <1>l
  <2> QED
    BY <1>d, <1>p, <2>1 DEF Contract!Admit
<1> QED
  BY <1>1, <1>2, <1>3, <1>4, <1>5, <1>6, <1>8, <1>9, <1>10 DEF IInv

\* A request refused: its reservation goes to the end of the chain.
LEMMA RefuseEffect ==
    ASSUME NEW r \in Req, IInv, Reserve(r),
           Available(heap[req[r].bucket]) < Period
    PROVE  LET ip == req[r].ip
               delay == Period - Balance(ip)
           IN  \E b \in Bucket :
                 /\ b.credit = -delay /\ b.last = clock /\ b.event = clock + delay
                 /\ heap' = [heap EXCEPT ![entry[ip]] = b]
                 /\ req' = [req EXCEPT ![r].step = "cancel", ![r].due = clock + delay]
                 /\ retryAt' = [retryAt EXCEPT ![ip] = clock + RetryAfter(delay) * Second]
                 /\ UNCHANGED <<clock, entry, lastSeen, ideal, admitted>>
<1> USE CapacityFacts
<1>n. req[r] # Idle
  BY DEF Reserve, Idle
<1>p. PICK ip \in IP : ip = req[r].ip
  BY <1>n, HolderFacts
<1>f. /\ req[r].bucket = entry[ip] /\ clock \in Nat
      /\ Balance(ip) = Available(heap[req[r].bucket]) /\ Balance(ip) \in Int
  BY <1>n, <1>p, HolderFacts
<1>l. PICK delay \in Nat : delay = Period - Balance(ip) /\ delay > 0
  BY <1>f
<1>b. PICK b \in Bucket : /\ b = [credit |-> -delay, last |-> clock, event |-> clock + delay]
                          /\ b.credit = -delay /\ b.last = clock /\ b.event = clock + delay
  <2> DEFINE c == [credit |-> -delay, last |-> clock, event |-> clock + delay]
  <2>1. /\ c \in Bucket /\ c.credit = -delay /\ c.last = clock /\ c.event = clock + delay
    BY <1>f, <1>l DEF Bucket
  <2> QED
    BY <2>1
<1>d. /\ heap' = [heap EXCEPT ![entry[ip]] = b]
      /\ req' = [req EXCEPT ![r].step = "cancel", ![r].due = clock + delay]
      /\ retryAt' = [retryAt EXCEPT ![ip] = clock + RetryAfter(delay) * Second]
      /\ UNCHANGED <<clock, entry, lastSeen, ideal, admitted>>
  <2>1. /\ Available(heap[req[r].bucket]) - Period = -delay
        /\ -delay < 0 /\ -(-delay) = delay /\ delay # 0
    BY <1>f, <1>l
  <2> QED
    BY <1>p, <1>f, <1>b, <2>1 DEF Reserve
<1> QED
  BY <1>p, <1>l, <1>b, <1>d

LEMMA RefuseIInv ==
    ASSUME NEW r \in Req, IInv, Reserve(r),
           Available(heap[req[r].bucket]) < Period
    PROVE  IInv' /\ UNCHANGED <<clock, ideal, admitted>>
<1> USE CapacityFacts
<1>t. TypeOK
  BY DEF IInv
<1>n. req[r] # Idle /\ req[r].step = "take" /\ req[r] \in Holding
  <2>1. req[r] # Idle /\ req[r].step = "take"
    BY DEF Reserve, Idle
  <2> QED
    BY <2>1, HolderFacts
<1>p. PICK ip \in IP : ip = req[r].ip
  BY <1>n, HolderFacts
<1>f. /\ Mapped(ip) /\ req[r].bucket = entry[ip]
      /\ Balance(ip) = Available(heap[req[r].bucket]) /\ Balance(ip) \in Int
      /\ Balance(ip) <= ideal[ip] /\ Balance(ip) <= Capacity
      /\ ideal[ip] \in 0..Capacity /\ clock \in Nat
  BY <1>n, <1>p, HolderFacts
<1>l. PICK delay \in Nat : delay = Period - Balance(ip) /\ delay > 0
  BY <1>f
<1>d. PICK b \in Bucket :
        /\ b.credit = -delay /\ b.last = clock /\ b.event = clock + delay
        /\ heap' = [heap EXCEPT ![entry[ip]] = b]
        /\ req' = [req EXCEPT ![r].step = "cancel", ![r].due = clock + delay]
        /\ retryAt' = [retryAt EXCEPT ![ip] = clock + RetryAfter(delay) * Second]
        /\ UNCHANGED <<clock, entry, lastSeen, ideal, admitted>>
  BY <1>p, <1>l, RefuseEffect
<1>h. /\ heap' \in Seq(Bucket) /\ Len(heap') = Len(heap) /\ heap'[entry[ip]] = b
      /\ \A i \in 1..Len(heap') : heap'[i].credit <= Capacity
      /\ \A jp \in IP : Mapped(jp) /\ jp # ip => heap'[entry[jp]] = heap[entry[jp]]
  <2>1. b.credit <= Capacity
    BY <1>d, <1>l
  <2> QED
    BY <1>f, <1>d, <2>1, ReplaceBucket
<1>v. Balance(ip)' = -delay
  <2>1. heap'[entry'[ip]] = b /\ clock' = clock
    BY <1>d, <1>h
  <2> QED
    BY <1>d, <1>l, <1>f, <2>1 DEF Balance, Available, Min2
<1>q. /\ req'[r] \in Holding /\ req'[r] # Idle /\ req'[r].ip = ip
      /\ req'[r].bucket = req[r].bucket /\ req'[r].since = req[r].since
      /\ req'[r].step = "cancel" /\ req'[r].due = clock + delay
      /\ \A s \in Req : s # r => req'[s] = req[s]
  <2>1. req'[r] = [req[r] EXCEPT !.step = "cancel", !.due = clock + delay]
    BY <1>t, <1>d DEF TypeOK
  <2>2. req'[r] \in Holding
    <3>1. clock + delay \in Nat
      BY <1>f
    <3> QED
      BY <1>n, <2>1, <3>1 DEF Holding
  <2>3. /\ req'[r].ip = ip /\ req'[r].bucket = req[r].bucket /\ req'[r].since = req[r].since
        /\ req'[r].step = "cancel" /\ req'[r].due = clock + delay
    BY <1>n, <1>p, <2>1 DEF Holding
  <2>4. \A s \in Req : s # r => req'[s] = req[s]
    BY <1>t, <1>d DEF TypeOK
  <2>5. req'[r] # Idle
    BY <2>3 DEF Idle
  <2> QED
    BY <2>2, <2>3, <2>4, <2>5
<1>1. TypeOK'
  <2>1. clock + RetryAfter(delay) * Second \in Nat
    BY <1>f, RetryAfterNat
  <2>2. retryAt' \in [IP -> Nat]
    BY <1>t, <1>d, <2>1 DEF TypeOK
  <2>3. req' \in [Req -> Holding \cup {Idle}]
    BY <1>t, <1>d, <1>q DEF TypeOK
  <2> QED
    BY <1>t, <1>d, <1>h, <2>2, <2>3 DEF TypeOK
<1>2. NoSplitBucket'
  BY <1>d, <1>q, <1>f DEF IInv, NoSplitBucket
<1>3. NeverRicher'
  <2> SUFFICES ASSUME NEW jp \in IP, Mapped(jp)
               PROVE  Available(heap[entry[jp]])' <= ideal[jp]
    BY <1>d DEF NeverRicher, Mapped
  <2>1. CASE jp = ip
    BY <1>v, <1>f, <1>l, <2>1 DEF Balance
  <2>2. CASE jp # ip
    BY <1>h, <1>d, <2>2 DEF IInv, NeverRicher, Available, Mapped
  <2> QED
    BY <2>1, <2>2
<1>4. OwnBucket' /\ FullWhenDropped' /\ Recovering'
  BY <1>d DEF IInv, OwnBucket, FullWhenDropped, Recovering, Mapped
<1>5. Prompt'
  <2> SUFFICES ASSUME NEW s \in Req, req'[s] # Idle
               PROVE  req'[s].since <= lastSeen[req'[s].ip] /\ clock <= req'[s].since + Stall
    BY <1>d DEF Prompt
  <2>1. req[s] # Idle /\ req'[s].ip = req[s].ip /\ req'[s].since = req[s].since
    BY <1>q, <1>n, <1>p
  <2> QED
    BY <2>1 DEF IInv, Prompt
\* The reservations made before this one are due at least Period earlier.
<1>6. \A s \in Req : Refused(s)' /\ s # r => Refused(s) /\ req'[s] = req[s]
  BY <1>q DEF Refused
<1>7. \A s \in Req : Refused(s) /\ req[s].ip = ip =>
         /\ heap[entry[ip]].event = clock - Balance(ip)
         /\ req[s].due \in Nat /\ req[s].due < clock + delay
  <2> SUFFICES ASSUME NEW s \in Req, Refused(s), req[s].ip = ip
               PROVE  /\ heap[entry[ip]].event = clock - Balance(ip)
                      /\ req[s].due \in Nat /\ req[s].due < clock + delay
    OBVIOUS
  <2>1. req[s].due \in Nat
    BY HolderFacts DEF Refused
  <2> QED
    BY <1>f, <1>l, <2>1, InDebt
<1>8. Chained'
  <2> SUFFICES ASSUME NEW s \in Req, Refused(s)'
               PROVE  /\ req'[s].due > clock
                      /\ heap'[entry[req'[s].ip]].event = clock - Balance(req[s].ip)'
                      /\ \E k \in Nat : req'[s].due = heap'[entry[req'[s].ip]].event - k * Period
                      /\ ideal[req'[s].ip] >= clock + Period - req'[s].due
    BY <1>d DEF Chained
  <2>1. CASE s = r
    <3>1. req'[s].due = clock + delay /\ req'[s].ip = ip /\ heap'[entry[ip]].event = clock + delay
      BY <1>q, <1>h, <1>d, <2>1
    <3>2. clock + delay = clock + delay - 0 * Period
      BY <1>f
    <3>3. heap'[entry[ip]].event = clock - Balance(req[s].ip)'
      BY <1>v, <1>f, <1>l, <3>1
    <3> QED
      BY <1>f, <1>l, <3>1, <3>2, <3>3
  <2>2. CASE s # r /\ req[s].ip = ip
    <3>1. Refused(s) /\ req'[s] = req[s] /\ req[s].due \in Nat
      BY <1>6, <1>7, <2>2
    <3>2. /\ req[s].due > clock /\ heap[entry[ip]].event = clock - Balance(ip)
          /\ \E k \in Nat : req[s].due = heap[entry[ip]].event - k * Period
          /\ ideal[ip] >= clock + Period - req[s].due
      BY <2>2, <3>1 DEF IInv, Chained
    <3>3. PICK k \in Nat : req[s].due = heap[entry[ip]].event - k * Period
      BY <3>2
    <3>4. (k + 1) * Period = k * Period + Period /\ k * Period \in Nat /\ k + 1 \in Nat
      OBVIOUS
    <3>5. heap'[entry[ip]].event = heap[entry[ip]].event + Period
      BY <1>h, <1>d, <1>f, <1>l, <3>2
    <3>6. req[s].due = heap'[entry[ip]].event - (k + 1) * Period
      BY <1>f, <3>2, <3>3, <3>4, <3>5
    <3>7. heap'[entry[ip]].event = clock - Balance(ip)'
      BY <1>v, <1>h, <1>d, <1>f, <1>l
    <3>8. req'[s].ip = ip /\ Balance(req[s].ip)' = Balance(ip)'
      BY <2>2, <3>1
    <3> QED
      BY <3>1, <3>2, <3>4, <3>6, <3>7, <3>8
  <2>3. CASE s # r /\ req[s].ip # ip
    <3>1. Refused(s) /\ req'[s] = req[s] /\ req[s] # Idle
      BY <1>6, <2>3 DEF Refused
    <3>2. req[s].ip \in IP /\ Mapped(req[s].ip)
      BY <3>1, HolderFacts
    <3>3. heap'[entry[req[s].ip]] = heap[entry[req[s].ip]]
      BY <1>h, <2>3, <3>2
    <3>4. Balance(req[s].ip)' = Balance(req[s].ip)
      BY <1>d, <3>1, <3>3 DEF Balance, Available
    <3> QED
      BY <3>1, <3>3, <3>4 DEF IInv, Chained
  <2> QED
    BY <2>1, <2>2, <2>3
<1>9. DistinctDues'
  <2> SUFFICES ASSUME NEW s \in Req, NEW u \in Req, Refused(s)', Refused(u)',
                      req'[s].ip = req'[u].ip, req'[s].due = req'[u].due
               PROVE  s = u
    BY DEF DistinctDues
  <2>1. CASE s # r /\ u # r
    BY <1>6, <2>1 DEF IInv, DistinctDues
  <2>2. CASE s = r /\ u # r
    BY <1>6, <1>7, <1>q, <1>f, <1>l, <2>2
  <2>3. CASE s # r /\ u = r
    BY <1>6, <1>7, <1>q, <1>f, <1>l, <2>3
  <2> QED
    BY <2>1, <2>2, <2>3
<1> QED
  BY <1>d, <1>1, <1>2, <1>3, <1>4, <1>5, <1>8, <1>9 DEF IInv

\* A reservation cancelled: only the last of the chain gives its token back.
LEMMA CancelEffect ==
    ASSUME NEW r \in Req, IInv, Cancel(r), req[r].due = heap[entry[req[r].ip]].event
    PROVE  LET ip == req[r].ip IN
           \E b \in Bucket :
               /\ b.credit = Balance(ip) + Period /\ b.credit <= Capacity /\ b.credit <= ideal[ip]
               /\ b.last = clock
               /\ b.event = IF req[r].due - Period >= clock THEN req[r].due - Period
                            ELSE heap[entry[ip]].event
               /\ heap' = [heap EXCEPT ![entry[ip]] = b]
<1> USE CapacityFacts
<1>n. Refused(r)
  BY DEF Cancel, Idle, Refused
<1>p. PICK ip \in IP : ip = req[r].ip
  BY <1>n, HolderFacts DEF Refused
<1>f. /\ req[r].bucket = entry[ip]
      /\ Balance(ip) = Available(heap[entry[ip]]) /\ Balance(ip) \in Int /\ Balance(ip) < 0
      /\ ideal[ip] \in 0..Capacity /\ clock \in Nat /\ req[r].due \in Nat
      /\ heap[entry[ip]].event = clock - Balance(ip) /\ req[r].due > clock
  BY <1>n, <1>p, HolderFacts, InDebt DEF Refused
<1>c. req[r].due = heap[entry[ip]].event /\ ideal[ip] >= clock + Period - req[r].due
  BY <1>n, <1>p DEF IInv, Chained
<1>a. PICK credit \in Int : credit = Balance(ip) + Period /\ credit <= Capacity
                             /\ credit <= ideal[ip]
  BY <1>f, <1>c
<1>e. PICK event \in Nat :
          event = IF req[r].due - Period >= clock THEN req[r].due - Period
                  ELSE heap[entry[ip]].event
  BY <1>f
<1>b. PICK b \in Bucket : /\ b = [credit |-> credit, last |-> clock, event |-> event]
                          /\ b.credit = credit /\ b.last = clock /\ b.event = event
  <2> DEFINE c == [credit |-> credit, last |-> clock, event |-> event]
  <2>1. c \in Bucket /\ c.credit = credit /\ c.last = clock /\ c.event = event
    BY <1>f DEF Bucket
  <2> QED
    BY <2>1
<1>d. heap' = [heap EXCEPT ![entry[ip]] = b]
  <2>1. Period - (heap[entry[ip]].event - req[r].due) = Period /\ ~(Period <= 0)
    BY <1>c, <1>f
  <2>2. Min2(Capacity, Available(heap[entry[ip]]) + Period) = credit
    BY <1>f, <1>a DEF Min2
  <2> QED
    BY <1>c, <1>f, <1>e, <1>b, <2>1, <2>2 DEF Cancel
<1> QED
  BY <1>p, <1>a, <1>e, <1>b, <1>d

LEMMA CancelIInv ==
    ASSUME NEW r \in Req, IInv, Cancel(r)
    PROVE  IInv' /\ UNCHANGED <<clock, ideal, admitted>>
<1> USE CapacityFacts
<1>t. TypeOK
  BY DEF IInv
<1>n. req[r] # Idle /\ Refused(r)
  BY DEF Cancel, Idle, Refused
<1>p. PICK ip \in IP : ip = req[r].ip
  BY <1>n, HolderFacts
<1>f. /\ Mapped(ip) /\ req[r].bucket = entry[ip]
      /\ Balance(ip) = Available(heap[entry[ip]]) /\ Balance(ip) \in Int
      /\ Balance(ip) <= ideal[ip] /\ Balance(ip) < 0
      /\ ideal[ip] \in 0..Capacity /\ clock \in Nat /\ req[r].due \in Nat
      /\ heap[entry[ip]] \in Bucket /\ heap[entry[ip]].event \in Nat
      /\ heap[entry[ip]].event = clock - Balance(ip) /\ req[r].due > clock
  BY <1>n, <1>p, HolderFacts, InDebt
<1>c. /\ \E k \in Nat : req[r].due = heap[entry[ip]].event - k * Period
      /\ ideal[ip] >= clock + Period - req[r].due
  BY <1>n, <1>p DEF IInv, Chained
<1>d. req' = [req EXCEPT ![r] = Idle] /\ UNCHANGED <<clock, entry, lastSeen, ideal, admitted, retryAt>>
  BY DEF Cancel
<1>o. \A s \in Req : req'[s] # Idle => s # r /\ req'[s] = req[s]
  BY <1>d, <1>t DEF TypeOK
<1>q. req' \in [Req -> Holding \cup {Idle}]
  BY <1>t, <1>d DEF TypeOK
<1>r. \A s \in Req : Refused(s)' => s # r /\ Refused(s) /\ req'[s] = req[s]
  BY <1>o DEF Refused
<1>k. /\ NoSplitBucket' /\ OwnBucket' /\ FullWhenDropped' /\ Recovering' /\ Prompt'
      /\ DistinctDues'
  <2>1. NoSplitBucket' /\ Prompt'
    BY <1>d, <1>o DEF IInv, NoSplitBucket, Prompt
  <2>2. OwnBucket' /\ FullWhenDropped' /\ Recovering'
    BY <1>d DEF IInv, OwnBucket, FullWhenDropped, Recovering, Mapped
  <2>3. DistinctDues'
    BY <1>r DEF IInv, DistinctDues
  <2> QED
    BY <2>1, <2>2, <2>3
\* Not the last one: what was reserved after it keeps its token.
<1>1. CASE req[r].due # heap[entry[ip]].event
  <2>1. PICK n \in Nat : req[r].due = heap[entry[ip]].event - n * Period
    BY <1>c
  <2>2. n * Period >= Period
    <3>1. n # 0
      BY <1>1, <1>f, <2>1
    <3>2. n = (n - 1) + 1 /\ n - 1 \in Nat
      BY <3>1
    <3>3. n * Period = (n - 1) * Period + Period /\ (n - 1) * Period \in Nat
      BY <3>2
    <3> QED
      BY <3>3
  <2>3. n * Period \in Nat
    OBVIOUS
  <2>4. Period - (heap[entry[ip]].event - req[r].due) <= 0
    BY <1>f, <2>1, <2>2, <2>3
  <2>5. heap' = heap
    BY <1>f, <2>4 DEF Cancel
  <2>6. TypeOK'
    BY <1>t, <1>d, <1>q, <2>5 DEF TypeOK
  <2>7. NeverRicher'
    BY <1>d, <2>5 DEF IInv, NeverRicher, Available
  <2>8. Chained'
    <3>1. \A s \in Req : Refused(s)' => Refused(s) /\ req'[s] = req[s]
      BY <1>r
    <3>2. heap' = heap /\ entry' = entry /\ clock' = clock
      BY <1>d, <2>5
    <3>3. \A jp \in IP : Balance(jp)' = Balance(jp)
      BY <3>2 DEF Balance, Available
    <3> SUFFICES ASSUME NEW s \in Req, Refused(s)'
                 PROVE  (LET jp == req[s].ip IN
                         /\ req[s].due > clock
                         /\ heap[entry[jp]].event = clock - Balance(jp)
                         /\ \E k \in Nat : req[s].due = heap[entry[jp]].event - k * Period
                         /\ ideal[jp] >= clock + Period - req[s].due)'
      BY Zenon DEF Chained
    <3>4. Refused(s) /\ req'[s] = req[s]
      BY <3>1
    <3>5. req[s].ip \in IP
      BY <3>4, HolderFacts DEF Refused
    <3>6. /\ req[s].due > clock
          /\ heap[entry[req[s].ip]].event = clock - Balance(req[s].ip)
          /\ \E k \in Nat : req[s].due = heap[entry[req[s].ip]].event - k * Period
          /\ ideal[req[s].ip] >= clock + Period - req[s].due
      BY <3>4 DEF IInv, Chained
    <3> QED
      BY <1>d, <3>2, <3>3, <3>4, <3>5, <3>6
  <2> QED
    BY <1>d, <1>k, <2>6, <2>7, <2>8 DEF IInv
\* The last one: its token comes back, and the event moves to the one before.
<1>2. CASE req[r].due = heap[entry[ip]].event
  <2>b. PICK b \in Bucket :
          /\ b.credit = Balance(ip) + Period /\ b.credit <= Capacity /\ b.credit <= ideal[ip]
          /\ b.last = clock
          /\ b.event = IF req[r].due - Period >= clock THEN req[r].due - Period
                       ELSE heap[entry[ip]].event
          /\ heap' = [heap EXCEPT ![entry[ip]] = b]
    BY <1>2, <1>p, CancelEffect
  <2>c. PICK event \in Nat : event = b.event
    BY DEF Bucket
  <2>h. /\ heap' \in Seq(Bucket) /\ Len(heap') = Len(heap) /\ heap'[entry[ip]] = b
        /\ \A i \in 1..Len(heap') : heap'[i].credit <= Capacity
        /\ \A jp \in IP : Mapped(jp) /\ jp # ip => heap'[entry[jp]] = heap[entry[jp]]
    BY <1>f, <2>b, ReplaceBucket
  <2>v. Balance(ip)' = Balance(ip) + Period
    BY <1>d, <1>f, <2>b, <2>h DEF Balance, Available, Min2
  <2>1. TypeOK'
    BY <1>t, <1>d, <1>q, <2>h DEF TypeOK
  <2>2. NeverRicher'
    <3> SUFFICES ASSUME NEW jp \in IP, Mapped(jp)
                 PROVE  Available(heap[entry[jp]])' <= ideal[jp]
      BY <1>d DEF NeverRicher, Mapped
    <3>1. CASE jp = ip
      BY <1>f, <2>v, <2>b, <3>1 DEF Balance
    <3>2. CASE jp # ip
      BY <1>d, <2>h, <3>2 DEF IInv, NeverRicher, Available, Mapped
    <3> QED
      BY <3>1, <3>2
  <2>3. Chained'
    <3> SUFFICES ASSUME NEW s \in Req, Refused(s)'
                 PROVE  /\ req[s].due > clock
                        /\ heap'[entry[req[s].ip]].event = clock - Balance(req[s].ip)'
                        /\ \E k \in Nat : req[s].due = heap'[entry[req[s].ip]].event - k * Period
                        /\ ideal[req[s].ip] >= clock + Period - req[s].due
      BY <1>d, <1>r DEF Chained
    <3>0. s # r /\ Refused(s) /\ req'[s] = req[s] /\ req[s] # Idle
      BY <1>r DEF Refused
    <3>1. CASE req[s].ip = ip
      <4>1. /\ req[s].due > clock /\ req[s].due \in Nat
            /\ \E k \in Nat : req[s].due = heap[entry[ip]].event - k * Period
            /\ ideal[ip] >= clock + Period - req[s].due
        BY <3>0, <3>1, HolderFacts DEF IInv, Chained
      <4>2. req[s].due # heap[entry[ip]].event
        BY <1>2, <1>n, <1>p, <3>0, <3>1 DEF IInv, DistinctDues
      <4>3. PICK k \in Nat : req[s].due = heap[entry[ip]].event - k * Period
        BY <4>1
      <4>4. k # 0
        BY <1>f, <4>2, <4>3
      <4>5. /\ k - 1 \in Nat /\ (k - 1) * Period \in Nat
            /\ k * Period = (k - 1) * Period + Period
        <5>1. k - 1 \in Nat /\ k = (k - 1) + 1
          BY <4>4
        <5> QED
          BY <5>1
      <4>6. event = heap[entry[ip]].event - Period
        BY <1>2, <1>f, <2>b, <2>c, <4>1, <4>3, <4>5
      <4>7. req[s].due = heap'[entry[ip]].event - (k - 1) * Period
        BY <1>f, <2>h, <2>c, <4>3, <4>5, <4>6
      <4>8. heap'[entry[ip]].event = clock - Balance(ip)'
        BY <1>2, <1>f, <2>v, <2>b, <2>h, <2>c, <4>6
      <4>9. Balance(req[s].ip)' = Balance(ip)'
        BY <3>0, <3>1
      <4> QED
        BY <3>1, <4>1, <4>5, <4>7, <4>8, <4>9
    <3>2. CASE req[s].ip # ip
      <4>1. req[s].ip \in IP /\ Mapped(req[s].ip)
        BY <3>0, HolderFacts
      <4>2. heap'[entry[req[s].ip]] = heap[entry[req[s].ip]]
        BY <2>h, <3>2, <4>1
      <4>3. Balance(req[s].ip)' = Balance(req[s].ip)
        BY <1>d, <3>0, <4>2 DEF Balance, Available
      <4> QED
        BY <3>0, <4>2, <4>3 DEF IInv, Chained
    <3> QED
      BY <3>1, <3>2
  <2> QED
    BY <1>d, <1>k, <2>1, <2>2, <2>3 DEF IInv
<1> QED
  BY <1>1, <1>2

-----------------------------------------------------------------------------
(* The theorems.                                                           *)

\* A step of the limiter keeps the invariant and is a step of the bucket that is
\* never dropped, or leaves that bucket alone.
LEMMA StepIInv == IInv /\ [Next]_vars => IInv' /\ [Contract!Next]_Contract!bvars
<1> SUFFICES ASSUME IInv, [Next]_vars
             PROVE  IInv' /\ [Contract!Next]_Contract!bvars
  OBVIOUS
<1> USE DEF Contract!bvars
<1>1. ASSUME NEW r \in Req, NEW ip \in IP, Get(r, ip)
      PROVE  IInv' /\ [Contract!Next]_Contract!bvars
  <2>1. UNCHANGED <<clock, ideal, admitted>>
    BY <1>1 DEF Get
  <2> QED
    BY <1>1, <2>1, GetIInv
<1>2. ASSUME NEW r \in Req, Reserve(r)
      PROVE  IInv' /\ [Contract!Next]_Contract!bvars
  <2>1. req[r] # Idle
    BY <1>2 DEF Reserve, Idle
  <2>2. req[r].ip \in IP /\ Available(heap[req[r].bucket]) \in Int /\ Period \in Int
    BY <2>1, HolderFacts, CapacityFacts
  <2>3. CASE Available(heap[req[r].bucket]) >= Period
    BY <1>2, <2>2, <2>3, AdmitIInv DEF Contract!Next
  <2>4. CASE Available(heap[req[r].bucket]) < Period
    BY <1>2, <2>4, RefuseIInv
  <2> QED
    BY <2>2, <2>3, <2>4
<1>3. ASSUME NEW r \in Req, Cancel(r)
      PROVE  IInv' /\ [Contract!Next]_Contract!bvars
  BY <1>3, CancelIInv
<1>4. CASE Evict
  <2>1. UNCHANGED <<clock, ideal, admitted>>
    BY <1>4 DEF Evict
  <2> QED
    BY <1>4, <2>1, EvictIInv
<1>5. CASE Tick
  <2>1. clock' = clock + 1 /\ UNCHANGED admitted
        /\ ideal' = [ip \in IP |-> Min2(Capacity, ideal[ip] + 1)]
    BY <1>5 DEF Tick
  <2>2. \A ip \in IP : ideal[ip] \in 0..Capacity
    BY DEF IInv, TypeOK
  <2>3. \A ip \in IP : Min2(Capacity, ideal[ip] + 1) = Contract!Refilled(ideal[ip])
    BY <2>2, CapacityFacts DEF Min2, Contract!Refilled, Contract!Capacity, Capacity
  <2>4. Contract!Tick
    BY <2>1, <2>3 DEF Contract!Tick
  <2> QED
    BY <1>5, <2>4, TickIInv DEF Contract!Next
<1>6. CASE UNCHANGED vars
  <2>1. UNCHANGED <<clock, heap, entry, lastSeen, req, ideal, admitted, retryAt>>
    BY <1>6 DEF vars
  <2>2. IInv'
    BY <2>1 DEF IInv, TypeOK, Bucket, Holding, NoSplitBucket, NeverRicher, OwnBucket,
                FullWhenDropped, Recovering, Prompt, Chained, DistinctDues, Refused,
                Mapped, Balance, Available
  <2> QED
    BY <2>1, <2>2
<1> QED
  BY <1>1, <1>2, <1>3, <1>4, <1>5, <1>6 DEF Next

\* The inductive invariant of the limiter.
THEOREM LimiterInvariant == Spec => []IInv
<1>1. Init => IInv
  BY InitIInv
<1>2. IInv /\ [Next]_vars => IInv'
  BY StepIInv
<1> QED
  BY <1>1, <1>2, PTL DEF Spec

\* limiterStore and take: the types of the state, and buckets in the map never richer
\* than the ideal ones.
THEOREM LimiterSafety == Spec => [](TypeOK /\ NeverRicher)
<1>1. IInv => TypeOK /\ NeverRicher
  BY DEF IInv
<1> QED
  BY <1>1, LimiterInvariant, PTL

\* No request spends from a bucket that was evicted, and perhaps replaced, after get.
THEOREM LimiterNeverSplits == Spec => []NoSplitBucket
<1>1. IInv => NoSplitBucket
  BY DEF IInv
<1> QED
  BY <1>1, LimiterInvariant, PTL

\* The contract: evicting and recreating buckets, and refusing by reserve and
\* cancel, are invisible: each admission is one that a bucket of the client's own,
\* never dropped, allows as well.
THEOREM LimiterImplementsBucket == Spec => ContractKept
<1>1. Init => Contract!Init
  BY DEF Init, Contract!Init, Contract!Capacity, Capacity
<1>2. IInv /\ [Next]_vars => [Contract!Next]_Contract!bvars
  BY StepIInv
<1> QED
  BY <1>1, <1>2, LimiterInvariant, PTL DEF Spec, ContractKept, Contract!Spec

\* What an admission has cost so far plus what is left never exceeds a full bucket
\* plus the ticks gone by.
Books == \A ip \in IP : admitted[ip] * Period + ideal[ip] <= Capacity + clock

LEMMA BooksKept == IInv /\ Books /\ [Contract!Next]_Contract!bvars => Books'
<1> SUFFICES ASSUME IInv, Books, [Contract!Next]_Contract!bvars, NEW ip \in IP
             PROVE  admitted'[ip] * Period + ideal'[ip] <= Capacity + clock'
  BY DEF Books
<1>1. /\ admitted[ip] \in Nat /\ ideal[ip] \in 0..Capacity /\ clock \in Nat
      /\ admitted \in [IP -> Nat] /\ ideal \in [IP -> 0..Capacity]
  BY DEF IInv, TypeOK
<1>2. admitted[ip] * Period + ideal[ip] <= Capacity + clock
  BY DEF Books
<1>3. CASE Contract!Tick
  <2>1. ideal'[ip] = Contract!Refilled(ideal[ip]) /\ admitted' = admitted /\ clock' = clock + 1
    BY <1>3 DEF Contract!Tick
  <2>2. ideal'[ip] <= ideal[ip] + 1 /\ ideal'[ip] \in Nat
    BY <1>1, <2>1, CapacityFacts DEF Contract!Refilled
  <2>3. admitted[ip] * Period \in Nat
    BY <1>1, CapacityFacts
  <2> QED
    BY <1>1, <1>2, <2>1, <2>2, <2>3, CapacityFacts
<1>4. ASSUME NEW jp \in IP, Contract!Admit(jp)
      PROVE  admitted'[ip] * Period + ideal'[ip] <= Capacity + clock'
  <2>1. /\ ideal' = [ideal EXCEPT ![jp] = @ - Period] /\ clock' = clock
        /\ admitted' = [admitted EXCEPT ![jp] = @ + 1]
    BY <1>4 DEF Contract!Admit
  <2>2. CASE jp = ip
    <3>1. ideal'[ip] = ideal[ip] - Period /\ admitted'[ip] = admitted[ip] + 1
      BY <1>1, <2>1, <2>2
    <3>2. (admitted[ip] + 1) * Period = admitted[ip] * Period + Period
      BY <1>1, CapacityFacts
    <3>3. admitted[ip] * Period \in Nat
      BY <1>1, CapacityFacts
    <3> QED
      BY <1>1, <1>2, <2>1, <3>1, <3>2, <3>3, CapacityFacts
  <2>3. CASE jp # ip
    BY <1>1, <1>2, <2>1, <2>3
  <2> QED
    BY <2>2, <2>3
<1>5. CASE UNCHANGED Contract!bvars
  BY <1>2, <1>5 DEF Contract!bvars
<1> QED
  BY <1>3, <1>4, <1>5 DEF Contract!Next

\* The law a client feels: in the first t ticks it is let through at most
\* Burst + t / Period times, whatever the interleaving and the sweeps.
THEOREM LimiterWithinRate == Spec => []WithinRate
<1>1. Init => Books
  <2> SUFFICES ASSUME Init, NEW ip \in IP
               PROVE  admitted[ip] * Period + ideal[ip] <= Capacity + clock
    BY DEF Books
  <2>1. admitted[ip] = 0 /\ ideal[ip] = Capacity /\ clock = 0
    BY DEF Init
  <2>2. 0 * Period = 0
    BY CapacityFacts
  <2> QED
    BY <2>1, <2>2, CapacityFacts
<1>2. IInv /\ Books /\ [Next]_vars => Books'
  BY StepIInv, BooksKept
<1>3. IInv /\ Books => WithinRate
  <2> SUFFICES ASSUME IInv, Books, NEW ip \in IP
               PROVE  admitted[ip] * Period <= Contract!Capacity + clock
    BY DEF WithinRate, Contract!WithinRate
  <2>1. /\ admitted[ip] \in Nat /\ ideal[ip] \in 0..Capacity /\ clock \in Nat
    BY DEF IInv, TypeOK
  <2>2. admitted[ip] * Period \in Nat
    BY <2>1, CapacityFacts
  <2>3. admitted[ip] * Period + ideal[ip] <= Capacity + clock
    BY DEF Books
  <2>4. Contract!Capacity = Capacity
    BY DEF Contract!Capacity, Capacity
  <2> QED
    BY <2>1, <2>2, <2>3, <2>4, CapacityFacts
<1> QED
  BY <1>1, <1>2, <1>3, LimiterInvariant, PTL DEF Spec

-----------------------------------------------------------------------------
(* Refusals one at a time (not crowded).  Here the law is an equation.     *)

OneAtATime ==
    \A r, s \in Req : Refused(r) /\ Refused(s) /\ req[r].ip = req[s].ip => r = s

\* A bucket holds what the ideal one does, less the token that is about to come back.
Exact ==
    \A ip \in IP : Mapped(ip) =>
        /\ (\A r \in Req : Refused(r) => req[r].ip # ip) => Balance(ip) = ideal[ip]
        /\ \A r \in Req : Refused(r) /\ req[r].ip = ip =>
              req[r].due = heap[entry[ip]].event /\ ideal[ip] = Balance(ip) + Period

\* A client that was told to come back at retryAt has a token by then.
Returning ==
    \A ip \in IP : retryAt[ip] # 0 => ideal[ip] >= Min2(Capacity, Period + clock - retryAt[ip])

Alone == OneAtATime /\ Exact /\ Returning

\* Rounding the wait to seconds rounds it up.
LEMMA RetryAfterEnough ==
    ASSUME NEW wait \in Nat, wait > 0
    PROVE  RetryAfter(wait) * Second >= wait /\ RetryAfter(wait) * Second \in Nat
<1>1. Second \in Nat \ {0}
  BY LimiterAssumption
<1> DEFINE x == wait + Second - 1
           d == x \div Second
<1>2. x \in Nat
  BY <1>1
<1>3. d \in Nat /\ Second * d > x - Second
  <2> HIDE DEF x
  <2> QED
    BY <1>1, <1>2
<1>4. RetryAfter(wait) = d
  BY DEF RetryAfter
<1> HIDE DEF d
<1>5. d * Second = Second * d /\ d * Second \in Nat
  BY <1>1, <1>3
<1> QED
  BY <1>1, <1>3, <1>4, <1>5

LEMMA InitAlone == Init => Alone
<1> SUFFICES ASSUME Init PROVE Alone
  OBVIOUS
<1>1. OneAtATime /\ Returning
  BY DEF Init, OneAtATime, Returning, Refused
<1>2. Exact
  BY DEF Init, Exact, Mapped
<1> QED
  BY <1>1, <1>2 DEF Alone

\* Where buckets, clock and ideal credit stay and nobody is refused anew, nothing changes.
LEMMA OthersAlone ==
    ASSUME NEW jp \in IP, Exact, Mapped(jp), clock' = clock, ideal'[jp] = ideal[jp],
           Mapped(jp)', heap'[entry'[jp]] = heap[entry[jp]],
           \A r \in Req : Refused(r) /\ req[r].ip = jp <=> Refused(r)' /\ req'[r].ip = jp,
           \A r \in Req : Refused(r) /\ req[r].ip = jp => req'[r] = req[r]
    PROVE  /\ (\A r \in Req : Refused(r)' => req'[r].ip # jp) => Balance(jp)' = ideal'[jp]
           /\ \A r \in Req : Refused(r)' /\ req'[r].ip = jp =>
                req'[r].due = heap'[entry'[jp]].event /\ ideal'[jp] = Balance(jp)' + Period
<1>1. Balance(jp)' = Balance(jp)
  BY DEF Balance, Available
<1> QED
  BY <1>1 DEF Exact

LEMMA EvictAlone == ASSUME IInv, Alone, Evict PROVE Alone'
<1>u. UNCHANGED <<clock, heap, lastSeen, req, ideal, admitted, retryAt>>
  BY DEF Evict
<1>e. \A ip \in IP : Mapped(ip)' => Mapped(ip) /\ entry'[ip] = entry[ip]
  BY DEF Evict, Mapped
<1>1. OneAtATime' /\ Returning'
  BY <1>u DEF Alone, OneAtATime, Returning, Refused
<1>2. Exact'
  <2> SUFFICES ASSUME NEW ip \in IP, Mapped(ip)'
               PROVE  /\ (\A r \in Req : Refused(r)' => req'[r].ip # ip)
                           => Balance(ip)' = ideal'[ip]
                      /\ \A r \in Req : Refused(r)' /\ req'[r].ip = ip =>
                           /\ req'[r].due = heap'[entry'[ip]].event
                           /\ ideal'[ip] = Balance(ip)' + Period
    BY DEF Exact
  <2> QED
    BY <1>u, <1>e, OthersAlone DEF Alone, Refused
<1> QED
  BY <1>1, <1>2 DEF Alone

LEMMA TickAlone == ASSUME IInv, Alone, Tick PROVE Alone'
<1> USE CapacityFacts
<1>t. TypeOK
  BY DEF IInv
<1>u. UNCHANGED <<heap, entry, lastSeen, req, admitted, retryAt>>
  BY DEF Tick
<1>c. clock \in Nat /\ clock' = clock + 1
  BY <1>t DEF Tick, TypeOK
<1>i. \A ip \in IP : /\ ideal[ip] \in 0..Capacity /\ retryAt[ip] \in Nat
                     /\ ideal'[ip] = Min2(Capacity, ideal[ip] + 1)
  BY <1>t DEF Tick, TypeOK
<1>r. \A r \in Req : ~Refused(r) /\ ~Refused(r)'
  BY <1>t, <1>u DEF Tick, Refused, TypeOK, Holding, Idle
<1>1. OneAtATime'
  BY <1>r DEF OneAtATime
<1>2. Exact'
  <2> SUFFICES ASSUME NEW ip \in IP, Mapped(ip)' PROVE Balance(ip)' = ideal'[ip]
    BY <1>r DEF Exact
  <2>1. Mapped(ip) /\ entry' = entry /\ heap' = heap
    BY <1>u DEF Mapped
  <2>2. heap[entry[ip]] \in Bucket
    BY <1>t, <2>1, ElementOfSeq DEF TypeOK, Mapped
  <2>3. heap[entry[ip]].credit \in Int /\ heap[entry[ip]].last \in Nat
    BY <2>2 DEF Bucket
  <2>4. Available(heap[entry[ip]]) = ideal[ip]
    BY <1>r, <2>1 DEF Alone, Exact, Balance
  <2> QED
    BY <1>c, <1>i, <2>1, <2>3, <2>4 DEF Balance, Available, Min2
<1>3. Returning'
  BY <1>u, <1>c, <1>i DEF Alone, Returning, Min2
<1> QED
  BY <1>1, <1>2, <1>3 DEF Alone

LEMMA GetAlone == ASSUME NEW r \in Req, NEW ip \in IP, IInv, Alone, Get(r, ip) PROVE Alone'
<1> USE CapacityFacts
<1>t. TypeOK
  BY DEF IInv
<1>u. UNCHANGED <<clock, ideal, admitted, retryAt>> /\ clock \in Nat
  BY <1>t DEF Get, TypeOK
<1>q. \A s \in Req : (Refused(s)' <=> Refused(s)) /\ (Refused(s) => req'[s] = req[s])
  BY <1>t DEF Get, Refused, TypeOK, Idle
<1> DEFINE fresh == [credit |-> Capacity, last |-> clock, event |-> 0]
<1>h. \A jp \in IP : Mapped(jp)' =>
         \/ Mapped(jp) /\ heap'[entry'[jp]] = heap[entry[jp]]
         \/ jp = ip /\ ~Mapped(ip) /\ heap'[entry'[ip]] = fresh
  <2>1. CASE Mapped(ip)
    BY <2>1 DEF Get, Mapped
  <2>2. CASE ~Mapped(ip)
    <3>1. heap' = Append(heap, fresh) /\ entry' = [entry EXCEPT ![ip] = Len(heap) + 1]
      BY <2>2 DEF Get, Mapped
    <3>2. heap \in Seq(Bucket) /\ fresh \in Bucket
      BY <1>t, <1>u DEF TypeOK, Bucket
    <3>3. /\ heap'[Len(heap) + 1] = fresh
          /\ \A i \in 1..Len(heap) : heap'[i] = heap[i]
      <4> HIDE DEF fresh
      <4> QED
        BY <3>1, <3>2, AppendProperties
    <3>4. \A jp \in IP : Mapped(jp) => entry[jp] \in 1..Len(heap)
      BY <1>t DEF TypeOK, Mapped
    <3>5. entry'[ip] = Len(heap) + 1 /\ \A jp \in IP : jp # ip => entry'[jp] = entry[jp]
      BY <1>t, <3>1 DEF TypeOK
    <3> HIDE DEF fresh
    <3> QED
      BY <2>2, <3>3, <3>4, <3>5 DEF Mapped
  <2> QED
    BY <2>1, <2>2
<1>1. OneAtATime' /\ Returning'
  BY <1>u, <1>q DEF Alone, OneAtATime, Returning
<1>2. Exact'
  <2> SUFFICES ASSUME NEW jp \in IP, Mapped(jp)'
               PROVE  /\ (\A s \in Req : Refused(s)' => req'[s].ip # jp)
                           => Balance(jp)' = ideal'[jp]
                      /\ \A s \in Req : Refused(s)' /\ req'[s].ip = jp =>
                           /\ req'[s].due = heap'[entry'[jp]].event
                           /\ ideal'[jp] = Balance(jp)' + Period
    BY DEF Exact
  <2>1. CASE Mapped(jp)
    BY <1>u, <1>q, <1>h, <2>1, OthersAlone DEF Alone
  <2>2. CASE ~Mapped(jp)
    <3>1. heap'[entry'[jp]] = fresh /\ ideal[jp] = Capacity
      BY <1>h, <2>2 DEF IInv, FullWhenDropped
    <3>2. Balance(jp)' = Capacity
      BY <1>u, <3>1 DEF Balance, Available, Min2
    <3>3. \A s \in Req : Refused(s)' => req'[s].ip # jp
      BY <1>q, <2>2, HolderFacts DEF Refused
    <3> QED
      BY <1>u, <3>1, <3>2, <3>3
  <2> QED
    BY <2>1, <2>2
<1> QED
  BY <1>1, <1>2 DEF Alone

\* A bucket written at this tick holds what was written.
LEMMA Rewritten ==
    ASSUME NEW ip \in IP, IInv, Mapped(ip), NEW b \in Bucket, b.credit <= Capacity,
           b.last = clock, heap' = [heap EXCEPT ![entry[ip]] = b], clock' = clock, entry' = entry
    PROVE  /\ Balance(ip)' = b.credit /\ heap'[entry'[ip]] = b
           /\ \A jp \in IP : Mapped(jp) /\ jp # ip =>
                heap'[entry'[jp]] = heap[entry[jp]] /\ Mapped(jp)'
<1>1. /\ heap'[entry[ip]] = b
      /\ \A jp \in IP : Mapped(jp) /\ jp # ip => heap'[entry[jp]] = heap[entry[jp]]
  BY ReplaceBucket
<1>2. b.credit \in Int /\ clock \in Nat
  BY DEF Bucket, IInv, TypeOK
<1>3. Balance(ip)' = b.credit
  BY <1>1, <1>2, CapacityFacts DEF Balance, Available, Min2
<1> QED
  BY <1>1, <1>3 DEF Mapped

\* A reservation ends with a token taken from both buckets, or with one to come back.
LEMMA ReserveAlone ==
    ASSUME NEW r \in Req, IInv, Alone, Reserve(r), OneAtATime' PROVE Alone'
<1> USE CapacityFacts
<1>t. TypeOK
  BY DEF IInv
<1>n. req[r] # Idle /\ ~Refused(r)
  BY DEF Reserve, Idle, Refused
<1>p. PICK ip \in IP : ip = req[r].ip
  BY <1>n, HolderFacts
<1>f. /\ Mapped(ip) /\ Balance(ip) \in Int /\ Balance(ip) <= Capacity
      /\ Available(heap[req[r].bucket]) = Balance(ip)
      /\ ideal[ip] \in 0..Capacity /\ clock \in Nat
  BY <1>n, <1>p, HolderFacts
<1>1. CASE Balance(ip) >= Period
  <2>1. PICK b \in Bucket :
          /\ b.credit = Balance(ip) - Period /\ b.last = clock
          /\ heap' = [heap EXCEPT ![entry[ip]] = b]
          /\ req' = [req EXCEPT ![r] = Idle]
          /\ ideal' = [ideal EXCEPT ![ip] = @ - Period]
          /\ retryAt' = [retryAt EXCEPT ![ip] = 0]
          /\ UNCHANGED <<clock, entry>>
    BY <1>1, <1>f, <1>p, AdmitEffect
  <2>2. b.credit <= Capacity /\ clock' = clock /\ entry' = entry
    BY <1>f, <2>1
  <2>3. /\ Balance(ip)' = Balance(ip) - Period
        /\ \A jp \in IP : Mapped(jp) /\ jp # ip =>
             heap'[entry'[jp]] = heap[entry[jp]] /\ Mapped(jp)'
    BY <1>f, <2>1, <2>2, Rewritten
  <2>4. /\ ideal'[ip] = ideal[ip] - Period /\ retryAt'[ip] = 0
        /\ \A jp \in IP : jp # ip => ideal'[jp] = ideal[jp] /\ retryAt'[jp] = retryAt[jp]
    BY <1>t, <2>1 DEF TypeOK
  <2>5. \A s \in Req : (Refused(s)' <=> Refused(s)) /\ (Refused(s) => req'[s] = req[s])
    BY <1>t, <1>n, <2>1 DEF TypeOK, Refused
  <2>6. \A s \in Req : Refused(s) => req[s].ip # ip
    BY <1>1, <1>f, InDebt
  <2>7. Exact'
    <3> SUFFICES ASSUME NEW jp \in IP, Mapped(jp)'
                 PROVE  /\ (\A s \in Req : Refused(s)' => req'[s].ip # jp)
                             => Balance(jp)' = ideal'[jp]
                        /\ \A s \in Req : Refused(s)' /\ req'[s].ip = jp =>
                             /\ req'[s].due = heap'[entry'[jp]].event
                             /\ ideal'[jp] = Balance(jp)' + Period
      BY DEF Exact
    <3>1. CASE jp = ip
      <4>1. Balance(ip) = ideal[ip]
        BY <1>f, <2>6 DEF Alone, Exact
      <4> QED
        BY <2>3, <2>4, <2>5, <2>6, <3>1, <4>1
    <3>2. CASE jp # ip
      <4>1. Mapped(jp)
        BY <2>2 DEF Mapped
      <4> QED
        BY <2>2, <2>3, <2>4, <2>5, <3>2, <4>1, OthersAlone DEF Alone
    <3> QED
      BY <3>1, <3>2
  <2>8. Returning'
    BY <2>2, <2>4 DEF Alone, Returning
  <2> QED
    BY <2>7, <2>8 DEF Alone
<1>2. CASE Balance(ip) < Period
  <2> DEFINE delay == Period - Balance(ip)
  <2>0. delay \in Nat /\ delay > 0
    BY <1>2, <1>f
  <2>1. PICK b \in Bucket :
          /\ b.credit = -delay /\ b.last = clock /\ b.event = clock + delay
          /\ heap' = [heap EXCEPT ![entry[ip]] = b]
          /\ req' = [req EXCEPT ![r].step = "cancel", ![r].due = clock + delay]
          /\ retryAt' = [retryAt EXCEPT ![ip] = clock + RetryAfter(delay) * Second]
          /\ UNCHANGED <<clock, entry, ideal>>
    BY <1>2, <1>f, <1>p, RefuseEffect
  <2>2. b.credit <= Capacity /\ clock' = clock /\ entry' = entry /\ ideal' = ideal
    BY <1>f, <2>0, <2>1
  <2>3. /\ Balance(ip)' = -delay /\ heap'[entry'[ip]].event = clock + delay
        /\ \A jp \in IP : Mapped(jp) /\ jp # ip =>
             heap'[entry'[jp]] = heap[entry[jp]] /\ Mapped(jp)'
    BY <1>f, <2>1, <2>2, Rewritten
  <2>4. /\ Refused(r)' /\ req'[r].ip = ip /\ req'[r].due = clock + delay
        /\ \A s \in Req : s # r => req'[s] = req[s] /\ (Refused(s)' <=> Refused(s))
    <3>1. req[r] \in Holding
      BY <1>n, HolderFacts
    <3>2. req'[r] = [req[r] EXCEPT !.step = "cancel", !.due = clock + delay]
      BY <1>t, <2>1 DEF TypeOK
    <3>3. req'[r].step = "cancel" /\ req'[r].ip = ip /\ req'[r].due = clock + delay
      BY <1>p, <3>1, <3>2 DEF Holding
    <3>4. req'[r] # Idle
      BY <3>3 DEF Idle
    <3>5. \A s \in Req : s # r => req'[s] = req[s]
      BY <1>t, <2>1 DEF TypeOK
    <3> QED
      BY <3>3, <3>4, <3>5 DEF Refused
  \* Nobody else of the client is being refused: two would be.
  <2>5. \A s \in Req : Refused(s) => req[s].ip # ip
    BY <1>n, <2>4 DEF OneAtATime
  <2>6. Balance(ip) = ideal[ip]
    BY <1>f, <2>5 DEF Alone, Exact
  <2> HIDE DEF delay
  <2>7. Exact'
    <3> SUFFICES ASSUME NEW jp \in IP, Mapped(jp)'
                 PROVE  /\ (\A s \in Req : Refused(s)' => req'[s].ip # jp)
                             => Balance(jp)' = ideal'[jp]
                        /\ \A s \in Req : Refused(s)' /\ req'[s].ip = jp =>
                             /\ req'[s].due = heap'[entry'[jp]].event
                             /\ ideal'[jp] = Balance(jp)' + Period
      BY DEF Exact
    <3>1. CASE jp = ip
      <4>1. ideal'[ip] = Balance(ip)' + Period
        BY <1>f, <2>2, <2>3, <2>6 DEF delay
      <4>2. \A s \in Req : Refused(s)' /\ req'[s].ip = ip => s = r
        BY <2>4, <2>5
      <4> QED
        BY <2>3, <2>4, <3>1, <4>1, <4>2
    <3>2. CASE jp # ip
      <4>1. Mapped(jp)
        BY <2>2 DEF Mapped
      <4>2. \A s \in Req : /\ Refused(s) /\ req[s].ip = jp <=> Refused(s)' /\ req'[s].ip = jp
                           /\ Refused(s) /\ req[s].ip = jp => req'[s] = req[s]
        BY <1>n, <2>4, <3>2
      <4> QED
        BY <2>2, <2>3, <3>2, <4>1, <4>2, OthersAlone DEF Alone
    <3> QED
      BY <3>1, <3>2
  <2>8. Returning'
    <3>1. RetryAfter(delay) * Second >= delay /\ RetryAfter(delay) * Second \in Nat
      BY <2>0, RetryAfterEnough
    <3>2. /\ retryAt'[ip] = clock + RetryAfter(delay) * Second
          /\ \A jp \in IP : jp # ip => retryAt'[jp] = retryAt[jp]
      BY <1>t, <2>1 DEF TypeOK
    <3>3. ideal'[ip] >= Min2(Capacity, Period + clock' - retryAt'[ip])
      BY <1>f, <2>0, <2>2, <2>6, <3>1, <3>2 DEF delay, Min2
    <3> QED
      BY <2>2, <3>2, <3>3 DEF Alone, Returning
  <2> QED
    BY <2>7, <2>8 DEF Alone
<1> QED
  BY <1>1, <1>2, <1>f

LEMMA CancelAlone == ASSUME NEW r \in Req, IInv, Alone, Cancel(r), OneAtATime' PROVE Alone'
<1> USE CapacityFacts
<1>t. TypeOK
  BY DEF IInv
<1>n. req[r] # Idle /\ Refused(r)
  BY DEF Cancel, Idle, Refused
<1>p. PICK ip \in IP : ip = req[r].ip
  BY <1>n, HolderFacts
<1>f. Mapped(ip) /\ req[r].due = heap[entry[ip]].event /\ ideal[ip] = Balance(ip) + Period
  BY <1>n, <1>p, HolderFacts DEF Alone, Exact
<1>1. /\ req' = [req EXCEPT ![r] = Idle]
      /\ UNCHANGED <<clock, entry, lastSeen, ideal, admitted, retryAt>>
  BY DEF Cancel
<1>2. PICK b \in Bucket :
        /\ b.credit = Balance(ip) + Period /\ b.credit <= Capacity /\ b.last = clock
        /\ heap' = [heap EXCEPT ![entry[ip]] = b]
  BY <1>p, <1>f, CancelEffect
<1>3. /\ Balance(ip)' = ideal[ip]
      /\ \A jp \in IP : Mapped(jp) /\ jp # ip =>
           heap'[entry'[jp]] = heap[entry[jp]] /\ Mapped(jp)'
  BY <1>f, <1>1, <1>2, Rewritten
<1>4. \A s \in Req : /\ Refused(s)' => s # r /\ Refused(s)
                     /\ s # r => req'[s] = req[s] /\ (Refused(s)' <=> Refused(s))
  BY <1>t, <1>1 DEF TypeOK, Refused
<1>5. \A s \in Req : Refused(s)' => req'[s].ip # ip
  BY <1>n, <1>p, <1>4 DEF Alone, OneAtATime
<1>6. Exact'
  <2> SUFFICES ASSUME NEW jp \in IP, Mapped(jp)'
               PROVE  /\ (\A s \in Req : Refused(s)' => req'[s].ip # jp)
                           => Balance(jp)' = ideal'[jp]
                      /\ \A s \in Req : Refused(s)' /\ req'[s].ip = jp =>
                           /\ req'[s].due = heap'[entry'[jp]].event
                           /\ ideal'[jp] = Balance(jp)' + Period
    BY DEF Exact
  <2>1. CASE jp = ip
    BY <1>1, <1>3, <1>5, <2>1
  <2>2. CASE jp # ip
    <3>1. Mapped(jp)
      BY <1>1 DEF Mapped
    <3>2. \A s \in Req : /\ Refused(s) /\ req[s].ip = jp <=> Refused(s)' /\ req'[s].ip = jp
                         /\ Refused(s) /\ req[s].ip = jp => req'[s] = req[s]
      BY <1>p, <1>4, <2>2
    <3> QED
      BY <1>1, <1>3, <2>2, <3>1, <3>2, OthersAlone DEF Alone
  <2> QED
    BY <2>1, <2>2
<1>7. Returning'
  BY <1>1 DEF Alone, Returning
<1> QED
  BY <1>6, <1>7 DEF Alone

LEMMA StepAlone == IInv /\ (crowded \/ Alone) /\ [MCNext]_<<vars, crowded>> => (crowded \/ Alone)'
<1> SUFFICES ASSUME IInv, crowded \/ Alone, [MCNext]_<<vars, crowded>>, ~crowded' PROVE Alone'
  OBVIOUS
<1>1. CASE UNCHANGED <<vars, crowded>>
  <2>1. UNCHANGED <<clock, heap, entry, lastSeen, req, ideal, admitted, retryAt, crowded>>
    BY <1>1 DEF vars
  <2> QED
    BY <2>1 DEF Alone, OneAtATime, Exact, Returning, Refused, Mapped, Balance, Available
<1>2. CASE MCNext
  <2>1. ~crowded /\ Alone /\ Next
    BY <1>2 DEF MCNext
  <2>2. OneAtATime'
    <3>1. \A r, s \in Cancelling' : req'[r].ip = req'[s].ip => r = s
      BY <1>2 DEF MCNext
    <3>2. \A r \in Req : Refused(r)' => r \in Cancelling'
      BY DEF Refused, Cancelling
    <3> QED
      BY <3>1, <3>2 DEF OneAtATime
  <2> QED
    BY <2>1, <2>2, GetAlone, ReserveAlone, CancelAlone, EvictAlone, TickAlone DEF Next
<1> QED
  BY <1>1, <1>2

\* Until two requests of a client are refused at once, each bucket is the ideal one.
LEMMA AloneInvariant == MCSpec => [](IInv /\ (crowded \/ Alone))
<1>1. MCSpec => Spec
  <2>1. MCInit => Init
    BY DEF MCInit
  <2>2. [MCNext]_<<vars, crowded>> => [Next]_vars
    BY DEF MCNext, vars
  <2> QED
    BY <2>1, <2>2, PTL DEF MCSpec, Spec
<1>2. MCInit => crowded \/ Alone
  BY InitAlone DEF MCInit
<1> QED
  BY <1>1, <1>2, StepAlone, LimiterInvariant, PTL DEF MCSpec

\* Refused one at a time, a request costs its client nothing, whatever is evicted and
\* recreated, and whatever the rate and the burst are.
THEOREM LimiterRefusesFree == MCSpec => []RefusedAloneIsFree
<1>1. IInv /\ (crowded \/ Alone) => RefusedAloneIsFree
  BY DEF Alone, Exact, RefusedAloneIsFree, RefusalIsFree, Quiet, Refused, Mapped, Balance
<1> QED
  BY <1>1, AloneInvariant, PTL

\* And Retry-After, in seconds, is long enough: who comes back then is let through.
THEOREM LimiterRetryHonoured == MCSpec => []RetryAloneHonoured
<1>1. IInv /\ (crowded \/ Alone) => RetryAloneHonoured
  <2> SUFFICES ASSUME IInv, Alone, Quiet, NEW ip \in IP,
                      entry[ip] # 0, retryAt[ip] # 0, clock >= retryAt[ip]
               PROVE  Available(heap[entry[ip]]) >= Period
    BY DEF RetryAloneHonoured, RetryHonoured
  <2>1. Available(heap[entry[ip]]) = ideal[ip]
    BY DEF Alone, Exact, Quiet, Refused, Mapped, Balance
  <2>2. ideal[ip] >= Min2(Capacity, Period + clock - retryAt[ip])
    BY DEF Alone, Returning
  <2>3. ideal[ip] \in Nat /\ clock \in Nat /\ retryAt[ip] \in Nat
    BY DEF IInv, TypeOK
  <2> QED
    BY <2>1, <2>2, <2>3, CapacityFacts DEF Min2
<1> QED
  BY <1>1, AloneInvariant, PTL

=============================================================================
