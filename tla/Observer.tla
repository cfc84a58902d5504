------------------------------ MODULE Observer ------------------------------
(***************************************************************************)
(* The process's measurements of itself: the ring of request durations,    *)
(* the percentiles cached over it, and the high-water mark of the memory.  *)
(* Requests record their duration when they complete; views of the landing *)
(* page take a Snapshot; the memory collector calls ObserveMemory alone.   *)
(*                                                                         *)
(* Three mutexes: the ring's covers Record and the copy that is ranked, mu *)
(* covers the peak, latencyMu the cache, from before the clock is read to  *)
(* after the ranking.  What a goroutine does outside them is a step of its *)
(* own.  A time of 0 is the zero time of Go: never.                        *)
(***************************************************************************)
EXTENDS LatencyWindow, Functions

CONSTANTS
    Size,       \* length of the ring, DefaultLatencyWindow
    View,       \* goroutines that take snapshots
    Collector,  \* the memory metrics collector
    TTL,        \* LatencyCacheTTL, in ticks
    Duration,   \* durations of requests
    Memory,     \* values of the runtime's total mapped memory
    MaxClock,   \* bound: the clock stops here
    MaxRecords  \* bound: requests recorded

Nobody == "nobody"

ASSUME ObserverAssumption ==
    /\ Size \in Nat \ {0} /\ TTL \in Nat /\ Duration \subseteq Nat \ {0} /\ Memory \subseteq Nat
    /\ MaxClock \in Nat /\ MaxRecords \in Nat
    /\ Collector \notin View /\ Nobody \notin View \cup {Collector}

VARIABLES
    clock,
    log,       \* history: [d, at] of every request recorded
    samples, next, filled,  \* the ring; next counts from 0 as in the code
    latencyMu, \* who holds it, or Nobody
    latencyAt, latencyCached,
    peakSys,
    task       \* task[g]: what goroutine g of View or the collector is doing

ring == <<log, samples, next, filled>>
cache == <<latencyMu, latencyAt, latencyCached>>
vars == <<clock, ring, cache, peakSys, task>>

Goroutine == View \cup {Collector}
Idle == [at |-> "idle"]
NothingMeasured == [samples |-> 0, p50 |-> 0, p95 |-> 0, p99 |-> 0]

Durations(s) == [i \in DOMAIN s |-> s[i].d]

Init ==
    /\ clock = 1
    /\ log = <<>>
    /\ samples = [i \in 0..(Size - 1) |-> 0] /\ next = 0 /\ filled = 0
    /\ latencyMu = Nobody
    /\ latencyAt = 0 /\ latencyCached = NothingMeasured
    /\ peakSys = 0
    /\ task = [g \in Goroutine |-> Idle]

-----------------------------------------------------------------------------
(* requests *)

\* Mutant: the slot is advanced first and written then.
RecordAfterAdvance(d) ==
    /\ Len(log) < MaxRecords
    /\ next' = (next + 1) % Size
    /\ samples' = [samples EXCEPT ![next'] = d]
    /\ filled' = IF filled < Size THEN filled + 1 ELSE filled
    /\ log' = Append(log, [d |-> d, at |-> clock])
    /\ UNCHANGED <<clock, cache, peakSys, task>>

Record(d) ==
    /\ Len(log) < MaxRecords
    /\ samples' = [samples EXCEPT ![next] = d]
    /\ next' = (next + 1) % Size
    /\ filled' = IF filled < Size THEN filled + 1 ELSE filled
    /\ log' = Append(log, [d |-> d, at |-> clock])
    /\ UNCHANGED <<clock, cache, peakSys, task>>

\* idx + 1 of the closure rank in Percentiles, with p in hundredths: the float
\* n * p + 0.999999 cut to an integer, kept within the samples.
Rank(n, p) ==
    LET r == (n * p * 10000 + 999999) \div 1000000
    IN  IF r < 1 THEN 1 ELSE IF r > n THEN n ELSE r

\* slices.Sort of the copy: some ascending arrangement of it.
Sorted(copy) ==
    CHOOSE s \in {[i \in DOMAIN copy |-> copy[b[i]]] : b \in Bijection(DOMAIN copy, DOMAIN copy)} :
        \A i, j \in DOMAIN s : i <= j => s[i] <= s[j]

Percentiles ==
    LET sorted == Sorted([i \in 1..filled |-> samples[i - 1]])
    IN  IF filled = 0 THEN NothingMeasured
        ELSE [samples |-> filled,
              p50 |-> sorted[Rank(filled, 50)],
              p95 |-> sorted[Rank(filled, 95)],
              p99 |-> sorted[Rank(filled, 99)]]

-----------------------------------------------------------------------------
(* snapshots *)

Set(g, t) == task' = [task EXCEPT ![g] = t]

\* ObserveMemory reads the runtime's figures before it takes mu.
ReadMemory(g) ==
    /\ task[g].at = "idle"
    /\ \E sys \in Memory : Set(g, [at |-> "memory", sys |-> sys])
    /\ UNCHANGED <<clock, ring, cache, peakSys>>

\* Mutant: the reading replaces the peak without being compared with it.
AdvancePeakBlindly(g) ==
    /\ task[g].at = "memory"
    /\ peakSys' = task[g].sys
    /\ Set(g, IF g = Collector THEN Idle
              ELSE [at |-> "peak", sys |-> task[g].sys, peak |-> task[g].sys])
    /\ UNCHANGED <<clock, ring, cache>>

\* The collector is done after this; a snapshot goes on to the percentiles.
AdvancePeak(g) ==
    /\ task[g].at = "memory"
    /\ LET sys == task[g].sys
           peak == IF sys > peakSys THEN sys ELSE peakSys
       IN  /\ peakSys' = peak
           /\ Set(g, IF g = Collector THEN Idle
                     ELSE [at |-> "peak", sys |-> sys, peak |-> peak])
    /\ UNCHANGED <<clock, ring, cache>>

\* since: history, the requests that are TTL or more in the past by now.
Since(now) == Cardinality({i \in DOMAIN log : log[i].at + TTL <= now})

\* percentiles takes latencyMu, then reads the clock.
LockLatency(g) ==
    /\ task[g].at = "peak"
    /\ latencyMu = Nobody
    /\ latencyMu' = g
    /\ Set(g, [at |-> "locked", now |-> clock, since |-> Since(clock)])
    /\ UNCHANGED <<clock, ring, latencyAt, latencyCached, peakSys>>

\* Mutant: the figures are kept until they are older than TTL.
SummariseLate(g) ==
    /\ task[g].at = "locked"
    /\ LET now == task[g].now
           stale == latencyAt = 0 \/ now - latencyAt > TTL
       IN  /\ latencyCached' = IF stale THEN Percentiles ELSE latencyCached
           /\ latencyAt' = IF stale THEN now ELSE latencyAt
    /\ latencyMu' = Nobody
    /\ Set(g, [at |-> "done", since |-> task[g].since, p |-> latencyCached'])
    /\ UNCHANGED <<clock, ring, peakSys>>

\* The window is ranked when the cache is empty or TTL old; latencyMu is
\* released with the answer.
Summarise(g) ==
    /\ task[g].at = "locked"
    /\ LET now == task[g].now
           stale == latencyAt = 0 \/ now - latencyAt >= TTL
       IN  /\ latencyCached' = IF stale THEN Percentiles ELSE latencyCached
           /\ latencyAt' = IF stale THEN now ELSE latencyAt
    /\ latencyMu' = Nobody
    /\ Set(g, [at |-> "done", since |-> task[g].since, p |-> latencyCached'])
    /\ UNCHANGED <<clock, ring, peakSys>>

Finish(g) ==
    /\ task[g].at = "done"
    /\ Set(g, Idle)
    /\ UNCHANGED <<clock, ring, cache, peakSys>>

Tick ==
    /\ clock < MaxClock
    /\ clock' = clock + 1
    /\ UNCHANGED <<ring, cache, peakSys, task>>

Proceed(g) == AdvancePeak(g) \/ LockLatency(g) \/ Summarise(g) \/ Finish(g)

Next ==
    \/ Tick
    \/ \E d \in Duration : Record(d)
    \/ \E g \in Goroutine : ReadMemory(g) \/ Proceed(g)

Spec == Init /\ [][Next]_vars

-----------------------------------------------------------------------------

\* What a goroutine carries from one step to the next.
TaskOK(t) ==
    /\ t.at \in {"idle", "memory", "peak", "locked", "done"}
    /\ t.at \in {"memory", "peak"} => t.sys \in Memory
    /\ t.at = "peak" => t.peak \in Memory
    /\ t.at = "locked" => t.now \in Nat

\* Type invariant: indices stay inside the ring, whatever has been recorded.  The
\* figures are the matter of FiguresAreRecent.
TypeOK ==
    /\ clock \in Nat /\ log \in Seq([d : Duration, at : Nat])
    /\ samples \in [0..(Size - 1) -> Duration \cup {0}]
    /\ next \in 0..(Size - 1) /\ filled \in 0..Size
    /\ latencyMu \in Goroutine \cup {Nobody}
    /\ latencyAt \in Nat
    /\ peakSys \in Memory \cup {0}
    /\ DOMAIN task = Goroutine /\ \A g \in Goroutine : TaskOK(task[g])

\* The ring holds the last Size durations, whatever the order in which slots
\* were reused.
RingIsWindow ==
    LET w == Window(Durations(log), Size)
    IN  /\ filled = Len(w)
        /\ \A k \in 1..filled : samples[(next + Size - k) % Size] = w[Len(w) + 1 - k]

\* The figures of a snapshot are those of the window at one moment, and that
\* moment is less than TTL before the snapshot asked: everything recorded
\* earlier is in it.
FiguresAreRecent ==
    \A g \in View : task[g].at = "done" =>
        \E n \in task[g].since..Len(log) :
            task[g].p = Summary(Window(Durations(SubSeq(log, 1, n)), Size))

\* The peak covers every reading it is shown with, of snapshots and of the
\* collector, and no snapshot shows a higher one than the next.
PeakHolds ==
    \A g \in View : task[g].at = "peak" =>
        task[g].sys <= task[g].peak /\ task[g].peak <= peakSys

=============================================================================
