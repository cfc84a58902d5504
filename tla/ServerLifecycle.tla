--------------------------- MODULE ServerLifecycle ---------------------------
(***************************************************************************)
(* The process from its start to its exit: main, the signal goroutine, the *)
(* Serve goroutine, the requests it starts, the reaper and the connection  *)
(* pool they share.  A signal cancels the context of the reaper, main then *)
(* stops listening, waits for the requests (five seconds at most), stops   *)
(* the sweepers and closes the pool, which waits for its connections.      *)
(*                                                                         *)
(* Time is abstract: a deadline may pass at any moment.  A request is a    *)
(* series of scoped transactions, each with the identity that its context  *)
(* carries by then, and may answer between any two of them.                *)
(***************************************************************************)
CONSTANTS Request, Reaper, Conns, Subject, NoSub

ASSUME ServerAssumption == Reaper \notin Request

VARIABLES
    main,       \* where main stands
    signalled,  \* a signal is in sigChan, or has been taken from it
    cancelled,  \* the context of main is cancelled
    serving,    \* the Serve goroutine accepts connections
    inFlight,   \* requests accepted and not answered
    reaping,    \* the reaper's loop: "off", "on" or "over"
    sweeping,   \* the limiters' sweepers run
    session, job, closed  \* the pool

Jobs == Request \cup {Reaper}
Pool == INSTANCE ScopedPool

pvars == <<session, job, closed>>
svars == <<main, signalled, cancelled, serving, inFlight, reaping, sweeping>>
vars == <<svars, pvars>>

Stages == {"boot", "bind", "wait", "drain", "sweepers", "pool", "closing", "exit 0", "exit 1"}
Alive == main \notin {"exit 0", "exit 1"}

Init ==
    /\ main = "boot"
    /\ signalled = FALSE /\ cancelled = FALSE
    /\ serving = FALSE
    /\ inFlight = {}
    /\ reaping = "off"
    /\ sweeping = FALSE
    /\ Pool!Init

-----------------------------------------------------------------------------
(* main *)

\* The router is built (and its sweepers started), and the reaper started when
\* guest mode is on.
Start ==
    /\ main = "boot"
    /\ main' = "bind"
    /\ sweeping' = TRUE
    /\ reaping' \in {"off", "on"}
    /\ UNCHANGED <<signalled, cancelled, serving, inFlight, pvars>>

\* The listener is bound and the Serve goroutine started.  main does not look at
\* its context before: a signal that came this early is served right after.
Listen ==
    /\ main = "bind"
    /\ main' = "wait"
    /\ serving' = TRUE
    /\ UNCHANGED <<signalled, cancelled, inFlight, reaping, sweeping, pvars>>

\* Settings that do not validate, a port in use.
BootFails ==
    /\ main \in {"boot", "bind"}
    /\ main' = "exit 1"
    /\ UNCHANGED <<signalled, cancelled, serving, inFlight, reaping, sweeping, pvars>>

\* sigChan holds one signal and its goroutine takes one: a second is dropped.
Signal ==
    /\ Alive /\ ~signalled
    /\ signalled' = TRUE
    /\ UNCHANGED <<main, cancelled, serving, inFlight, reaping, sweeping, pvars>>

Cancel ==
    /\ Alive /\ signalled /\ ~cancelled
    /\ cancelled' = TRUE
    /\ UNCHANGED <<main, signalled, serving, inFlight, reaping, sweeping, pvars>>

\* Shutdown closes the listener; Serve returns ErrServerClosed, which is no
\* error, even when it had not begun to accept.
Shutdown ==
    /\ main = "wait" /\ cancelled
    /\ main' = "drain"
    /\ serving' = FALSE
    /\ UNCHANGED <<signalled, cancelled, inFlight, reaping, sweeping, pvars>>

\* Mutant: Close instead of Shutdown.
DrainedAtOnce ==
    /\ main = "drain"
    /\ main' = "sweepers"
    /\ UNCHANGED <<signalled, cancelled, serving, inFlight, reaping, sweeping, pvars>>

Drained ==
    /\ main = "drain" /\ inFlight = {}
    /\ main' = "sweepers"
    /\ UNCHANGED <<signalled, cancelled, serving, inFlight, reaping, sweeping, pvars>>

\* Mutant: Shutdown with a context that has no deadline.
DrainWithoutLimit == FALSE /\ UNCHANGED vars

\* The five seconds are over: os.Exit, and no deferred call runs.
DrainTimesOut ==
    /\ main = "drain" /\ inFlight # {}
    /\ main' = "exit 1"
    /\ UNCHANGED <<signalled, cancelled, serving, inFlight, reaping, sweeping, pvars>>

\* Serve fails on its own, and exits the process from its goroutine.
ServeFails ==
    /\ main = "wait" /\ serving
    /\ main' = "exit 1"
    /\ UNCHANGED <<signalled, cancelled, serving, inFlight, reaping, sweeping, pvars>>

\* srv.Close
StopSweepers ==
    /\ main = "sweepers"
    /\ main' = "pool"
    /\ sweeping' = FALSE
    /\ UNCHANGED <<signalled, cancelled, serving, inFlight, reaping, pvars>>

\* Mutant: closing the pool drops the connections that are in use.
ClosePoolByForce ==
    /\ main = "pool"
    /\ main' = "closing"
    /\ closed' = TRUE
    /\ session' = [c \in Conns |-> Pool!Owner]
    /\ job' = [j \in Jobs |-> Pool!Out]
    /\ UNCHANGED <<signalled, cancelled, serving, inFlight, reaping, sweeping>>

\* The deferred db.Close, in its two halves.
ClosePool ==
    /\ main = "pool"
    /\ main' = "closing"
    /\ Pool!Close
    /\ UNCHANGED <<signalled, cancelled, serving, inFlight, reaping, sweeping>>

\* Mutant: exit without waiting for the reaper's transaction.
ExitAtOnce ==
    /\ main = "closing"
    /\ main' = "exit 0"
    /\ UNCHANGED <<signalled, cancelled, serving, inFlight, reaping, sweeping, pvars>>

Exit ==
    /\ main = "closing"
    /\ \A c \in Conns : Pool!Free(c)
    /\ main' = "exit 0"
    /\ UNCHANGED <<signalled, cancelled, serving, inFlight, reaping, sweeping, pvars>>

-----------------------------------------------------------------------------
(* requests and the reaper *)

Accept(r) ==
    /\ Alive /\ serving /\ r \notin inFlight
    /\ inFlight' = inFlight \cup {r}
    /\ UNCHANGED <<main, signalled, cancelled, serving, reaping, sweeping, pvars>>

\* A handler holds a connection within a repository call only.
Answer(r) ==
    /\ Alive /\ r \in inFlight /\ ~Pool!Busy(r)
    /\ inFlight' = inFlight \ {r}
    /\ UNCHANGED <<main, signalled, cancelled, serving, reaping, sweeping, pvars>>

\* Begin with a cancelled context gives an error instead of a connection.
Begin(j) ==
    /\ Alive
    /\ \/ j \in inFlight /\ \E asks \in Pool!Claims \cup {Pool!Owner} : Pool!Begin(j, asks)
       \/ j = Reaper /\ reaping = "on" /\ ~cancelled /\ Pool!Begin(j, Pool!System)
    /\ UNCHANGED svars

\* The rest of a transaction, which a deadline or a broken socket may end.
Proceed(j) ==
    /\ Alive
    /\ Pool!SetRole(j) \/ Pool!SetClaims(j) \/ Pool!Commit(j) \/ Pool!Rollback(j)
    /\ UNCHANGED svars

Disturb(j) ==
    /\ Alive
    /\ Pool!ExecFails(j) \/ Pool!Lose(j)
    /\ UNCHANGED svars

\* The loop sees ctx.Done between two passes.
ReaperStops ==
    /\ Alive /\ reaping = "on" /\ cancelled /\ ~Pool!Busy(Reaper)
    /\ reaping' = "over"
    /\ UNCHANGED <<main, signalled, cancelled, serving, inFlight, sweeping, pvars>>

Terminated == ~Alive /\ UNCHANGED vars

Main ==
    \/ Start \/ Listen \/ BootFails \/ Signal \/ Cancel
    \/ Shutdown \/ Drained \/ DrainTimesOut \/ ServeFails
    \/ StopSweepers \/ ClosePool \/ Exit

Next ==
    \/ Main \/ ReaperStops \/ Terminated
    \/ \E r \in Request : Accept(r) \/ Answer(r)
    \/ \E j \in Jobs : Begin(j) \/ Proceed(j) \/ Disturb(j)

\* Goroutines are scheduled and timers fire.  Nothing is assumed of requests
\* that run, of signals, or of a pool with connections to give.
Fairness ==
    /\ WF_vars(Start) /\ WF_vars(Listen)
    /\ WF_vars(Cancel) /\ WF_vars(Shutdown)
    /\ WF_vars(Drained \/ DrainTimesOut)
    /\ WF_vars(StopSweepers) /\ WF_vars(ClosePool) /\ WF_vars(Exit)
    /\ WF_vars(Proceed(Reaper) \/ Disturb(Reaper))

Spec == Init /\ [][Next]_vars /\ Fairness

-----------------------------------------------------------------------------

TypeOK ==
    /\ main \in Stages
    /\ signalled \in BOOLEAN /\ cancelled \in BOOLEAN
    /\ serving \in BOOLEAN /\ sweeping \in BOOLEAN
    /\ inFlight \subseteq Request
    /\ reaping \in {"off", "on", "over"}
    /\ Pool!TypeOK

OwnIdentity == Pool!OwnIdentity

CleanPool == Pool!CleanPool

\* While a request is in flight its limiters are swept and the pool gives out
\* connections; main takes neither away before the last answer is out.
ServedToTheEnd == inFlight # {} => sweeping /\ ~closed

\* The process stops with status 0 only when every request it accepted was
\* answered and every transaction it began has ended.
GracefulExit ==
    main = "exit 0" => inFlight = {} /\ \A j \in Jobs : ~Pool!Busy(j)

\* The server uses its pool as ScopedPool says, with the reaper as one job.
UsesPool == Pool!Spec

\* A signal stops the process, whatever its requests and its reaper do.
StopsWhenTold == signalled ~> ~Alive

=============================================================================
