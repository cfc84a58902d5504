----------------------------- MODULE ScopedPool -----------------------------
(***************************************************************************)
(* The connection pool as the repositories use it.  inScope and the two    *)
(* methods of ReaperRepo run one transaction each: they take a connection, *)
(* SET LOCAL the identity of the requester (row-level security reads it),  *)
(* run their statements and commit or roll back.  A connection outlives    *)
(* the transaction: whoever gets it next must find it without identity.    *)
(*                                                                         *)
(* Postgres and pgxpool are modelled from that use.  A setting that is     *)
(* local to a transaction ends with it; a connection that is not idle when *)
(* it is returned (a cancelled context, a broken socket) is destroyed, and *)
(* its place in the pool filled by a fresh one.                            *)
(***************************************************************************)
CONSTANTS
    Jobs,     \* goroutines that run transactions, one at a time each
    Conns,    \* places in the pool: DB_MAX_CONNS of them
    Subject,  \* values of the sub claim
    NoSub     \* the empty sub

VARIABLES
    session,  \* session[c]: the identity the connection in place c runs under
    job,      \* job[j]: the transaction j is in
    closed    \* the pool gives out no more connections

pvars == <<session, job, closed>>

\* The claims a context can carry: validateSession and the isolation demo give
\* the role authenticated and a UUID, which AuthClaims.Validate never refuses.
Claims == [role : {"authenticated"}, sub : Subject]

\* Without claims in the context a transaction keeps the role it connected with.
Owner == [role |-> "owner", sub |-> NoSub]
System == [role |-> "service_role", sub |-> NoSub]
Asked == Claims \cup {Owner, System}
Identity == [role : {"owner", "authenticated", "service_role"}, sub : Subject \cup {NoSub}]

Out == [at |-> "out"]
InTx == [at : {"begun", "role", "ready", "failed"}, conn : Conns, asks : Asked]

Busy(j) == job[j].at # "out"
Free(c) == \A j \in Jobs : Busy(j) => job[j].conn # c

Init ==
    /\ session = [c \in Conns |-> Owner]
    /\ job = [j \in Jobs |-> Out]
    /\ closed = FALSE

-----------------------------------------------------------------------------

Move(j, at) == job' = [job EXCEPT ![j].at = at]

\* db.Begin.  A transaction without claims has no identity to set.
Begin(j, asks) ==
    /\ ~Busy(j) /\ ~closed
    /\ \E c \in Conns :
        /\ Free(c)
        /\ job' = [job EXCEPT ![j] =
             [at |-> IF asks = Owner THEN "ready" ELSE "begun",
              conn |-> c, asks |-> asks]]
    /\ UNCHANGED <<session, closed>>

\* SET LOCAL ROLE.  The reaper sets no claims.
SetRole(j) ==
    /\ job[j].at = "begun"
    /\ session' = [session EXCEPT ![job[j].conn].role = job[j].asks.role]
    /\ Move(j, IF job[j].asks = System THEN "ready" ELSE "role")
    /\ UNCHANGED closed

\* set_config(..., true): the claims, local to the transaction as well.
SetClaims(j) ==
    /\ job[j].at = "role"
    /\ session' = [session EXCEPT ![job[j].conn].sub = job[j].asks.sub]
    /\ Move(j, "ready")
    /\ UNCHANGED closed

\* Mutant: the error of a statement is not looked at.
ExecErrorIgnored(j) ==
    /\ job[j].at \in {"begun", "role", "ready"}
    /\ Move(j, "ready")
    /\ UNCHANGED <<session, closed>>

\* A statement fails: inScope returns and its deferred Rollback is next.
ExecFails(j) ==
    /\ job[j].at \in {"begun", "role", "ready"}
    /\ Move(j, "failed")
    /\ UNCHANGED <<session, closed>>

\* For a mutant: the connection goes back as it is.
ReturnAsIs(j) ==
    /\ job' = [job EXCEPT ![j] = Out]
    /\ UNCHANGED <<session, closed>>

\* The transaction ends and the connection goes back without its identity.
Return(j) ==
    /\ session' = [session EXCEPT ![job[j].conn] = Owner]
    /\ job' = [job EXCEPT ![j] = Out]
    /\ UNCHANGED closed

Commit(j) == job[j].at = "ready" /\ Return(j)

\* Mutant: no deferred Rollback; the connection goes back in its transaction.
RollbackForgotten(j) == job[j].at = "failed" /\ ReturnAsIs(j)

\* ListExistingAuthIDs only reads and never commits.
Rollback(j) ==
    /\ \/ job[j].at = "failed"
       \/ job[j].at = "ready" /\ job[j].asks = System
    /\ Return(j)

\* The connection breaks, or the context is cancelled with the connection in
\* use: neither Commit nor Rollback gets through and the pool destroys it.
Lose(j) == Busy(j) /\ Return(j)

\* Pool.Close refuses new transactions and waits for those that run.
Close ==
    /\ ~closed
    /\ closed' = TRUE
    /\ UNCHANGED <<session, job>>

Step(j) ==
    \/ \E asks \in Asked : Begin(j, asks)
    \/ SetRole(j) \/ SetClaims(j) \/ ExecFails(j)
    \/ Commit(j) \/ Rollback(j) \/ Lose(j)

Next == Close \/ \E j \in Jobs : Step(j)

Spec == Init /\ [][Next]_pvars

-----------------------------------------------------------------------------

TypeOK ==
    /\ session \in [Conns -> Identity]
    /\ job \in [Jobs -> {Out} \cup InTx]
    /\ closed \in BOOLEAN

\* The statements of a repository method run under the identity that its
\* context carries, with role and sub of the same requester, and under no
\* identity but the connection's own when the context carries none.
OwnIdentity ==
    \A j \in Jobs : job[j].at = "ready" => session[job[j].conn] = job[j].asks

\* A connection is in one transaction at a time, and one that nobody uses has
\* forgotten who used it last.
CleanPool ==
    /\ \A i, j \in Jobs : Busy(i) /\ Busy(j) /\ job[i].conn = job[j].conn => i = j
    /\ \A c \in Conns : Free(c) => session[c] = Owner

=============================================================================
