----------------------- MODULE ServerLifecycleProofs -----------------------
(***************************************************************************)
(* The pool on its own, then the server that uses it: the server implements *)
(* ScopedPool, so that what PoolSafety says holds of it, and main takes     *)
(* nothing away from a request that is in flight.  Liveness is left to TLC. *)
(*                                                                         *)
(* OwnIdentity is not inductive: what a fresh transaction finds on its      *)
(* connection depends on what the last one left.  PInv follows the identity *)
(* through the transaction instead.                                        *)
(***************************************************************************)
EXTENDS ServerLifecycle, TLAPS

-----------------------------------------------------------------------------
(* The pool, for any goroutines, connections and subjects                  *)

\* How far the identity of transaction t is set.
Reached(t) ==
    IF t.at = "begun" THEN Pool!Owner
    ELSE IF t.at = "role" THEN [role |-> t.asks.role, sub |-> NoSub]
    ELSE t.asks

Following ==
    \A j \in Jobs : job[j].at \in {"begun", "role", "ready"} =>
        session[job[j].conn] = Reached(job[j])

\* What a transaction at each stage can have asked for: the reaper sets no
\* claims, and a transaction without claims has nothing to set.
Asking ==
    \A j \in Jobs :
        /\ job[j].at = "begun" => job[j].asks \in Pool!Claims \cup {Pool!System}
        /\ job[j].at = "role" => job[j].asks \in Pool!Claims

PInv == Pool!TypeOK /\ Pool!CleanPool /\ Following /\ Asking

-----------------------------------------------------------------------------

\* The identities are records of a role and a subject.
LEMMA IdentityRecords ==
    /\ Pool!Asked \subseteq Pool!Identity
    /\ Pool!Owner \in Pool!Identity /\ Pool!System \in Pool!Identity
    /\ \A a \in Pool!Claims : a.role = "authenticated" /\ a.sub \in Subject
                         /\ a = [role |-> a.role, sub |-> a.sub]
    /\ Pool!System = [role |-> "service_role", sub |-> NoSub]
    /\ Pool!Owner = [role |-> "owner", sub |-> NoSub]
    /\ Pool!System \notin Pool!Claims
BY DEF Pool!Asked, Pool!Identity, Pool!Owner, Pool!System, Pool!Claims

\* A job is out or in a transaction, and then it has a connection.
LEMMA JobTypes ==
    ASSUME Pool!TypeOK, NEW j \in Jobs
    PROVE  /\ ~Pool!Busy(j) => job[j] = Pool!Out
           /\ Pool!Busy(j) => job[j] \in Pool!InTx
           /\ Pool!Busy(j) => job[j].conn \in Conns /\ job[j].asks \in Pool!Asked
           /\ Pool!Busy(j) => job[j].at \in {"begun", "role", "ready", "failed"}
           /\ Pool!Busy(j) => job[j] = [at |-> job[j].at, conn |-> job[j].conn, asks |-> job[j].asks]
BY DEF Pool!TypeOK, Pool!Out, Pool!InTx, Pool!Busy

LEMMA InitPInv == Pool!Init => PInv
<1> SUFFICES ASSUME Pool!Init PROVE PInv
  OBVIOUS
<1>1. \A j \in Jobs : job[j] = Pool!Out /\ ~Pool!Busy(j)
  BY DEF Pool!Init, Pool!Busy, Pool!Out
<1>2. \A j \in Jobs : job[j].at = "out"
  BY DEF Pool!Init, Pool!Out
<1>3. Pool!TypeOK
  BY IdentityRecords DEF Pool!Init, Pool!TypeOK
<1>4. Pool!CleanPool
  BY <1>1 DEF Pool!CleanPool, Pool!Init
<1>5. Following /\ Asking
  BY <1>2 DEF Following, Asking
<1> QED
  BY <1>3, <1>4, <1>5 DEF PInv

\* Begin takes a connection that nobody uses, and finds its owner there.
LEMMA BeginPInv ==
    ASSUME PInv, NEW j \in Jobs, NEW asks \in Pool!Asked, Pool!Begin(j, asks)
    PROVE  PInv'
<1> PICK c \in Conns :
      /\ Pool!Free(c)
      /\ job' = [job EXCEPT ![j] =
           [at |-> IF asks = Pool!Owner THEN "ready" ELSE "begun", conn |-> c, asks |-> asks]]
  BY DEF Pool!Begin
<1> DEFINE t == [at |-> IF asks = Pool!Owner THEN "ready" ELSE "begun", conn |-> c, asks |-> asks]
<1>1. Pool!TypeOK /\ Pool!CleanPool /\ Following /\ Asking /\ session' = session /\ closed' = closed
  BY DEF PInv, Pool!Begin
<1>2. job'[j] = t /\ \A i \in Jobs : i # j => job'[i] = job[i]
  BY <1>1 DEF Pool!TypeOK
<1>3. t \in Pool!InTx /\ t.at # "out" /\ t.conn = c /\ t.asks = asks
  BY DEF Pool!InTx
<1>4. session[c] = Pool!Owner
  BY <1>1 DEF Pool!CleanPool
<1>5. Pool!TypeOK'
  BY <1>1, <1>3 DEF Pool!TypeOK
<1>6. \A i \in Jobs : i # j /\ Pool!Busy(i) => job[i].conn # c
  BY DEF Pool!Free
<1>7. Pool!CleanPool'
  <2>1. \A i \in Jobs : Pool!Busy(i)' <=> (i = j \/ Pool!Busy(i))
    BY <1>2, <1>3 DEF Pool!Busy
  <2>2. ASSUME NEW i \in Jobs, NEW k \in Jobs, Pool!Busy(i)', Pool!Busy(k)', job'[i].conn = job'[k].conn
        PROVE  i = k
    BY <1>1, <1>2, <1>3, <1>6, <2>1, <2>2 DEF Pool!CleanPool
  <2>3. ASSUME NEW d \in Conns, Pool!Free(d)'
        PROVE  session'[d] = Pool!Owner
    <3>1. \A i \in Jobs : i # j /\ Pool!Busy(i) => job[i].conn # d
      BY <1>2, <2>1, <2>3 DEF Pool!Free
    <3>2. CASE Pool!Busy(j)
      BY <3>2 DEF Pool!Begin
    <3>3. CASE ~Pool!Busy(j)
      BY <1>1, <3>1, <3>3 DEF Pool!CleanPool, Pool!Free
    <3> QED
      BY <3>2, <3>3
  <2> QED
    BY <2>2, <2>3 DEF Pool!CleanPool
<1>8. Following'
  <2> SUFFICES ASSUME NEW i \in Jobs, job'[i].at \in {"begun", "role", "ready"}
               PROVE  session'[job'[i].conn] = Reached(job'[i])
    BY DEF Following, Reached
  <2>1. CASE i = j
    BY <1>1, <1>2, <1>4, <2>1 DEF Reached
  <2>2. CASE i # j
    BY <1>1, <1>2, <2>2 DEF Following, Reached
  <2> QED
    BY <2>1, <2>2
<1>9. Asking'
  BY <1>1, <1>2 DEF Asking, Pool!Asked
<1> QED
  BY <1>5, <1>7, <1>8, <1>9 DEF PInv

\* The transaction moves to another stage, and the identity of its connection
\* with it.
LEMMA AdvancePInv ==
    ASSUME PInv, NEW j \in Jobs, Pool!Busy(j), NEW at \in {"role", "ready", "failed"},
           Pool!Move(j, at), closed' = closed,
           NEW id \in Pool!Identity,
           session' = [session EXCEPT ![job[j].conn] = id],
           at # "failed" => id = Reached([job[j] EXCEPT !.at = at]),
           at = "role" => job[j].asks \in Pool!Claims
    PROVE  PInv'
<1> DEFINE c == job[j].conn
           t == [job[j] EXCEPT !.at = at]
<1>1. Pool!TypeOK /\ Pool!CleanPool /\ Following /\ Asking
  BY DEF PInv
<1>2. job[j] \in Pool!InTx /\ c \in Conns
  BY <1>1, JobTypes
<1>3. t \in Pool!InTx /\ t.at = at /\ t.conn = c /\ t.asks = job[j].asks
  BY <1>2 DEF Pool!InTx
<1>4. job'[j] = t /\ \A i \in Jobs : i # j => job'[i] = job[i]
  BY <1>1 DEF Pool!TypeOK, Pool!Move
<1>5. \A i \in Jobs : Pool!Busy(i)' <=> Pool!Busy(i)
  BY <1>3, <1>4 DEF Pool!Busy
<1>6. \A i \in Jobs : job'[i].conn = job[i].conn
  BY <1>3, <1>4
<1>7. Pool!TypeOK'
  BY <1>1, <1>3 DEF Pool!TypeOK, Pool!Move
<1>8. Pool!CleanPool'
  <2>1. \A d \in Conns : Pool!Free(d)' => d # c /\ Pool!Free(d)
    BY <1>5, <1>6 DEF Pool!Free
  <2>2. \A d \in Conns : d # c => session'[d] = session[d]
    BY <1>1 DEF Pool!TypeOK
  <2> QED
    BY <1>1, <1>5, <1>6, <2>1, <2>2 DEF Pool!CleanPool
<1>9. Following'
  <2> SUFFICES ASSUME NEW i \in Jobs, job'[i].at \in {"begun", "role", "ready"}
               PROVE  session'[job'[i].conn] = Reached(job'[i])
    BY DEF Following, Reached
  <2>1. CASE i = j
    <3>1. session'[c] = id
      BY <1>1, <1>2 DEF Pool!TypeOK
    <3> QED
      BY <1>3, <1>4, <2>1, <3>1 DEF Reached
  <2>2. CASE i # j
    <3>1. Pool!Busy(i) /\ job'[i] = job[i]
      BY <1>4, <2>2 DEF Pool!Busy
    <3>2. job[i].conn # c /\ job[i].conn \in Conns
      BY <1>1, <2>2, <3>1, JobTypes DEF Pool!CleanPool
    <3>3. session'[job[i].conn] = session[job[i].conn]
      BY <1>1, <3>2 DEF Pool!TypeOK
    <3> QED
      BY <1>1, <3>1, <3>3 DEF Following, Reached
  <2> QED
    BY <2>1, <2>2
<1>10. Asking'
  BY <1>1, <1>3, <1>4 DEF Asking
<1> QED
  BY <1>7, <1>8, <1>9, <1>10 DEF PInv

\* The transaction ends: its connection is free, and its owner's again.
LEMMA ReturnPInv ==
    ASSUME PInv, NEW j \in Jobs, Pool!Busy(j), Pool!Return(j)
    PROVE  PInv'
<1> DEFINE c == job[j].conn
<1>1. Pool!TypeOK /\ Pool!CleanPool /\ Following /\ Asking /\ c \in Conns
  BY JobTypes DEF PInv
<1>2. job'[j] = Pool!Out /\ \A i \in Jobs : i # j => job'[i] = job[i]
  BY <1>1 DEF Pool!TypeOK, Pool!Return
<1>3. session'[c] = Pool!Owner /\ \A d \in Conns : d # c => session'[d] = session[d]
  BY <1>1 DEF Pool!TypeOK, Pool!Return
<1>4. Pool!Out.at = "out"
  BY DEF Pool!Out
<1>5. \A i \in Jobs : Pool!Busy(i)' <=> (i # j /\ Pool!Busy(i))
  BY <1>2, <1>4 DEF Pool!Busy
<1>6. Pool!TypeOK'
  BY <1>1, IdentityRecords DEF Pool!TypeOK, Pool!Return
<1>7. Pool!CleanPool'
  <2>1. \A d \in Conns : d # c /\ Pool!Free(d)' => Pool!Free(d)
    BY <1>2, <1>5 DEF Pool!Free
  <2> QED
    BY <1>1, <1>2, <1>3, <1>5, <2>1 DEF Pool!CleanPool
<1>8. Following'
  <2> SUFFICES ASSUME NEW i \in Jobs, job'[i].at \in {"begun", "role", "ready"}
               PROVE  session'[job'[i].conn] = Reached(job'[i])
    BY DEF Following, Reached
  <2>1. i # j /\ Pool!Busy(i) /\ job'[i] = job[i]
    BY <1>2, <1>4 DEF Pool!Busy
  <2>2. job[i].conn # c /\ job[i].conn \in Conns
    BY <1>1, <2>1, JobTypes DEF Pool!CleanPool
  <2> QED
    BY <1>1, <1>3, <2>1, <2>2 DEF Following, Reached
<1>9. Asking'
  BY <1>1, <1>2, <1>4 DEF Asking
<1> QED
  BY <1>6, <1>7, <1>8, <1>9 DEF PInv

LEMMA StepPInv == PInv /\ [Pool!Next]_(Pool!pvars) => PInv'
<1> SUFFICES ASSUME PInv, [Pool!Next]_(Pool!pvars)
             PROVE  PInv'
  OBVIOUS
<1>t. Pool!TypeOK /\ Pool!CleanPool /\ Following /\ Asking
  BY DEF PInv
<1>1. CASE Pool!Close \/ UNCHANGED Pool!pvars
  <2>1. session' = session /\ job' = job /\ closed' \in BOOLEAN
    BY <1>1, <1>t DEF Pool!Close, Pool!pvars, Pool!TypeOK
  <2> QED
    BY <1>t, <2>1 DEF PInv, Pool!TypeOK, Pool!CleanPool, Following, Asking, Pool!Free, Pool!Busy, Reached
<1>2. ASSUME NEW j \in Jobs, NEW asks \in Pool!Asked, Pool!Begin(j, asks)
      PROVE  PInv'
  BY <1>2, BeginPInv
<1>3. ASSUME NEW j \in Jobs, Pool!SetRole(j)
      PROVE  PInv'
  <2> DEFINE at == IF job[j].asks = Pool!System THEN "ready" ELSE "role"
             id == [session[job[j].conn] EXCEPT !.role = job[j].asks.role]
  <2>1. Pool!Busy(j) /\ job[j].at = "begun" /\ job[j] \in Pool!InTx /\ job[j].conn \in Conns
    BY <1>3, <1>t, JobTypes DEF Pool!SetRole, Pool!Busy
  <2>2. session[job[j].conn] = Pool!Owner /\ job[j].asks \in Pool!Claims \cup {Pool!System}
    BY <1>t, <2>1 DEF Following, Asking, Reached
  <2>3. id = [role |-> job[j].asks.role, sub |-> NoSub]
    BY <2>2, IdentityRecords
  <2>4. id \in Pool!Identity
    BY <2>2, <2>3, IdentityRecords DEF Pool!Identity
  <2>5. [job[j] EXCEPT !.at = at] = [at |-> at, conn |-> job[j].conn, asks |-> job[j].asks]
    BY <2>1 DEF Pool!InTx
  <2>6. id = Reached([job[j] EXCEPT !.at = at])
    BY <2>2, <2>3, <2>5, IdentityRecords DEF Reached
  <2>7. at = "role" => job[j].asks \in Pool!Claims
    BY <2>2
  <2>8. session' = [session EXCEPT ![job[j].conn] = id] /\ Pool!Move(j, at) /\ closed' = closed
    BY <1>3, <1>t, <2>1 DEF Pool!SetRole, Pool!TypeOK
  <2>9. at \in {"role", "ready", "failed"}
    OBVIOUS
  <2> HIDE DEF at, id
  <2> QED
    BY <2>1, <2>4, <2>6, <2>7, <2>8, <2>9, AdvancePInv
<1>4. ASSUME NEW j \in Jobs, Pool!SetClaims(j)
      PROVE  PInv'
  <2> DEFINE id == [session[job[j].conn] EXCEPT !.sub = job[j].asks.sub]
  <2>1. Pool!Busy(j) /\ job[j].at = "role" /\ job[j] \in Pool!InTx /\ job[j].conn \in Conns
    BY <1>4, <1>t, JobTypes DEF Pool!SetClaims, Pool!Busy
  <2>2. session[job[j].conn] = [role |-> job[j].asks.role, sub |-> NoSub] /\ job[j].asks \in Pool!Claims
    BY <1>t, <2>1 DEF Following, Asking, Reached
  <2>3. id = [role |-> job[j].asks.role, sub |-> job[j].asks.sub]
    BY <2>2
  <2>4. id = job[j].asks /\ id \in Pool!Identity
    BY <2>2, <2>3, IdentityRecords DEF Pool!Asked
  <2>5. [job[j] EXCEPT !.at = "ready"] = [at |-> "ready", conn |-> job[j].conn, asks |-> job[j].asks]
    BY <2>1 DEF Pool!InTx
  <2>6. id = Reached([job[j] EXCEPT !.at = "ready"])
    BY <2>4, <2>5 DEF Reached
  <2>7. session' = [session EXCEPT ![job[j].conn] = id] /\ Pool!Move(j, "ready") /\ closed' = closed
    BY <1>4, <1>t, <2>1 DEF Pool!SetClaims, Pool!TypeOK
  <2> HIDE DEF id
  <2> QED
    BY <2>1, <2>4, <2>6, <2>7, AdvancePInv
<1>5. ASSUME NEW j \in Jobs, Pool!ExecFails(j)
      PROVE  PInv'
  <2> DEFINE id == session[job[j].conn]
  <2>1. Pool!Busy(j) /\ job[j].conn \in Conns
    BY <1>5, <1>t, JobTypes DEF Pool!ExecFails, Pool!Busy
  <2>2. session' = [session EXCEPT ![job[j].conn] = id] /\ id \in Pool!Identity
    BY <1>5, <1>t, <2>1 DEF Pool!ExecFails, Pool!TypeOK
  <2>3. Pool!Move(j, "failed") /\ closed' = closed
    BY <1>5 DEF Pool!ExecFails
  <2> HIDE DEF id
  <2> QED
    BY <2>1, <2>2, <2>3, AdvancePInv
<1>6. ASSUME NEW j \in Jobs, Pool!Commit(j) \/ Pool!Rollback(j) \/ Pool!Lose(j)
      PROVE  PInv'
  <2>1. Pool!Busy(j) /\ Pool!Return(j)
    BY <1>6 DEF Pool!Commit, Pool!Rollback, Pool!Lose, Pool!Busy
  <2> QED
    BY <2>1, ReturnPInv
<1> QED
  BY <1>1, <1>2, <1>3, <1>4, <1>5, <1>6 DEF Pool!Next, Pool!Step

\* A transaction whose identity is fully set runs under what was asked for.
LEMMA FollowingIsOwn == PInv => Pool!OwnIdentity
BY DEF PInv, Following, Reached, Pool!OwnIdentity

-----------------------------------------------------------------------------

\* In every use of the pool the statements of a repository method run under
\* the identity its context carries, connections are in one transaction at a
\* time, and a free one has forgotten who used it.
THEOREM PoolSafety == Pool!Spec => [](Pool!TypeOK /\ Pool!OwnIdentity /\ Pool!CleanPool)
<1>1. PInv => Pool!TypeOK /\ Pool!OwnIdentity /\ Pool!CleanPool
  BY FollowingIsOwn DEF PInv
<1> QED
  BY <1>1, InitPInv, StepPInv, PTL DEF Pool!Spec

-----------------------------------------------------------------------------
(* The server *)

\* Every step of the server is a step of the pool or leaves it alone.
LEMMA StepUsesPool == [Next]_vars => [Pool!Next]_(Pool!pvars)
<1> SUFFICES ASSUME [Next]_vars PROVE [Pool!Next]_(Pool!pvars)
  OBVIOUS
<1> USE DEF Pool!pvars, pvars
<1>1. CASE Main
  BY <1>1 DEF Main, Start, Listen, BootFails, Signal, Cancel, Shutdown, Drained, DrainTimesOut,
     ServeFails, StopSweepers, ClosePool, Exit, Pool!Next
<1>2. CASE ReaperStops \/ Terminated \/ UNCHANGED vars
  BY <1>2 DEF ReaperStops, Terminated, vars
<1>3. ASSUME NEW r \in Request, Accept(r) \/ Answer(r)
      PROVE  UNCHANGED pvars
  BY <1>3 DEF Accept, Answer
<1>4. ASSUME NEW j \in Jobs, Begin(j) \/ Proceed(j) \/ Disturb(j)
      PROVE  Pool!Next
  BY <1>4 DEF Begin, Proceed, Disturb, Pool!Next, Pool!Step, Pool!Asked
<1> QED
  BY <1>1, <1>2, <1>3, <1>4 DEF Next

\* The server uses its pool as ScopedPool says.
THEOREM ServerUsesPool == Spec => UsesPool
<1>1. Init => Pool!Init
  BY DEF Init
<1> QED
  BY <1>1, StepUsesPool, PTL DEF Spec, UsesPool, Pool!Spec

\* What PoolSafety promises, of the server's pool.
LEMMA ServerPool == Spec => [](Pool!TypeOK /\ OwnIdentity /\ CleanPool)
<1>1. Pool!OwnIdentity /\ Pool!CleanPool <=> OwnIdentity /\ CleanPool
  BY DEF OwnIdentity, CleanPool
<1> QED
  BY <1>1, ServerUsesPool, PoolSafety, PTL DEF UsesPool

\* The statements of a repository method run under the identity its context carries.
THEOREM ServerIdentity == Spec => []OwnIdentity
BY ServerPool, PTL

\* A connection is in one transaction at a time, and a free one
\* has forgotten its last user, whether he committed, rolled back or was lost.
THEOREM ServerPoolClean == Spec => []CleanPool
BY ServerPool, PTL

-----------------------------------------------------------------------------

\* What the server has and has not taken away at each stage of main.  Nothing is
\* taken before the last answer, and nothing is accepted from then on.
Quiet == main \in {"sweepers", "pool", "closing", "exit 0"}

SInv ==
    /\ main \in Stages
    /\ serving \in BOOLEAN /\ sweeping \in BOOLEAN /\ closed \in BOOLEAN
    /\ main \in {"boot", "bind"} \/ Quiet => inFlight = {} /\ ~serving
    /\ main = "drain" => ~serving
    /\ main \in {"bind", "wait", "drain"} => sweeping
    /\ closed => main \in {"closing", "exit 0"}
    /\ ServedToTheEnd
    /\ main = "exit 0" => \A j \in Jobs : ~Pool!Busy(j)

\* A pool whose connections are all free has no job in a transaction.
LEMMA NobodyBusy ==
    ASSUME Pool!TypeOK, \A c \in Conns : Pool!Free(c), NEW j \in Jobs
    PROVE  ~Pool!Busy(j)
<1>1. Pool!Busy(j) => job[j].conn \in Conns
  BY DEF Pool!TypeOK, Pool!Busy, Pool!InTx, Pool!Out
<1> QED
  BY <1>1 DEF Pool!Free

\* The transactions of requests and of the reaper leave main's stage alone, and
\* none goes on once the process is over.
LEMMA JobsKeepSInv ==
    ASSUME SInv, NEW j \in Jobs, Begin(j) \/ Proceed(j) \/ Disturb(j)
    PROVE  SInv'
<1>1. Alive /\ UNCHANGED svars
  BY DEF Begin, Proceed, Disturb
<1>2. closed' = closed
  BY DEF Begin, Proceed, Disturb, Pool!Begin, Pool!SetRole, Pool!SetClaims, Pool!ExecFails,
     Pool!Commit, Pool!Rollback, Pool!Lose, Pool!Return
<1> QED
  BY <1>1, <1>2 DEF SInv, Quiet, ServedToTheEnd, Alive, svars

LEMMA StepSInv == SInv /\ Pool!TypeOK /\ [Next]_vars => SInv'
<1> SUFFICES ASSUME SInv, Pool!TypeOK, [Next]_vars
             PROVE  SInv'
  OBVIOUS
<1> USE DEF SInv, Quiet, ServedToTheEnd, Stages
<1>u. pvars' = pvars => \A j \in Jobs : Pool!Busy(j)' <=> Pool!Busy(j)
  BY DEF pvars, Pool!Busy
<1>1. CASE Terminated \/ ReaperStops \/ UNCHANGED vars
  <2>1. /\ pvars' = pvars /\ closed' = closed /\ main' = main /\ inFlight' = inFlight
        /\ serving' = serving /\ sweeping' = sweeping
    BY <1>1 DEF Terminated, ReaperStops, vars, svars, pvars
  <2> QED
    BY <2>1, <1>u
<1>2. CASE Start \/ Listen \/ BootFails \/ Signal \/ Cancel
  <2>0. CASE Start
    BY <2>0 DEF Start, pvars
  <2>1. CASE Listen
    BY <2>1 DEF Listen, pvars
  <2>2. CASE BootFails
    BY <2>2 DEF BootFails, pvars
  <2>3. CASE Signal \/ Cancel
    <3>1. /\ pvars' = pvars /\ closed' = closed /\ main' = main /\ inFlight' = inFlight
          /\ serving' = serving /\ sweeping' = sweeping
      BY <2>3 DEF Signal, Cancel, pvars
    <3> QED
      BY <3>1, <1>u
  <2> QED
    BY <1>2, <2>0, <2>1, <2>2, <2>3
<1>3. CASE Shutdown \/ Drained \/ DrainTimesOut \/ ServeFails
  <2>1. CASE Shutdown
    BY <2>1 DEF Shutdown, pvars
  <2>2. CASE Drained
    BY <2>2 DEF Drained, pvars
  <2>3. CASE DrainTimesOut
    BY <2>3 DEF DrainTimesOut, pvars
  <2>4. CASE ServeFails
    BY <2>4 DEF ServeFails, pvars
  <2> QED
    BY <1>3, <2>1, <2>2, <2>3, <2>4
<1>4. CASE StopSweepers \/ ClosePool
  <2>1. CASE StopSweepers
    BY <2>1 DEF StopSweepers, pvars
  <2>2. CASE ClosePool
    BY <2>2 DEF ClosePool, Pool!Close
  <2> QED
    BY <1>4, <2>1, <2>2
<1>5. CASE Exit
  <2>1. \A j \in Jobs : ~Pool!Busy(j)
    BY <1>5, NobodyBusy DEF Exit
  <2>2. \A j \in Jobs : ~Pool!Busy(j)'
    BY <1>5, <2>1 DEF Exit, pvars, Pool!Busy
  <2> QED
    BY <1>5, <2>2 DEF Exit, pvars
<1>6. ASSUME NEW r \in Request, Accept(r) \/ Answer(r)
      PROVE  SInv'
  <2>1. /\ main' = main /\ serving' = serving /\ sweeping' = sweeping /\ closed' = closed
        /\ main \notin {"exit 0", "exit 1"}
    BY <1>6 DEF Accept, Answer, Alive, pvars
  <2>2. serving \/ inFlight # {}
    BY <1>6 DEF Accept, Answer
  <2>3. main \in {"boot", "bind", "sweepers", "pool", "closing"} => inFlight = {} /\ ~serving
    OBVIOUS
  <2>4. main \notin {"boot", "bind", "sweepers", "pool", "closing", "exit 0"}
    BY <2>1, <2>2, <2>3
  <2>5. serving => sweeping
    BY <2>1, <2>4
  <2> QED
    BY <2>1, <2>2, <2>4, <2>5
<1>7. ASSUME NEW j \in Jobs, Begin(j) \/ Proceed(j) \/ Disturb(j)
      PROVE  SInv'
  BY <1>7, JobsKeepSInv
<1> QED
  BY <1>1, <1>2, <1>3, <1>4, <1>5, <1>6, <1>7 DEF Next, Main

LEMMA ServerInvariant == Spec => []SInv
<1>1. Init => SInv
  BY DEF Init, SInv, Stages, Quiet, ServedToTheEnd, Pool!Init
<1> QED
  BY <1>1, StepSInv, ServerPool, PTL DEF Spec

\* A request keeps its limiters swept and its pool open until it is answered.
THEOREM ServerServesToTheEnd == Spec => []ServedToTheEnd
<1>1. SInv => ServedToTheEnd
  BY DEF SInv
<1> QED
  BY <1>1, ServerInvariant, PTL

\* A process that ends with status 0 has answered every request it accepted and ended
\* every transaction it began.
THEOREM ServerSafety == Spec => []GracefulExit
<1>1. SInv => GracefulExit
  BY DEF SInv, Quiet, GracefulExit
<1> QED
  BY <1>1, ServerInvariant, PTL

\* Main passes through its stages only, requests and the reaper's loop keep to
\* their own, and the pool's connections and transactions stay well formed.
THEOREM ServerTypeOK == Spec => []TypeOK
<1> DEFINE Own == /\ signalled \in BOOLEAN /\ cancelled \in BOOLEAN
                  /\ inFlight \subseteq Request /\ reaping \in {"off", "on", "over"}
<1>1. Init => SInv /\ Own
  BY DEF Init, SInv, Stages, Quiet, ServedToTheEnd, Pool!Init
<1>2. Own /\ [Next]_vars => Own'
  <2> SUFFICES ASSUME Own, [Next]_vars PROVE Own'
    OBVIOUS
  <2>1. CASE Main
    <3>1. inFlight' \subseteq Request
      BY <2>1 DEF Main, Start, Listen, BootFails, Signal, Cancel, Shutdown, Drained,
         DrainTimesOut, ServeFails, StopSweepers, ClosePool, Exit
    <3>2. reaping' \in {"off", "on", "over"}
      BY <2>1 DEF Main, Start, Listen, BootFails, Signal, Cancel, Shutdown, Drained,
         DrainTimesOut, ServeFails, StopSweepers, ClosePool, Exit
    <3>3. signalled' \in BOOLEAN
      BY <2>1 DEF Main, Start, Listen, BootFails, Signal, Cancel, Shutdown, Drained,
         DrainTimesOut, ServeFails, StopSweepers, ClosePool, Exit
    <3>4. cancelled' \in BOOLEAN
      BY <2>1 DEF Main, Start, Listen, BootFails, Signal, Cancel, Shutdown, Drained,
         DrainTimesOut, ServeFails, StopSweepers, ClosePool, Exit
    <3> QED
      BY <3>1, <3>2, <3>3, <3>4
  <2>2. CASE ReaperStops \/ Terminated \/ UNCHANGED vars
    BY <2>2 DEF ReaperStops, Terminated, vars, svars
  <2>3. ASSUME NEW r \in Request, Accept(r) \/ Answer(r)
        PROVE  Own'
    BY <2>3 DEF Accept, Answer
  <2>4. ASSUME NEW j \in Jobs, Begin(j) \/ Proceed(j) \/ Disturb(j)
        PROVE  Own'
    BY <2>4 DEF Begin, Proceed, Disturb, svars
  <2> QED
    BY <2>1, <2>2, <2>3, <2>4 DEF Next
<1>3. SInv /\ Own /\ Pool!TypeOK => TypeOK
  BY DEF SInv, TypeOK
<1> HIDE DEF Own
<1> QED
  BY <1>1, <1>2, <1>3, StepSInv, ServerPool, PTL DEF Spec
=============================================================================
