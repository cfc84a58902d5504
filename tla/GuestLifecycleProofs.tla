------------------------ MODULE GuestLifecycleProofs ------------------------
(***************************************************************************)
(* What holds of guest accounts for any number of identities and requests: *)
(* types, the safety properties of GuestLifecycle and the refinement of    *)
(* GuestPromise.  All but the types suppose ShortSessions, the relation    *)
(* between GUEST_TTL, expires_in and the request timeout.  The inductive   *)
(* invariant is IInv.                                                      *)
(***************************************************************************)
EXTENDS GuestLifecycle, TLAPS

LEMMA TimingFacts ==
    /\ TTL \in Nat /\ TokenLife \in Nat /\ ReqMax \in Nat
BY TimingAssumption

\* TypeOK in parts: the fields, and what relates one users row to another.
Fields ==
    /\ now \in Time
    /\ status \in [Auth -> Status]
    /\ born \in [Auth -> Time]
    /\ tokens \in SUBSET Token
    /\ users \in SUBSET User
    /\ serial \in Nat
    /\ req \in [Req -> Request \cup {Idle}]
    /\ reaper \in Reaper
    /\ missed \in SUBSET Auth

UniqueRows == \A u, v \in users : u.auth = v.auth \/ u.id = v.id => u = v

OldRows == \A u \in users : u.id \in 1..serial /\ u.born <= now

LEMMA TypeParts == TypeOK <=> Fields /\ UniqueRows /\ OldRows
BY DEF TypeOK, Fields, UniqueRows, OldRows

\* A row of the users table and what flipping its flag does.
LEMMA FlippedRows ==
    ASSUME users \in SUBSET User, UniqueRows, OldRows, NEW id
    PROVE  /\ Flipped(id) \in SUBSET User
           /\ \A u, v \in Flipped(id) : u.auth = v.auth \/ u.id = v.id => u = v
           /\ \A u \in Flipped(id) : u.id \in 1..serial /\ u.born <= now
           /\ \A u \in Flipped(id) : \E v \in users :
                 /\ u.auth = v.auth /\ u.id = v.id /\ u.born = v.born
                 /\ u.anon = (v.anon /\ v.id # id)
           /\ \A v \in users : \E u \in Flipped(id) :
                 /\ u.auth = v.auth /\ u.id = v.id /\ u.born = v.born
                 /\ u.anon = (v.anon /\ v.id # id)
<1> DEFINE F(v) == IF v.id = id THEN [v EXCEPT !.anon = FALSE] ELSE v
<1>1. \A v \in users : /\ F(v) \in User /\ F(v).auth = v.auth /\ F(v).id = v.id
                       /\ F(v).born = v.born /\ F(v).anon = (v.anon /\ v.id # id)
  <2> SUFFICES ASSUME NEW v \in users
               PROVE  /\ F(v) \in User /\ F(v).auth = v.auth /\ F(v).id = v.id
                      /\ F(v).born = v.born /\ F(v).anon = (v.anon /\ v.id # id)
    OBVIOUS
  <2>0. v \in User /\ v.anon \in BOOLEAN
    BY DEF User
  <2>1. CASE v.id = id
    <3>1. F(v) = [v EXCEPT !.anon = FALSE]
      BY <2>1
    <3> QED
      BY <2>0, <2>1, <3>1 DEF User
  <2>2. CASE v.id # id
    <3>1. F(v) = v
      BY <2>2
    <3> QED
      BY <2>0, <2>2, <3>1
  <2> QED
    BY <2>1, <2>2
<1>2. Flipped(id) = {F(v) : v \in users}
  BY DEF Flipped
<1> HIDE DEF F
<1>3. \A u \in Flipped(id) : \E v \in users : u = F(v)
  BY <1>2
<1>4. \A v \in users : F(v) \in Flipped(id)
  BY <1>2
<1>5. Flipped(id) \in SUBSET User
  BY <1>1, <1>3
<1>6. \A u, v \in Flipped(id) : u.auth = v.auth \/ u.id = v.id => u = v
  BY <1>1, <1>3 DEF UniqueRows
<1>7. \A u \in Flipped(id) : u.id \in 1..serial /\ u.born <= now
  BY <1>1, <1>3 DEF OldRows
<1> QED
  BY <1>1, <1>3, <1>4, <1>5, <1>6, <1>7

-----------------------------------------------------------------------------
(* Type correctness.                                                       *)

LEMMA InitTypeOK == Init => TypeOK
<1> SUFFICES ASSUME Init PROVE TypeOK
  OBVIOUS
<1>1. Fields
  BY DEF Init, Fields, Time, Status, Token, User, Request, Idle, Reaper, Resting
<1>2. UniqueRows /\ OldRows
  BY DEF Init, UniqueRows, OldRows
<1> QED
  BY <1>1, <1>2, TypeParts

\* The token GoTrue issues today is a token.
LEMMA TokenForType ==
    ASSUME Fields, NEW a \in Auth
    PROVE  TokenFor(a) \in Token
BY TimingFacts DEF Fields, TokenFor, Token, Anonymous, Time

\* A request in flight.
LEMMA RequestType ==
    ASSUME Fields, NEW r \in Req, req[r] # Idle
    PROVE  /\ req[r] \in Request /\ req[r].sub \in Auth /\ req[r].anon \in BOOLEAN
           /\ req[r].upgrade \in BOOLEAN /\ req[r].row \in Nat /\ req[r].start \in Nat
BY DEF Fields, Request, Time

LEMMA SessionTypeOK ==
    ASSUME TypeOK,
           \/ Tick
           \/ \E a \in Auth : SignIn(a) \/ Login(a) \/ Confirm(a)
           \/ \E t \in tokens : ClearCookie(t)
    PROVE  TypeOK'
<1>f. Fields /\ UniqueRows /\ OldRows
  BY TypeParts
<1>1. CASE Tick
  <2>1. now' = now + 1 /\ now \in Nat /\ now' \in Nat
    BY <1>1, <1>f DEF Tick, Fields, Time
  <2>2. Fields'
    BY <1>1, <1>f, <2>1 DEF Tick, Fields, Time
  <2>3. UniqueRows' /\ OldRows'
    BY <1>1, <1>f, <2>1 DEF Tick, UniqueRows, OldRows, Fields, User, Time
  <2> QED
    BY <2>2, <2>3 DEF TypeOK, Fields, UniqueRows, OldRows
<1>2. ASSUME NEW a \in Auth, SignIn(a) PROVE TypeOK'
  <2>1. [sub |-> a, anon |-> TRUE, exp |-> now + TokenLife] \in Token
    BY <1>f, TimingFacts DEF Fields, Token, Time
  <2>2. status' \in [Auth -> Status] /\ born' \in [Auth -> Time]
    BY <1>2, <1>f DEF SignIn, Fields, Status
  <2>3. tokens' \in SUBSET Token
    BY <1>2, <1>f, <2>1 DEF SignIn, Fields
  <2> QED
    BY <1>2, <1>f, <2>2, <2>3 DEF SignIn, TypeOK, Fields, UniqueRows, OldRows
<1>3. ASSUME NEW a \in Auth, Login(a) PROVE TypeOK'
  <2>1. tokens' \in SUBSET Token
    BY <1>3, <1>f, TokenForType DEF Login, Fields
  <2> QED
    BY <1>3, <1>f, <2>1 DEF Login, TypeOK, Fields, UniqueRows, OldRows
<1>4. ASSUME NEW a \in Auth, Confirm(a) PROVE TypeOK'
  <2>1. status' \in [Auth -> Status]
    BY <1>4, <1>f DEF Confirm, Fields, Status
  <2> QED
    BY <1>4, <1>f, <2>1 DEF Confirm, TypeOK, Fields, UniqueRows, OldRows
<1>5. ASSUME NEW t \in tokens, ClearCookie(t) PROVE TypeOK'
  BY <1>5, <1>f DEF ClearCookie, TypeOK, Fields, UniqueRows, OldRows
<1> QED
  BY <1>1, <1>2, <1>3, <1>4, <1>5

\* What a loaded row leaves of the request.
LEMMA LoadedType ==
    ASSUME Fields, NEW r \in Req, req[r] # Idle, NEW id \in Nat, NEW guest \in BOOLEAN,
           Loaded(r, id, guest)
    PROVE  req' \in [Req -> Request \cup {Idle}]
<1>1. req[r] \in Request
  BY RequestType
<1>2. [req[r] EXCEPT !.step = "put", !.row = id] \in Request
  BY <1>1 DEF Request
<1> QED
  BY <1>2 DEF Loaded, Fields

\* A row provisioned for an identity that has none.
LEMMA ProvisionedRows ==
    ASSUME TypeOK, NEW r \in Req, req[r] # Idle, ~HasRow(req[r].sub),
           serial' = serial + 1, now' = now,
           users' = users \cup {[id |-> serial + 1, auth |-> req[r].sub,
                                 anon |-> req[r].anon, born |-> now]}
    PROVE  users' \in SUBSET User /\ UniqueRows' /\ OldRows' /\ serial' \in Nat
<1>f. Fields /\ UniqueRows /\ OldRows
  BY TypeParts
<1>1. PICK w : w = [id |-> serial + 1, auth |-> req[r].sub, anon |-> req[r].anon, born |-> now]
  OBVIOUS
<1>2. /\ w \in User /\ w.id = serial + 1 /\ w.auth = req[r].sub /\ w.born = now
      /\ serial \in Nat /\ now \in Nat
  <2>1. req[r].sub \in Auth /\ req[r].anon \in BOOLEAN
    BY <1>f, RequestType
  <2> QED
    BY <1>1, <1>f, <2>1 DEF Fields, User, Time
<1>3. users' = users \cup {w}
  BY <1>1
<1>4. \A u \in users : u.auth # w.auth /\ u.id # w.id
  <2>1. \A u \in users : u.auth # w.auth
    BY <1>2 DEF HasRow
  <2>2. \A u \in users : u.id # w.id
    BY <1>2, <1>f DEF OldRows
  <2> QED
    BY <2>1, <2>2
<1>5. users' \in SUBSET User /\ UniqueRows'
  BY <1>2, <1>3, <1>4, <1>f DEF Fields, UniqueRows
<1>6. OldRows'
  BY <1>2, <1>3, <1>f DEF OldRows
<1> QED
  BY <1>2, <1>5, <1>6

LEMMA RequestTypeOK ==
    ASSUME TypeOK, NEW r \in Req,
           (\E t \in tokens : Authenticate(r, t)) \/ RequestStep(r)
    PROVE  TypeOK'
<1>f. Fields /\ UniqueRows /\ OldRows
  BY TypeParts
<1>1. ASSUME NEW t \in tokens, Authenticate(r, t) PROVE TypeOK'
  <2>1. PICK upgrade \in BOOLEAN :
           req' = [req EXCEPT ![r] = [step |-> "load", sub |-> t.sub, anon |-> t.anon,
                                      upgrade |-> upgrade, row |-> 0, start |-> now]]
    BY <1>1 DEF Authenticate
  <2>2. [step |-> "load", sub |-> t.sub, anon |-> t.anon,
         upgrade |-> upgrade, row |-> 0, start |-> now] \in Request
    BY <1>f DEF Fields, Token, Request, Time
  <2>3. req' \in [Req -> Request \cup {Idle}]
    BY <1>f, <2>1, <2>2 DEF Fields
  <2> QED
    BY <1>1, <1>f, <2>3 DEF Authenticate, TypeOK, Fields, UniqueRows, OldRows
<1>2. CASE Load(r)
  <2>0. req[r] # Idle
    BY <1>2 DEF Load, Idle
  <2>1. req[r] \in Request
    BY <1>f, <2>0, RequestType
  <2>2. req' \in [Req -> Request \cup {Idle}]
    <3>1. CASE req' = [req EXCEPT ![r].step = "provision"]
      <4>1. [req[r] EXCEPT !.step = "provision"] \in Request
        BY <2>1 DEF Request
      <4> QED
        BY <1>f, <3>1, <4>1 DEF Fields
    <3>2. ASSUME NEW u \in users,
                 req' = [req EXCEPT ![r].step = "heal", ![r].row = u.id]
          PROVE  req' \in [Req -> Request \cup {Idle}]
      <4>1. [req[r] EXCEPT !.step = "heal", !.row = u.id] \in Request
        BY <1>f, <2>1 DEF Request, Fields, User
      <4> QED
        BY <1>f, <3>2, <4>1 DEF Fields
    <3>3. ASSUME NEW u \in users, Loaded(r, u.id, u.anon)
          PROVE  req' \in [Req -> Request \cup {Idle}]
      <4>1. u.id \in Nat /\ u.anon \in BOOLEAN
        BY <1>f DEF Fields, User
      <4> QED
        BY <1>f, <2>0, <3>3, <4>1, LoadedType
    <3> QED
      BY <1>2, <3>1, <3>2, <3>3 DEF Load
  <2> QED
    BY <1>2, <1>f, <2>2 DEF Load, TypeOK, Fields, UniqueRows, OldRows
<1>3. CASE Provision(r)
  <2>0. req[r] # Idle
    BY <1>3 DEF Provision, Idle
  <2>1. users' \in SUBSET User /\ UniqueRows' /\ OldRows' /\ serial' \in Nat
    BY <1>3, <2>0, ProvisionedRows DEF Provision
  <2>2. req' \in [Req -> Request \cup {Idle}]
    <3>1. CASE Loaded(r, serial + 1, req[r].anon)
      <4>1. serial + 1 \in Nat /\ req[r].anon \in BOOLEAN
        BY <1>f, <2>0, RequestType DEF Fields
      <4> QED
        BY <1>f, <2>0, <3>1, <4>1, LoadedType
    <3>2. CASE req' = [req EXCEPT ![r] = Idle]
      BY <1>f, <3>2 DEF Fields
    <3> QED
      BY <1>3, <3>1, <3>2 DEF Provision
  <2> QED
    BY <1>3, <1>f, <2>1, <2>2 DEF Provision, TypeOK, Fields, UniqueRows, OldRows
<1>4. CASE Heal(r)
  <2>1. req' \in [Req -> Request \cup {Idle}]
    BY <1>4, <1>f DEF Heal, Fields
  <2>2. users' \in SUBSET User /\ UniqueRows' /\ OldRows'
    BY <1>4, <1>f, FlippedRows DEF Heal, Fields, UniqueRows, OldRows
  <2> QED
    BY <1>4, <1>f, <2>1, <2>2 DEF Heal, TypeOK, Fields, UniqueRows, OldRows
<1>5. CASE Put(r)
  <2>0. req[r] # Idle
    BY <1>5 DEF Put, Idle
  <2>1. req[r] \in Request /\ req[r].sub \in Auth
    BY <1>f, <2>0, RequestType
  <2>2. [req[r] EXCEPT !.step = "promote"] \in Request
    BY <2>1 DEF Request
  <2>3. req' \in [Req -> Request \cup {Idle}]
    BY <1>5, <1>f, <2>2 DEF Put, Fields
  <2>4. status' \in [Auth -> Status] /\ missed' \in SUBSET Auth
    BY <1>5, <1>f, <2>1 DEF Put, Fields, Status
  <2> QED
    BY <1>5, <1>f, <2>3, <2>4 DEF Put, TypeOK, Fields, UniqueRows, OldRows
<1>6. CASE Promote(r)
  <2>0. req[r] # Idle
    BY <1>6 DEF Promote, Idle
  <2>1. req[r] \in Request /\ req[r].sub \in Auth
    BY <1>f, <2>0, RequestType
  <2>2. [req[r] EXCEPT !.step = "refresh"] \in Request
    BY <2>1 DEF Request
  <2>3. req' \in [Req -> Request \cup {Idle}]
    BY <1>6, <1>f, <2>2 DEF Promote, Fields
  <2>4. users' \in SUBSET User /\ UniqueRows' /\ OldRows'
    BY <1>6, <1>f, FlippedRows DEF Promote, Fields, UniqueRows, OldRows
  <2>5. missed' \in SUBSET Auth
    BY <1>6, <1>f, <2>1 DEF Promote, Fields
  <2> QED
    BY <1>6, <1>f, <2>3, <2>4, <2>5 DEF Promote, TypeOK, Fields, UniqueRows, OldRows
<1>7. CASE Refresh(r)
  <2>0. req[r] # Idle
    BY <1>7 DEF Refresh, Idle
  <2>1. tokens' \in SUBSET Token
    BY <1>7, <1>f, <2>0, RequestType, TokenForType DEF Refresh, Fields
  <2>2. req' \in [Req -> Request \cup {Idle}]
    BY <1>7, <1>f DEF Refresh, Fields
  <2> QED
    BY <1>7, <1>f, <2>1, <2>2 DEF Refresh, TypeOK, Fields, UniqueRows, OldRows
<1>8. CASE Fail(r)
  <2>1. req' \in [Req -> Request \cup {Idle}]
    BY <1>8, <1>f DEF Fail, Fields
  <2> QED
    BY <1>8, <1>f, <2>1 DEF Fail, TypeOK, Fields, UniqueRows, OldRows
<1> QED
  BY <1>1, <1>2, <1>3, <1>4, <1>5, <1>6, <1>7, <1>8 DEF RequestStep

LEMMA ReaperTypeOK == ASSUME TypeOK, ReaperStep \/ Crash PROVE TypeOK'
<1>f. Fields /\ UniqueRows /\ OldRows
  BY TypeParts
<1>z. /\ Resting \in Reaper
      /\ reaper.step \in {"idle", "twins", "list", "check", "orphans"}
      /\ reaper.todo \in SUBSET Auth /\ reaper \in Reaper
  BY <1>f DEF Fields, Resting, Reaper
<1>1. CASE ReapRows
  <2>1. users' \subseteq users
    BY <1>1 DEF ReapRows
  <2>2. reaper' \in Reaper
    <3>1. {u.auth : u \in Expired(now - TTL)} \in SUBSET Auth /\ now - TTL \in Int
      BY <1>f, TimingFacts DEF Expired, Fields, User, Time
    <3> QED
      BY <1>1, <1>z, <3>1 DEF ReapRows, Reaper
  <2> QED
    BY <1>1, <1>f, <2>1, <2>2 DEF ReapRows, TypeOK, Fields, UniqueRows, OldRows
<1>2. CASE List \/ Check \/ GiveUp
  <2>1. reaper' \in Reaper
    BY <1>2, <1>z DEF List, Check, GiveUp, Reaper
  <2> QED
    BY <1>2, <1>f, <2>1 DEF List, Check, GiveUp, TypeOK, Fields, UniqueRows, OldRows
<1>3. ASSUME NEW a \in Auth, DeleteTwin(a) \/ SkipTwin(a) \/ DeleteOrphan(a) \/ SkipOrphan(a)
      PROVE  TypeOK'
  <2>1. reaper' \in Reaper
    BY <1>3, <1>z DEF DeleteTwin, SkipTwin, DeleteOrphan, SkipOrphan, TwinDone, OrphanDone, Reaper
  <2>2. status' \in [Auth -> Status]
    BY <1>3, <1>f DEF DeleteTwin, SkipTwin, DeleteOrphan, SkipOrphan, Delete, Fields, Status
  <2>3. UNCHANGED <<now, born, tokens, users, serial, req, missed>>
    BY <1>3 DEF DeleteTwin, SkipTwin, DeleteOrphan, SkipOrphan
  <2> QED
    BY <1>f, <2>1, <2>2, <2>3 DEF TypeOK, Fields, UniqueRows, OldRows
<1>4. CASE Crash
  <2>1. req' \in [Req -> Request \cup {Idle}] /\ missed' \in SUBSET Auth
    BY <1>4, <1>f DEF Crash, Fields
  <2> QED
    BY <1>4, <1>f, <1>z, <2>1 DEF Crash, TypeOK, Fields, UniqueRows, OldRows
<1> QED
  BY <1>1, <1>2, <1>3, <1>4 DEF ReaperStep

LEMMA StepTypeOK == TypeOK /\ [Next]_vars => TypeOK'
<1> SUFFICES ASSUME TypeOK, [Next]_vars PROVE TypeOK'
  OBVIOUS
<1>1. CASE \/ Tick
           \/ \E a \in Auth : SignIn(a) \/ Login(a) \/ Confirm(a)
           \/ \E t \in tokens : ClearCookie(t)
  BY <1>1, SessionTypeOK
<1>2. CASE \E r \in Req : (\E t \in tokens : Authenticate(r, t)) \/ RequestStep(r)
  BY <1>2, RequestTypeOK
<1>3. CASE ReaperStep \/ Crash
  BY <1>3, ReaperTypeOK
<1>4. CASE UNCHANGED vars
  BY <1>4 DEF vars, TypeOK
<1> QED
  BY <1>1, <1>2, <1>3, <1>4 DEF Next

\* Types, and the two constraints of the users table that concurrent first requests
\* of one guest meet: a row per identity and an id per row.
THEOREM GuestTypeOK == Spec => []TypeOK
<1>1. Init => TypeOK
  BY InitTypeOK
<1>2. TypeOK /\ [Next]_vars => TypeOK'
  BY StepTypeOK
<1> QED
  BY <1>1, <1>2, PTL DEF Spec

-----------------------------------------------------------------------------
(* Safety, with sessions shorter than the TTL.  The four properties lean on  *)
(* one another: an identity is only deleted when nobody can act for it any   *)
(* more, and that is so because its tokens and requests, all but those of an *)
(* upgraded account, are from its first TokenLife.                           *)

\* Nothing of a is left: no row, no token, no request.
Gone(a) ==
    /\ ~HasRow(a)
    /\ \A t \in tokens : t.sub # a
    /\ \A r \in Req : req[r] # Idle => req[r].sub # a

\* GoTrue has credentials of a; a request is between that and the promotion.
Upgraded(a) == status[a] \in {"pending", "registered"}
Promoting(a) == \E r \in Req : req[r].step = "promote" /\ req[r].sub = a

\* Past its TTL.
Old(a) == status[a] # "unminted" /\ born[a] + TTL < now

\* Cookies and requests are dropped in time, and nothing is older than its identity.
InTime ==
    /\ \A t \in tokens : now <= t.exp
    /\ \A r \in Req : req[r] # Idle => now <= req[r].start + ReqMax
    /\ \A a \in Auth : born[a] <= now
    /\ \A u \in users : born[u.auth] <= u.born

\* The id a request carries is of a row of its own identity or of none, and only a
\* guest's request gets to the upgrade.
OwnRow ==
    \A r \in Req : req[r] # Idle =>
        /\ req[r].row <= serial
        /\ req[r].step \in {"heal", "put", "promote"} =>
             \A u \in users : u.id = req[r].row => u.auth = req[r].sub
        /\ req[r].step \in {"put", "promote"} => req[r].anon
        /\ req[r].step = "heal" => ~req[r].anon

Absent == \A a \in Auth : status[a] = "unminted" => Gone(a) /\ a \notin missed

Closed == \A a \in Auth \ missed : status[a] = "deleted" => Gone(a)

\* An upgrade that was not missed has promoted the row, or is about to.
Upgrades ==
    \A a \in Auth \ missed :
        /\ Upgraded(a) => Promoted(a) \/ Promoting(a)
        /\ Promoted(a) => Upgraded(a)

\* A guest's tokens are those of its sign-in.
Handed ==
    \A t \in tokens : t.sub \notin missed =>
        /\ ~t.anon => status[t.sub] = "registered"
        /\ t.anon => Promoted(t.sub) \/ t.exp <= born[t.sub] + TokenLife

\* And its requests started with one of them.
Started ==
    \A r \in Req : req[r] # Idle /\ req[r].sub \notin missed =>
        /\ ~req[r].anon => status[req[r].sub] = "registered"
        /\ req[r].anon =>
             Promoted(req[r].sub) \/ req[r].start <= born[req[r].sub] + TokenLife
        /\ req[r].step \in {"promote", "refresh"} => Upgraded(req[r].sub)
        /\ req[r].step = "refresh" => Promoted(req[r].sub)

\* What the reaper has decided stays right while it acts on it.
Pass ==
    /\ reaper.step # "idle" =>
         reaper.cutoff + TTL <= now /\ \A a \in reaper.todo : Old(a)
    /\ reaper.step \in {"twins", "orphans"} =>
         \A a \in reaper.todo \ missed : ~Upgraded(a) /\ Gone(a)

IInv == InTime /\ OwnRow /\ Absent /\ Closed /\ Upgrades /\ Handed /\ Started /\ Pass

\* TypeOK for one identity, token, row or request.
LEMMA Typed ==
    ASSUME TypeOK
    PROVE  /\ now \in Nat /\ serial \in Nat
           /\ \A a \in Auth : status[a] \in Status /\ born[a] \in Nat
           /\ \A t \in tokens : t.sub \in Auth /\ t.anon \in BOOLEAN /\ t.exp \in Nat
           /\ \A u \in users : u.auth \in Auth /\ u.anon \in BOOLEAN /\ u.id \in 1..serial
                               /\ u.id \in Nat /\ u.born \in Nat /\ u.born <= now
           /\ \A u, v \in users : u.auth = v.auth \/ u.id = v.id => u = v
           /\ \A r \in Req : req[r] # Idle =>
                /\ req[r] \in Request /\ req[r].sub \in Auth /\ req[r].anon \in BOOLEAN
                /\ req[r].upgrade \in BOOLEAN /\ req[r].row \in Nat /\ req[r].start \in Nat
           /\ reaper.step \in {"idle", "twins", "list", "check", "orphans"}
           /\ reaper.cutoff \in Int /\ reaper.todo \in SUBSET Auth
BY DEF TypeOK, Token, User, Request, Reaper, Time

\* Past its TTL a guest has no session left and no upgrade under way.
LEMMA NobodyLeft ==
    ASSUME TypeOK, IInv, ShortSessions, NEW a \in Auth \ missed, Old(a), ~Promoted(a)
    PROVE  /\ ~Upgraded(a)
           /\ \A t \in tokens : t.sub # a
           /\ \A r \in Req : req[r] # Idle => req[r].sub # a
<1>1. ASSUME NEW r \in Req, req[r] # Idle, req[r].sub = a, req[r].anon PROVE FALSE
  <2>1. req[r].start <= born[a] + TokenLife
    BY <1>1 DEF IInv, Started
  <2>2. now <= req[r].start + ReqMax
    BY <1>1 DEF IInv, InTime
  <2>3. now <= born[a] + TTL
    BY <1>1, <2>1, <2>2, Typed, TimingFacts DEF ShortSessions
  <2> QED
    BY <2>3, Typed, TimingFacts DEF Old
<1>2. ~Upgraded(a)
  <2>1. ASSUME NEW r \in Req, req[r].step = "promote", req[r].sub = a PROVE FALSE
    <3>1. req[r] # Idle
      BY <2>1 DEF Idle
    <3>2. req[r].anon
      BY <2>1, <3>1 DEF IInv, OwnRow
    <3> QED
      BY <1>1, <2>1, <3>1, <3>2
  <2> QED
    BY <2>1 DEF IInv, Upgrades, Promoting
<1>3. \A t \in tokens : t.sub # a
  <2> SUFFICES ASSUME NEW t \in tokens, t.sub = a PROVE FALSE
    OBVIOUS
  <2>1. t.anon
    BY <1>2, Typed DEF IInv, Handed, Upgraded
  <2>2. t.exp <= born[a] + TokenLife /\ now <= t.exp
    BY <2>1 DEF IInv, Handed, InTime
  <2> QED
    BY <2>2, Typed, TimingFacts DEF Old, ShortSessions
<1>4. \A r \in Req : req[r] # Idle => req[r].sub # a
  BY <1>1, <1>2, Typed DEF IInv, Started, Upgraded
<1> QED
  BY <1>2, <1>3, <1>4

-----------------------------------------------------------------------------
(* What each step does to it.                                               *)

LEMMA InitIInv == Init => IInv
BY TimingFacts DEF Init, IInv, InTime, OwnRow, Absent, Closed, Upgrades, Handed, Started, Pass,
       Gone, HasRow, Upgraded, Promoting, Promoted, Resting

\* Clocks and cookies.
LEMMA SessionIInv ==
    ASSUME TypeOK, IInv,
           \/ Tick
           \/ \E a \in Auth : SignIn(a) \/ Login(a) \/ Confirm(a)
           \/ \E t \in tokens : ClearCookie(t)
    PROVE  IInv'
<1> USE TimingFacts DEF IInv, InTime, OwnRow, Absent, Closed, Upgrades, Handed, Started, Pass,
                        Gone, HasRow, Upgraded, Promoting, Promoted, Old
<1>1. CASE Tick
  BY <1>1, Typed DEF Tick
<1>2. ASSUME NEW a \in Auth, SignIn(a) PROVE IInv'
  BY <1>2, Typed DEF SignIn, TypeOK
<1>3. ASSUME NEW a \in Auth, Login(a) PROVE IInv'
  <2>1. PICK t : t = TokenFor(a)
    OBVIOUS
  <2>2. t.sub = a /\ ~t.anon /\ t.exp = now + TokenLife
    <3>1. ~Anonymous(a)
      BY <1>3 DEF Login, Anonymous
    <3> QED
      BY <2>1, <3>1 DEF TokenFor
  <2>3. tokens' = tokens \cup {t} /\ status[a] = "registered"
    BY <1>3, <2>1 DEF Login
  <2>4. UNCHANGED <<now, status, born, users, serial, req, reaper, missed>>
    BY <1>3 DEF Login
  <2> QED
    BY <2>2, <2>3, <2>4, Typed
<1>4. ASSUME NEW a \in Auth, Confirm(a) PROVE IInv'
  BY <1>4, Typed DEF Confirm, TypeOK
<1>5. ASSUME NEW t \in tokens, ClearCookie(t) PROVE IInv'
  BY <1>5 DEF ClearCookie
<1> QED
  BY <1>1, <1>2, <1>3, <1>4, <1>5

\* A step of request r alone, which keeps its claims and is not about to promote.
Onward(r, q) ==
    /\ req' = [req EXCEPT ![r] = q]
    /\ req[r].step \in {"load", "provision", "heal", "put"}
    /\ q \in Request
    /\ q.sub = req[r].sub /\ q.anon = req[r].anon /\ q.start = req[r].start
    /\ q.step \in {"provision", "heal", "put"}
    /\ q.row <= serial'
    /\ q.step \in {"heal", "put"} => \A u \in users' : u.id = q.row => u.auth = q.sub
    /\ q.step = "put" => q.anon
    /\ q.step = "heal" => ~q.anon

LEMMA OnwardIInv ==
    ASSUME TypeOK, IInv, NEW r \in Req, req[r] # Idle, NEW q, Onward(r, q),
           UNCHANGED <<now, status, born, tokens, users, serial, reaper, missed>>
    PROVE  IInv'
<1>1. req'[r] = q /\ \A s \in Req \ {r} : req'[s] = req[s]
  BY DEF Onward, TypeOK
<1> USE DEF IInv, InTime, OwnRow, Absent, Closed, Upgrades, Handed, Started, Pass,
            Gone, HasRow, Upgraded, Promoting, Promoted, Old
<1>2. InTime' /\ OwnRow' /\ Handed' /\ Started'
  BY <1>1 DEF Onward
<1>3. Absent' /\ Closed' /\ Pass'
  BY <1>1 DEF Onward
<1>4. Upgrades'
  BY <1>1 DEF Onward
<1> QED
  BY <1>2, <1>3, <1>4

\* A request that is over, unless it owed a promotion.
LEMMA EndedIInv ==
    ASSUME TypeOK, IInv, NEW r \in Req, req[r].step # "promote",
           req' = [req EXCEPT ![r] = Idle],
           UNCHANGED <<now, status, born, tokens, users, serial, reaper, missed>>
    PROVE  IInv'
<1>1. req'[r] = Idle /\ \A s \in Req \ {r} : req'[s] = req[s]
  BY DEF TypeOK
<1> QED
  BY <1>1 DEF Idle, IInv, InTime, OwnRow, Absent, Closed, Upgrades, Handed, Started, Pass,
       Gone, HasRow, Upgraded, Promoting, Promoted, Old

\* What loading a row leads to.
LEMMA LoadedIInv ==
    ASSUME TypeOK, IInv, NEW r \in Req, req[r].step \in {"load", "provision"},
           NEW u \in users, u.auth = req[r].sub, Loaded(r, u.id, u.anon),
           u.anon => req[r].anon,
           UNCHANGED <<now, status, born, tokens, users, serial, reaper, missed>>
    PROVE  IInv'
<1>0. req[r] # Idle /\ req[r] \in Request
  BY Typed DEF Idle
<1>1. CASE req[r].upgrade /\ u.anon
  <2> DEFINE q == [req[r] EXCEPT !.step = "put", !.row = u.id]
  <2>1. req' = [req EXCEPT ![r] = q]
    BY <1>1 DEF Loaded
  <2>2. /\ q \in Request /\ q.sub = req[r].sub /\ q.anon = req[r].anon
        /\ q.start = req[r].start /\ q.step = "put" /\ q.row = u.id
    BY <1>0, Typed DEF Request
  <2> HIDE DEF q
  <2>3. Onward(r, q)
    BY <1>1, <2>1, <2>2, Typed DEF Onward
  <2> QED
    BY <1>0, <2>3, OnwardIInv
<1>2. CASE ~(req[r].upgrade /\ u.anon)
  BY <1>2, EndedIInv DEF Loaded
<1> QED
  BY <1>1, <1>2

LEMMA LoadIInv == ASSUME TypeOK, IInv, NEW r \in Req, Load(r) PROVE IInv'
<1>0. /\ req[r].step = "load" /\ req[r] # Idle /\ req[r] \in Request
      /\ UNCHANGED <<now, status, born, tokens, users, serial, reaper, missed>>
  BY Typed DEF Load, Idle
<1>1. CASE req' = [req EXCEPT ![r].step = "provision"]
  <2> DEFINE q == [req[r] EXCEPT !.step = "provision"]
  <2>1. /\ q \in Request /\ q.sub = req[r].sub /\ q.anon = req[r].anon
        /\ q.start = req[r].start /\ q.step = "provision" /\ q.row = req[r].row
    BY <1>0 DEF Request
  <2>2. req' = [req EXCEPT ![r] = q]
    BY <1>1
  <2> HIDE DEF q
  <2>3. Onward(r, q)
    BY <1>0, <2>1, <2>2 DEF Onward, IInv, OwnRow
  <2> QED
    BY <1>0, <2>3, OnwardIInv
<1>2. ASSUME NEW u \in users, u.auth = req[r].sub, u.anon /\ ~req[r].anon,
             req' = [req EXCEPT ![r].step = "heal", ![r].row = u.id]
      PROVE  IInv'
  <2> DEFINE q == [req[r] EXCEPT !.step = "heal", !.row = u.id]
  <2>1. /\ q \in Request /\ q.sub = req[r].sub /\ q.anon = req[r].anon
        /\ q.start = req[r].start /\ q.step = "heal" /\ q.row = u.id
    BY <1>0, Typed DEF Request
  <2>2. req' = [req EXCEPT ![r] = q]
    BY <1>2
  <2> HIDE DEF q
  <2>3. \A v \in users : v.id = q.row => v.auth = q.sub
    BY <1>2, <2>1, Typed
  <2>4. u.id <= serial
    BY Typed
  <2>5. Onward(r, q)
    BY <1>0, <1>2, <2>1, <2>2, <2>3, <2>4 DEF Onward
  <2> QED
    BY <1>0, <2>5, OnwardIInv
<1>3. ASSUME NEW u \in users, u.auth = req[r].sub, ~(u.anon /\ ~req[r].anon),
             Loaded(r, u.id, u.anon)
      PROVE  IInv'
  <2>1. u.anon => req[r].anon
    BY <1>0, <1>3, Typed
  <2> QED
    BY <1>0, <1>3, <2>1, LoadedIInv
<1> QED
  BY <1>1, <1>2, <1>3 DEF Load

\* The row a request provisions is its identity's own, and a registered one's only
\* when its upgrade is complete.
LEMMA ProvisionIInv == ASSUME TypeOK, IInv, NEW r \in Req, Provision(r) PROVE IInv'
<1>0. /\ req[r].step = "provision" /\ req[r] # Idle /\ req[r] \in Request
      /\ UNCHANGED <<now, status, born, tokens, reaper, missed>>
      /\ ~HasRow(req[r].sub) /\ serial' = serial + 1
  BY Typed DEF Provision, Idle
<1>w. PICK w : w = [id |-> serial + 1, auth |-> req[r].sub, anon |-> req[r].anon, born |-> now]
  OBVIOUS
<1>1. /\ users' = users \cup {w} /\ w.id = serial + 1 /\ w.auth = req[r].sub
      /\ w.anon = req[r].anon /\ w.born = now
  BY <1>w DEF Provision
<1>2. /\ \A s \in Req \ {r} : req'[s] = req[s]
      /\ \/ req'[r] = Idle
         \/ /\ req'[r].sub = req[r].sub /\ req'[r].anon = req[r].anon
            /\ req'[r].start = req[r].start /\ req'[r].step = "put"
            /\ req'[r].row = serial + 1 /\ req[r].anon
  <2>1. CASE req' = [req EXCEPT ![r] = Idle]
    BY <2>1 DEF TypeOK
  <2>2. CASE Loaded(r, serial + 1, req[r].anon)
    <3>1. CASE req[r].upgrade /\ req[r].anon
      <4>1. req' = [req EXCEPT ![r] = [req[r] EXCEPT !.step = "put", !.row = serial + 1]]
        BY <2>2, <3>1 DEF Loaded
      <4>2. /\ req'[r] = [req[r] EXCEPT !.step = "put", !.row = serial + 1]
            /\ \A s \in Req \ {r} : req'[s] = req[s]
        BY <4>1 DEF TypeOK
      <4>3. /\ req'[r].sub = req[r].sub /\ req'[r].anon = req[r].anon
            /\ req'[r].start = req[r].start /\ req'[r].step = "put"
            /\ req'[r].row = serial + 1
        BY <1>0, <4>2 DEF Request
      <4> QED
        BY <3>1, <4>2, <4>3
    <3>2. CASE ~(req[r].upgrade /\ req[r].anon)
      BY <2>2, <3>2 DEF Loaded, TypeOK
    <3> QED
      BY <3>1, <3>2
  <2> QED
    BY <2>1, <2>2 DEF Provision
<1>3. \A a \in Auth : Promoted(a)' <=> Promoted(a) \/ (a = req[r].sub /\ ~req[r].anon)
  BY <1>1 DEF Promoted
<1>4. \A a \in Auth : Promoting(a)' <=> Promoting(a)
  BY <1>0, <1>2 DEF Promoting, Idle
<1>5. \A a \in Auth : Gone(a) => Gone(a)' /\ a # req[r].sub
  BY <1>0, <1>1, <1>2 DEF Gone, HasRow
<1>6. \A a \in Auth : Upgraded(a)' = Upgraded(a) /\ Old(a)' = Old(a)
  BY <1>0 DEF Upgraded, Old
<1>7. InTime'
  BY <1>0, <1>1, <1>2, Typed DEF IInv, InTime
<1>8. OwnRow'
  BY <1>0, <1>1, <1>2, Typed DEF IInv, OwnRow, Idle
<1>9. Absent' /\ Closed'
  BY <1>0, <1>5 DEF IInv, Absent, Closed
<1>10. Upgrades'
  BY <1>0, <1>3, <1>4, <1>6, Typed DEF IInv, Upgrades, Started, Upgraded
<1>11. Handed'
  BY <1>0, <1>3, Typed DEF IInv, Handed
<1>12. Started'
  BY <1>0, <1>2, <1>3, <1>6, Typed DEF IInv, Started, Idle
<1>13. Pass'
  BY <1>0, <1>5, <1>6, Typed DEF IInv, Pass
<1> QED
  BY <1>7, <1>8, <1>9, <1>10, <1>11, <1>12, <1>13 DEF IInv

LEMMA AuthenticateIInv ==
    ASSUME TypeOK, IInv, NEW r \in Req, NEW t \in tokens, Authenticate(r, t)
    PROVE  IInv'
<1>1. /\ req[r] = Idle /\ Live(t.sub)
      /\ UNCHANGED <<now, status, born, tokens, users, serial, reaper, missed>>
  BY DEF Authenticate
<1>2. /\ \A s \in Req \ {r} : req'[s] = req[s]
      /\ req'[r].sub = t.sub /\ req'[r].anon = t.anon /\ req'[r].start = now
      /\ req'[r].step = "load" /\ req'[r].row = 0
  BY DEF Authenticate, TypeOK
<1>3. InTime' /\ OwnRow'
  BY <1>1, <1>2, Typed, TimingFacts DEF IInv, InTime, OwnRow
<1>4. \A a \in Auth : Gone(a) => Gone(a)'
  BY <1>1, <1>2 DEF Gone, HasRow
<1>5. Absent' /\ Closed' /\ Handed' /\ Pass'
  BY <1>1, <1>4, Typed DEF IInv, Absent, Closed, Handed, Pass, Old, Upgraded, Promoted
<1>6. Upgrades'
  BY <1>1, <1>2 DEF IInv, Upgrades, Upgraded, Promoted, Promoting, Idle
\* A guest's token is from its first TokenLife, and so is the request.
<1>7. Started'
  BY <1>1, <1>2, Typed, TimingFacts DEF IInv, Started, Handed, InTime, Upgraded, Promoted
<1> QED
  BY <1>3, <1>5, <1>6, <1>7 DEF IInv

\* Flipping the row a request carries promotes its own identity or nobody.
LEMMA FlipOwn ==
    ASSUME TypeOK, IInv, NEW r \in Req, req[r].step \in {"heal", "promote"},
           users' = Flipped(req[r].row)
    PROVE  /\ \A a \in Auth : HasRow(a)' <=> HasRow(a)
           /\ \A a \in Auth : Promoted(a) => Promoted(a)'
           /\ \A a \in Auth : Promoted(a)' => Promoted(a) \/ a = req[r].sub
           /\ \A u \in users' : \E v \in users :
                 u.auth = v.auth /\ u.id = v.id /\ u.born = v.born
<1>0. req[r] # Idle
  BY DEF Idle
<1>1. /\ \A u \in users' : \E v \in users :
            /\ u.auth = v.auth /\ u.id = v.id /\ u.born = v.born
            /\ u.anon = (v.anon /\ v.id # req[r].row)
      /\ \A v \in users : \E u \in users' :
            /\ u.auth = v.auth /\ u.id = v.id /\ u.born = v.born
            /\ u.anon = (v.anon /\ v.id # req[r].row)
  BY FlippedRows, TypeParts DEF Fields
<1>2. \A v \in users : v.id = req[r].row => v.auth = req[r].sub
  BY <1>0 DEF IInv, OwnRow
<1>3. \A a \in Auth : HasRow(a)' <=> HasRow(a)
  BY <1>1 DEF HasRow
<1>4. ASSUME NEW a \in Auth, Promoted(a) PROVE Promoted(a)'
  <2>1. PICK v \in users : v.auth = a /\ ~v.anon
    BY <1>4 DEF Promoted
  <2>2. PICK u \in users' : u.auth = v.auth /\ u.anon = (v.anon /\ v.id # req[r].row)
    BY <1>1
  <2> QED
    BY <2>1, <2>2 DEF Promoted
<1>5. ASSUME NEW a \in Auth, Promoted(a)', a # req[r].sub PROVE Promoted(a)
  <2>1. PICK u \in users' : u.auth = a /\ ~u.anon
    BY <1>5 DEF Promoted
  <2>2. PICK v \in users : u.auth = v.auth /\ u.anon = (v.anon /\ v.id # req[r].row)
    BY <1>1
  <2>3. v.id # req[r].row
    BY <1>2, <1>5, <2>1, <2>2
  <2>4. ~v.anon
    BY <2>1, <2>2, <2>3, Typed
  <2> QED
    BY <2>1, <2>2, <2>4 DEF Promoted
<1> QED
  BY <1>1, <1>3, <1>4, <1>5

\* Only a request with a registered identity's claims heals.
LEMMA HealIInv == ASSUME TypeOK, IInv, NEW r \in Req, Heal(r) PROVE IInv'
<1>0. /\ req[r].step = "heal" /\ req[r] # Idle /\ users' = Flipped(req[r].row)
      /\ UNCHANGED <<now, status, born, tokens, serial, reaper, missed>>
  BY DEF Heal, Idle
<1>1. req'[r] = Idle /\ \A s \in Req \ {r} : req'[s] = req[s]
  BY DEF Heal, TypeOK
<1>2. /\ \A a \in Auth : HasRow(a)' <=> HasRow(a)
      /\ \A a \in Auth : Promoted(a) => Promoted(a)'
      /\ \A a \in Auth : Promoted(a)' => Promoted(a) \/ a = req[r].sub
      /\ \A u \in users' : \E v \in users :
            u.auth = v.auth /\ u.id = v.id /\ u.born = v.born
  BY <1>0, FlipOwn
<1>3. \A a \in Auth : Gone(a) => Gone(a)'
  BY <1>0, <1>1, <1>2 DEF Gone
<1>4. InTime' /\ OwnRow'
  BY <1>0, <1>1, <1>2 DEF IInv, InTime, OwnRow
<1>5. Absent' /\ Closed' /\ Pass'
  BY <1>0, <1>3, Typed DEF IInv, Absent, Closed, Pass, Old, Upgraded
<1>6. Handed' /\ Started'
  BY <1>0, <1>1, <1>2, Typed DEF IInv, Handed, Started, Upgraded
<1>7. Upgrades'
  <2>1. req[r].sub \notin missed => Upgraded(req[r].sub)
    BY <1>0 DEF IInv, OwnRow, Started, Upgraded
  <2>2. \A a \in Auth : Promoting(a) => Promoting(a)'
    BY <1>0, <1>1 DEF Promoting
  <2> QED
    BY <1>0, <1>2, <2>1, <2>2 DEF IInv, Upgrades, Upgraded
<1> QED
  BY <1>4, <1>5, <1>6, <1>7 DEF IInv

\* Credentials attached: promoted, promotion owed, or missed.
LEMMA PutIInv == ASSUME TypeOK, IInv, NEW r \in Req, Put(r) PROVE IInv'
<1>a. PICK a : a = req[r].sub
  OBVIOUS
<1>0. /\ req[r].step = "put" /\ req[r] # Idle /\ a \in Auth /\ Live(a)
      /\ UNCHANGED <<now, born, tokens, users, serial, reaper>>
  BY <1>a, Typed DEF Put, Idle
<1>1. /\ \A b \in Auth \ {a} : status'[b] = status[b]
      /\ status'[a] \in {"pending", "registered"}
      /\ status[a] = "registered" => status'[a] = "registered"
  BY <1>a, <1>0 DEF Put, TypeOK, Live
<1>2. /\ \A s \in Req \ {r} : req'[s] = req[s]
      /\ \/ /\ req'[r].step = "promote" /\ req'[r].sub = a /\ req'[r].anon = req[r].anon
            /\ req'[r].start = req[r].start /\ req'[r].row = req[r].row
            /\ missed' = missed
         \/ /\ req'[r] = Idle
            /\ missed' = IF Promoted(a) THEN missed ELSE missed \cup {a}
  <2>1. CASE req' = [req EXCEPT ![r].step = "promote"] /\ missed' = missed
    <3>1. req'[r] = [req[r] EXCEPT !.step = "promote"] /\ \A s \in Req \ {r} : req'[s] = req[s]
      BY <2>1 DEF TypeOK
    <3>2. req[r] \in Request
      BY <1>0, Typed
    <3>3. /\ req'[r].step = "promote" /\ req'[r].sub = a /\ req'[r].anon = req[r].anon
          /\ req'[r].start = req[r].start /\ req'[r].row = req[r].row
      BY <1>a, <3>1, <3>2 DEF Request
    <3> QED
      BY <2>1, <3>1, <3>3
  <2>2. CASE /\ req' = [req EXCEPT ![r] = Idle]
             /\ missed' = IF Promoted(a) THEN missed ELSE missed \cup {a}
    BY <2>2 DEF TypeOK
  <2> QED
    BY <1>a, <2>1, <2>2 DEF Put
<1>3. req[r].sub = a /\ missed \subseteq missed' /\ \A b \in missed' \ missed : b = a
  BY <1>a, <1>2
<1>4. \A b \in Auth : /\ Gone(b) => b # a /\ Gone(b)'
                      /\ Promoted(b)' <=> Promoted(b)
                      /\ Old(b) => Old(b)'
  BY <1>0, <1>1, <1>2, <1>3 DEF Gone, HasRow, Promoted, Old
<1>5. InTime' /\ OwnRow'
  BY <1>0, <1>2, <1>3 DEF IInv, InTime, OwnRow, Idle
<1>6. Absent'
  BY <1>1, <1>3, <1>4 DEF IInv, Absent
<1>7. Closed'
  BY <1>1, <1>3, <1>4 DEF IInv, Closed
<1>8. Pass'
  BY <1>0, <1>1, <1>3, <1>4, Typed DEF IInv, Pass, Upgraded
<1>9. Handed'
  BY <1>0, <1>1, <1>3, <1>4, Typed DEF IInv, Handed
<1>10. Started'
  BY <1>0, <1>1, <1>2, <1>3, <1>4, Typed DEF IInv, Started, Upgraded, Idle
<1>11. Upgrades'
  <2>1. \A b \in Auth : Promoting(b) => Promoting(b)'
    BY <1>0, <1>2, <1>3 DEF Promoting
  <2>2. Promoting(a)' \/ Promoted(a) \/ a \in missed'
    BY <1>2, <1>3 DEF Promoting
  <2> QED
    BY <1>1, <1>3, <1>4, <2>1, <2>2 DEF IInv, Upgrades, Upgraded
<1> QED
  BY <1>5, <1>6, <1>7, <1>8, <1>9, <1>10, <1>11 DEF IInv

\* After its attempt to promote a request leaves its identity promoted or missed.
LEMMA PromoteIInv == ASSUME TypeOK, IInv, NEW r \in Req, Promote(r) PROVE IInv'
<1>a. PICK a : a = req[r].sub
  OBVIOUS
<1>0. /\ req[r].step = "promote" /\ req[r] # Idle /\ req[r] \in Request /\ a \in Auth
      /\ UNCHANGED <<now, status, born, tokens, serial, reaper>>
  BY <1>a, Typed DEF Promote, Idle
<1>1. \A s \in Req \ {r} : req'[s] = req[s]
  BY DEF Promote, TypeOK
<1>2. /\ req'[r].step = "refresh" /\ req'[r].sub = a /\ req'[r].anon = req[r].anon
      /\ req'[r].start = req[r].start /\ req'[r].row = req[r].row
  <2>1. req'[r] = [req[r] EXCEPT !.step = "refresh"]
    BY DEF Promote, TypeOK
  <2> QED
    BY <1>a, <1>0, <2>1 DEF Request
<1>3. missed' = IF Promoted(a)' THEN missed ELSE missed \cup {a}
  BY <1>a DEF Promote, Promoted
<1>4. /\ \A b \in Auth : HasRow(b)' <=> HasRow(b)
      /\ \A b \in Auth : Promoted(b) => Promoted(b)'
      /\ \A b \in Auth : Promoted(b)' => Promoted(b) \/ b = a
      /\ \A u \in users' : \E v \in users :
            u.auth = v.auth /\ u.id = v.id /\ u.born = v.born
  <2>1. CASE users' = users
    BY <2>1 DEF HasRow, Promoted
  <2>2. CASE users' = Flipped(req[r].row)
    BY <1>a, <1>0, <2>2, FlipOwn
  <2> QED
    BY <2>1, <2>2 DEF Promote
<1>5. req[r].sub = a /\ missed \subseteq missed' /\ \A b \in missed' \ missed : b = a
  BY <1>a, <1>3
<1>6. \A b \in Auth : Gone(b) => b # a /\ Gone(b)'
  BY <1>0, <1>1, <1>2, <1>4, <1>5 DEF Gone, Idle
<1>7. InTime' /\ OwnRow'
  BY <1>0, <1>1, <1>2, <1>4, <1>5 DEF IInv, InTime, OwnRow
<1>8. a \notin missed => Upgraded(a)
  BY <1>0, <1>5 DEF IInv, Started
<1>9. Absent' /\ Closed'
  BY <1>0, <1>5, <1>6, <1>8 DEF IInv, Absent, Closed, Upgraded
<1>10. Pass'
  BY <1>0, <1>5, <1>6, Typed DEF IInv, Pass, Upgraded, Old
<1>11. Handed'
  BY <1>0, <1>4, <1>5, Typed DEF IInv, Handed
<1>12. Started'
  BY <1>0, <1>1, <1>2, <1>3, <1>4, <1>5, Typed DEF IInv, Started, Upgraded
<1>13. Upgrades'
  <2>1. \A b \in Auth \ {a} : Promoting(b) => Promoting(b)'
    BY <1>0, <1>1, <1>5 DEF Promoting
  <2> QED
    BY <1>0, <1>3, <1>4, <1>5, <1>8, <2>1 DEF IInv, Upgrades, Upgraded
<1> QED
  BY <1>7, <1>9, <1>10, <1>11, <1>12, <1>13 DEF IInv

\* By then whoever was not missed is promoted: the new token may last.
LEMMA RefreshIInv == ASSUME TypeOK, IInv, NEW r \in Req, Refresh(r) PROVE IInv'
<1>a. PICK a : a = req[r].sub
  OBVIOUS
<1>0. /\ req[r].step = "refresh" /\ req[r] # Idle /\ a \in Auth
      /\ UNCHANGED <<now, status, born, users, serial, reaper, missed>>
  BY <1>a, Typed DEF Refresh, Idle
<1>1. req'[r] = Idle /\ \A s \in Req \ {r} : req'[s] = req[s]
  BY DEF Refresh, TypeOK
<1>2. PICK t : t = TokenFor(a)
  OBVIOUS
<1>3. tokens' = tokens \cup {t} /\ t.sub = a /\ t.exp = now + TokenLife
  BY <1>a, <1>2 DEF Refresh, TokenFor
<1>4. a \notin missed => Promoted(a) /\ Upgraded(a)
  BY <1>a, <1>0 DEF IInv, Started
<1>5. ~t.anon => status[a] \notin {"anonymous", "pending"}
  BY <1>2 DEF TokenFor, Anonymous
<1>6. \A b \in Auth : Gone(b) => b # a /\ Gone(b)'
  BY <1>a, <1>0, <1>1, <1>3 DEF Gone, HasRow
<1>7. InTime' /\ OwnRow'
  BY <1>0, <1>1, <1>3, Typed, TimingFacts DEF IInv, InTime, OwnRow
<1>8. Absent' /\ Closed' /\ Pass'
  BY <1>0, <1>6, Typed DEF IInv, Absent, Closed, Pass, Upgraded, Old
<1>9. Handed'
  BY <1>0, <1>3, <1>4, <1>5 DEF IInv, Handed, Promoted, Upgraded
<1>10. Started'
  BY <1>0, <1>1 DEF IInv, Started, Promoted, Upgraded
<1>11. Upgrades'
  BY <1>0, <1>1 DEF IInv, Upgrades, Promoted, Upgraded, Promoting
<1> QED
  BY <1>7, <1>8, <1>9, <1>10, <1>11 DEF IInv

LEMMA RequestIInv ==
    ASSUME TypeOK, IInv, NEW r \in Req,
           (\E t \in tokens : Authenticate(r, t)) \/ RequestStep(r)
    PROVE  IInv'
<1>1. CASE Fail(r)
  BY <1>1, EndedIInv DEF Fail
<1> QED
  BY <1>1, AuthenticateIInv, LoadIInv, ProvisionIInv, HealIInv, PutIInv, PromoteIInv,
     RefreshIInv DEF RequestStep

\* The reaper.  What it reaps is past its TTL, so that nobody is left to act for it.
LEMMA ReaperIInv ==
    ASSUME TypeOK, IInv, ShortSessions, ReaperStep \/ Crash
    PROVE  IInv'
<1>1. CASE ReapRows
  <2>0. /\ UNCHANGED <<now, status, born, tokens, serial, req, missed>>
        /\ users' = users \ Expired(now - TTL)
    BY <1>1 DEF ReapRows
  <2>1. \A a \in Auth : /\ Promoted(a)' <=> Promoted(a)
                        /\ Gone(a) => Gone(a)'
                        /\ Promoting(a)' <=> Promoting(a)
    BY <2>0 DEF Promoted, Gone, HasRow, Expired, Promoting
  <2>2. InTime' /\ OwnRow'
    BY <2>0 DEF IInv, InTime, OwnRow
  <2>3. Absent' /\ Closed'
    BY <2>0, <2>1 DEF IInv, Absent, Closed
  <2>4. Upgrades' /\ Handed' /\ Started'
    BY <2>0, <2>1, Typed DEF IInv, Upgrades, Handed, Started, Upgraded
  <2>5. \A u \in Expired(now - TTL) :
          /\ u.auth \in Auth /\ Old(u.auth) /\ ~Promoted(u.auth)
          /\ \A v \in users' : v.auth # u.auth
    <3> SUFFICES ASSUME NEW u \in users, u.anon, u.born < now - TTL
                 PROVE  /\ u.auth \in Auth /\ Old(u.auth) /\ ~Promoted(u.auth)
                        /\ \A v \in users \ Expired(now - TTL) : v.auth # u.auth
      BY <2>0 DEF Expired
    <3>1. u.auth \in Auth /\ \A v \in users : v.auth = u.auth => v = u
      BY Typed
    <3>2. born[u.auth] <= u.born
      BY DEF IInv, InTime
    <3>3. status[u.auth] # "unminted"
      BY <3>1 DEF IInv, Absent, Gone, HasRow
    <3>4. Old(u.auth)
      BY <3>1, <3>2, <3>3, Typed, TimingFacts DEF Old
    <3> QED
      BY <3>1, <3>4 DEF Promoted, Expired
  <2>6. Pass'
    <3>1. CASE reaper' = reaper
      BY <2>0, <2>1, <3>1, Typed DEF IInv, Pass, Old, Upgraded
    <3>2. CASE /\ reaper'.cutoff = now - TTL
               /\ reaper'.todo = {u.auth : u \in Expired(now - TTL)}
      <4>1. now - TTL + TTL <= now
        BY Typed, TimingFacts
      <4>2. \A a \in reaper'.todo \ missed : ~Upgraded(a) /\ Gone(a)'
        BY <2>0, <2>5, <3>2, NobodyLeft DEF Gone, HasRow
      <4>3. \A a \in reaper'.todo : Old(a)
        BY <2>5, <3>2
      <4> QED
        BY <2>0, <3>2, <4>1, <4>2, <4>3 DEF Pass, Old, Upgraded
    <3> QED
      BY <1>1, <3>1, <3>2 DEF ReapRows
  <2> QED
    BY <2>2, <2>3, <2>4, <2>6 DEF IInv
<1>2. CASE List \/ Check \/ GiveUp
  <2>0. UNCHANGED <<now, status, born, tokens, users, serial, req, missed>>
    BY <1>2 DEF List, Check, GiveUp
  <2>1. InTime' /\ OwnRow' /\ Absent' /\ Closed' /\ Upgrades' /\ Handed' /\ Started'
    BY <2>0 DEF IInv, InTime, OwnRow, Absent, Closed, Upgrades, Handed, Started,
                Gone, HasRow, Promoted, Promoting, Upgraded
  <2>2. ASSUME reaper' = Resting PROVE Pass'
    BY <2>2 DEF Pass, Resting
  <2>3. ASSUME List, reaper' # Resting PROVE Pass'
    <3>1. /\ reaper.step = "list" /\ reaper'.step = "check" /\ reaper'.cutoff = reaper.cutoff
          /\ reaper'.todo = {a \in Auth : Anonymous(a) /\ born[a] < reaper.cutoff}
      BY <2>3 DEF List, TypeOK, Reaper
    <3>2. \A a \in reaper'.todo : Old(a)
      BY <3>1, Typed, TimingFacts DEF IInv, Pass, Old, Anonymous
    <3> QED
      BY <2>0, <3>1, <3>2 DEF IInv, Pass, Old
  <2>4. ASSUME Check, reaper' # Resting PROVE Pass'
    <3>1. /\ reaper.step = "check" /\ reaper'.step = "orphans" /\ reaper'.cutoff = reaper.cutoff
          /\ reaper'.todo = {a \in reaper.todo : ~HasRow(a)}
      BY <2>4 DEF Check, TypeOK, Reaper
    <3>2. \A a \in reaper'.todo : a \in Auth /\ Old(a) /\ ~HasRow(a) /\ ~Promoted(a)
      BY <3>1, Typed DEF IInv, Pass, HasRow, Promoted
    <3>3. \A a \in reaper'.todo \ missed : ~Upgraded(a) /\ Gone(a)
      BY <3>2, NobodyLeft DEF Gone
    <3> QED
      BY <2>0, <3>1, <3>2, <3>3 DEF IInv, Pass, Old, Upgraded, Gone, HasRow
  <2> QED
    BY <1>2, <2>1, <2>2, <2>3, <2>4 DEF IInv, GiveUp
<1>3. ASSUME NEW a \in Auth, DeleteTwin(a) \/ SkipTwin(a) \/ DeleteOrphan(a) \/ SkipOrphan(a)
      PROVE  IInv'
  <2>0. /\ UNCHANGED <<now, born, tokens, users, serial, req, missed>>
        /\ reaper.step \in {"twins", "orphans"} /\ a \in reaper.todo
        /\ status' = status \/ status' = [status EXCEPT ![a] = "deleted"]
    BY <1>3 DEF DeleteTwin, SkipTwin, DeleteOrphan, SkipOrphan, Delete
  <2>1. a \notin missed => ~Upgraded(a) /\ Gone(a)
    BY <2>0 DEF IInv, Pass
  <2>2. /\ \A b \in Auth \ {a} : status'[b] = status[b]
        /\ status'[a] = status[a] \/ status'[a] = "deleted"
        /\ status[a] # "unminted"
    BY <2>0 DEF TypeOK, IInv, Pass, Old
  <2>3. \A b \in Auth : /\ Promoted(b)' <=> Promoted(b)
                        /\ Gone(b)' <=> Gone(b)
                        /\ Promoting(b)' <=> Promoting(b)
                        /\ Old(b) => Old(b)'
    BY <2>0, <2>2 DEF Promoted, Gone, HasRow, Promoting, Old
  <2>4. InTime' /\ OwnRow'
    BY <2>0 DEF IInv, InTime, OwnRow
  <2>5. Absent' /\ Closed'
    BY <2>0, <2>1, <2>2, <2>3 DEF IInv, Absent, Closed
  <2>6. Upgrades'
    BY <2>0, <2>1, <2>2, <2>3 DEF IInv, Upgrades, Upgraded, Gone, HasRow, Promoted
  <2>7. Handed'
    BY <2>0, <2>1, <2>2, <2>3, Typed DEF IInv, Handed, Gone
  <2>8. Started'
    BY <2>0, <2>1, <2>2, <2>3, Typed DEF IInv, Started, Upgraded, Gone
  <2>9. Pass'
    <3>1. \/ reaper' = Resting
          \/ /\ reaper'.cutoff = reaper.cutoff /\ reaper'.todo = reaper.todo \ {a}
             /\ reaper'.step \in {"twins", "orphans"} \/ reaper'.todo = {}
      <4>1. CASE TwinDone(a)
        BY <4>1 DEF TwinDone, TypeOK, Reaper
      <4>2. CASE OrphanDone(a) /\ reaper.step = "orphans"
        BY <4>2 DEF OrphanDone, TypeOK, Reaper
      <4> QED
        BY <1>3, <4>1, <4>2 DEF DeleteTwin, SkipTwin, DeleteOrphan, SkipOrphan
    <3>2. CASE reaper' = Resting
      BY <3>2 DEF Pass, Resting
    <3>3. CASE reaper' # Resting
      BY <2>0, <2>2, <2>3, <3>1, <3>3, Typed DEF IInv, Pass, Upgraded
    <3> QED
      BY <3>2, <3>3
  <2> QED
    BY <2>4, <2>5, <2>6, <2>7, <2>8, <2>9 DEF IInv
<1>4. CASE Crash
  <2>0. /\ UNCHANGED <<now, status, born, tokens, users, serial>>
        /\ reaper' = Resting /\ \A r \in Req : req'[r] = Idle
        /\ missed \subseteq missed'
        /\ \A a \in Auth \ missed' : Promoting(a) => Promoted(a)
    BY <1>4 DEF Crash, Promoting
  <2>1. \A a \in Auth : Gone(a) => Gone(a)' /\ a \notin missed' \ missed
    BY <1>4, <2>0 DEF Crash, Gone, HasRow, Idle
  <2>2. InTime' /\ OwnRow' /\ Started'
    BY <2>0 DEF IInv, InTime, OwnRow, Started
  <2>3. Absent' /\ Closed'
    BY <2>0, <2>1 DEF IInv, Absent, Closed
  <2>4. Upgrades'
    BY <2>0 DEF IInv, Upgrades, Upgraded, Promoted
  <2>5. Handed'
    BY <2>0 DEF IInv, Handed, Promoted
  <2>6. Pass'
    BY <2>0 DEF Pass, Resting
  <2> QED
    BY <2>2, <2>3, <2>4, <2>5, <2>6 DEF IInv
<1> QED
  BY <1>1, <1>2, <1>3, <1>4 DEF ReaperStep

LEMMA StepIInv == ASSUME TypeOK, IInv, ShortSessions, [Next]_vars PROVE IInv'
<1>1. CASE UNCHANGED vars
  BY <1>1 DEF vars, IInv, InTime, OwnRow, Absent, Closed, Upgrades, Handed, Started, Pass,
       Gone, HasRow, Upgraded, Promoting, Promoted, Old
<1>2. CASE Next
  BY <1>2, SessionIInv, RequestIInv, ReaperIInv DEF Next
<1> QED
  BY <1>1, <1>2

-----------------------------------------------------------------------------
(* The properties, for every instance whose sessions are short.             *)

LEMMA GuestIInv == ASSUME ShortSessions PROVE Spec => [](TypeOK /\ IInv)
<1>1. Init => TypeOK /\ IInv
  BY InitTypeOK, InitIInv
<1>2. TypeOK /\ IInv /\ [Next]_vars => TypeOK' /\ IInv'
  BY StepTypeOK, StepIInv
<1> QED
  BY <1>1, <1>2, PTL DEF Spec

\* No users row survives its identity, unless its upgrade was missed: neither the two
\* passes of the reaper nor a request that provisions late can leave one behind.
THEOREM GuestRowsLive == ASSUME ShortSessions PROVE Spec => []NoGhostRow
<1>1. TypeOK /\ IInv => NoGhostRow
  <2> SUFFICES ASSUME TypeOK, IInv, NEW u \in users, u.auth \notin missed PROVE Live(u.auth)
    BY DEF NoGhostRow
  <2>1. u.auth \in Auth /\ HasRow(u.auth) /\ status[u.auth] \in Status
    BY Typed DEF HasRow
  <2> QED
    BY <2>1 DEF IInv, Absent, Closed, Gone, Live, Status
<1> QED
  BY <1>1, GuestIInv, PTL

\* The reaper deletes nobody a browser or a request can still act for.
THEOREM GuestSessionsKept == ASSUME ShortSessions PROVE Spec => []SessionNotPulled
<1>1. IInv => SessionNotPulled
  BY DEF IInv, Closed, Gone, SessionNotPulled
<1> QED
  BY <1>1, GuestIInv, PTL

\* What ListExistingAuthIDs said of an orphan is still true when it is deleted.
THEOREM GuestOrphansConfirmed == ASSUME ShortSessions PROVE Spec => []OrphansHaveNoRow
<1>1. IInv => OrphansHaveNoRow
  BY DEF IInv, Pass, Gone, OrphansHaveNoRow
<1> QED
  BY <1>1, GuestIInv, PTL

\* No step deletes an identity with credentials whose upgrade was not missed.
LEMMA StepSurvives ==
    ASSUME TypeOK, IInv, [Next]_vars, NEW a \in Auth, Upgraded(a), a \notin missed
    PROVE  status'[a] # "deleted"
<1>1. CASE UNCHANGED status
  BY <1>1 DEF Upgraded
<1>2. CASE \E b \in Auth : SignIn(b) \/ Confirm(b)
  BY <1>2 DEF SignIn, Confirm, TypeOK, Upgraded
<1>3. CASE \E r \in Req : Put(r)
  BY <1>3 DEF Put, TypeOK, Upgraded
<1>4. CASE \E b \in Auth : DeleteTwin(b) \/ DeleteOrphan(b)
  BY <1>4 DEF DeleteTwin, DeleteOrphan, Delete, TypeOK, Upgraded, IInv, Pass
<1> QED
  BY <1>1, <1>2, <1>3, <1>4 DEF Next, vars, Tick, Login, ClearCookie, Authenticate, RequestStep,
     Load, Provision, Heal, Promote, Refresh, Fail, ReaperStep, ReapRows, List, Check, GiveUp,
     SkipTwin, SkipOrphan, Crash

\* Credentials attached, the account stays: also before its row is promoted, and while
\* a pass that began earlier is running.
THEOREM GuestUpgradeSurvives == ASSUME ShortSessions PROVE Spec => UpgradedSurvives
<1>1. TypeOK /\ IInv /\ [Next]_vars =>
        [\A a \in Auth : (status[a] \in {"pending", "registered"} /\ a \notin missed)
                           => status'[a] # "deleted"]_vars
  BY StepSurvives DEF Upgraded
<1> QED
  BY <1>1, GuestIInv, PTL DEF Spec, UpgradedSurvives

-----------------------------------------------------------------------------
(* The promise of guest mode: every step is one of GuestPromise or none.    *)

\* What a step must leave alone for the phase of a to stay what it was.
LEMMA SamePhase ==
    ASSUME NEW a \in Auth, status'[a] = status[a], a \in missed' <=> a \in missed,
           Promoted(a)' <=> Promoted(a)
    PROVE  Phase(a)' = Phase(a)
BY DEF Phase

LEMMA PromiseStutters ==
    ASSUME UNCHANGED <<now, born>>, \A a \in Auth : Phase(a)' = Phase(a)
    PROVE  UNCHANGED Promise!pvars
BY DEF Promise!pvars

LEMMA PromiseMoves ==
    ASSUME NEW a \in Auth, NEW p, Phase(a)' = p,
           \A b \in Auth \ {a} : Phase(b)' = Phase(b)
    PROVE  [b \in Auth |-> Phase(b)]' = [[b \in Auth |-> Phase(b)] EXCEPT ![a] = p]
OBVIOUS

\* Whoever a request acts for is there, or missed.
LEMMA ActorLives ==
    ASSUME TypeOK, IInv, NEW r \in Req, req[r] # Idle
    PROVE  req[r].sub \notin missed => status[req[r].sub] \notin {"unminted", "deleted"}
BY Typed DEF IInv, Absent, Closed, Gone

\* Cookies, GoTrue's own steps and a request that fails or only reads.
LEMMA SessionPromise ==
    ASSUME TypeOK, IInv,
           \/ Tick
           \/ \E a \in Auth : SignIn(a) \/ Login(a) \/ Confirm(a)
           \/ \E t \in tokens : ClearCookie(t)
    PROVE  [Promise!Next]_(Promise!pvars)
<1>1. CASE Tick
  <2>1. UNCHANGED <<status, missed, users, born>> /\ now' = now + 1
    BY <1>1 DEF Tick
  <2>2. \A a \in Auth : Phase(a)' = Phase(a)
    BY <2>1, SamePhase DEF Promoted
  <2>3. now' > now
    BY <2>1, Typed
  <2> QED
    BY <2>1, <2>2, <2>3 DEF Promise!Next, Promise!Advance
<1>2. ASSUME NEW a \in Auth, SignIn(a) PROVE Promise!Arrive(a)
  <2>1. /\ UNCHANGED <<now, users, missed>> /\ status[a] = "unminted"
        /\ \A b \in Auth \ {a} : status'[b] = status[b]
        /\ status'[a] = "anonymous" /\ born' = [born EXCEPT ![a] = now]
    BY <1>2 DEF SignIn, TypeOK
  <2>2. a \notin missed /\ ~Promoted(a)
    BY <2>1 DEF IInv, Absent, Gone, HasRow, Promoted
  <2>3. Phase(a) = "absent" /\ Phase(a)' = "guest"
    BY <2>1, <2>2 DEF Phase, Promoted
  <2>4. \A b \in Auth \ {a} : Phase(b)' = Phase(b)
    BY <2>1, SamePhase DEF Promoted
  <2> QED
    BY <2>1, <2>3, <2>4, PromiseMoves DEF Promise!Arrive
<1>3. ASSUME NEW a \in Auth, Confirm(a) PROVE UNCHANGED Promise!pvars
  <2>1. /\ UNCHANGED <<now, born, users, missed>> /\ status[a] = "pending"
        /\ \A b \in Auth \ {a} : status'[b] = status[b]
        /\ status'[a] = "registered"
    BY <1>3 DEF Confirm, TypeOK
  <2>2. \A b \in Auth : Phase(b)' = Phase(b)
    BY <2>1 DEF Phase, Promoted
  <2> QED
    BY <2>1, <2>2, PromiseStutters
<1>4. CASE UNCHANGED <<now, status, born, users, missed>>
  <2>1. \A b \in Auth : Phase(b)' = Phase(b)
    BY <1>4, SamePhase DEF Promoted
  <2> QED
    BY <1>4, <2>1, PromiseStutters
<1> QED
  BY <1>1, <1>2, <1>3, <1>4 DEF Login, ClearCookie, Promise!Next

\* A row promoted is an account kept; credentials attached to an account that was not
\* promoted are an account lapsed.
LEMMA RequestPromise ==
    ASSUME TypeOK, IInv, NEW r \in Req,
           (\E t \in tokens : Authenticate(r, t)) \/ RequestStep(r)
    PROVE  [Promise!Next]_(Promise!pvars)
<1>1. CASE UNCHANGED <<now, status, born, users, missed>>
  <2>1. \A b \in Auth : Phase(b)' = Phase(b)
    BY <1>1, SamePhase DEF Promoted
  <2> QED
    BY <1>1, <2>1, PromiseStutters
<1>2. CASE Provision(r) \/ Heal(r) \/ Put(r) \/ Promote(r)
  <2>0. req[r] # Idle
    BY <1>2 DEF Provision, Heal, Put, Promote, Idle
  <2>a. PICK a \in Auth : a = req[r].sub
    BY <2>0, Typed
  <2>1. a \notin missed => status[a] \notin {"unminted", "deleted"}
    BY <2>0, <2>a, ActorLives
  <2>2. UNCHANGED <<now, born>> /\ missed \subseteq missed'
    BY <1>2 DEF Provision, Heal, Put, Promote
  <2>3. \A b \in Auth \ {a} : Phase(b)' = Phase(b)
    <3> SUFFICES ASSUME NEW b \in Auth, b # a PROVE Phase(b)' = Phase(b)
      OBVIOUS
    <3>1. status'[b] = status[b] /\ (b \in missed' <=> b \in missed)
      BY <1>2, <2>a DEF Provision, Heal, Put, Promote, TypeOK
    <3>2. Promoted(b)' <=> Promoted(b)
      <4>1. CASE users' = users
        BY <4>1 DEF Promoted
      <4>2. CASE Provision(r)
        <5>1. PICK w : w = [id |-> serial + 1, auth |-> a, anon |-> req[r].anon, born |-> now]
          OBVIOUS
        <5>2. users' = users \cup {w} /\ w.auth = a
          BY <2>a, <4>2, <5>1 DEF Provision
        <5> QED
          BY <5>2 DEF Promoted
      <4>3. CASE users' = Flipped(req[r].row) /\ req[r].step \in {"heal", "promote"}
        BY <2>a, <4>3, FlipOwn
      <4> QED
        BY <1>2, <4>1, <4>2, <4>3 DEF Heal, Put, Promote
    <3> QED
      BY <3>1, <3>2, SamePhase
  <2>4. \/ Phase(a)' = Phase(a)
        \/ Phase(a) = "guest" /\ Phase(a)' \in {"kept", "lapsed"}
    <3>1. Promoted(a) => Promoted(a)'
      <4>1. CASE users \subseteq users'
        BY <4>1 DEF Promoted
      <4>2. CASE users' = Flipped(req[r].row) /\ req[r].step \in {"heal", "promote"}
        BY <4>2, FlipOwn
      <4> QED
        BY <1>2, <4>1, <4>2 DEF Provision, Heal, Put, Promote
    <3>2. status'[a] = status[a] \/ (status[a] # "unminted" /\ status'[a] \in {"pending", "registered"})
      BY <1>2, <2>a DEF Provision, Heal, Put, Promote, TypeOK, Live
    <3>3. Promoted(a) /\ a \in missed' => a \in missed
      BY <1>2, <2>a, <3>1 DEF Provision, Heal, Put, Promote, Promoted
    <3> QED
      BY <2>1, <2>2, <3>1, <3>2, <3>3 DEF Phase
  <2>5. CASE Phase(a)' = Phase(a)
    BY <2>2, <2>3, <2>5, PromiseStutters
  <2>6. CASE Phase(a) = "guest" /\ Phase(a)' = "kept"
    <3>1. Promise!Keep(a)
      BY <2>2, <2>3, <2>6, PromiseMoves DEF Promise!Keep
    <3> QED
      BY <3>1 DEF Promise!Next
  <2>7. CASE Phase(a) = "guest" /\ Phase(a)' = "lapsed"
    <3>1. Promise!Lapse({a})
      BY <2>2, <2>3, <2>7 DEF Promise!Lapse
    <3> QED
      BY <3>1 DEF Promise!Next
  <2> QED
    BY <2>4, <2>5, <2>6, <2>7
<1> QED
  BY <1>1, <1>2 DEF RequestStep, Authenticate, Load, Refresh, Fail

\* The reaper takes guests past their TTL; a crash loses the upgrades under way.
LEMMA ReaperPromise ==
    ASSUME TypeOK, IInv, ReaperStep \/ Crash
    PROVE  [Promise!Next]_(Promise!pvars)
<1>1. CASE UNCHANGED <<now, status, born, users, missed>>
  <2>1. \A b \in Auth : Phase(b)' = Phase(b)
    BY <1>1, SamePhase DEF Promoted
  <2> QED
    BY <1>1, <2>1, PromiseStutters
<1>2. CASE ReapRows
  <2>1. UNCHANGED <<now, status, born, missed>> /\ users' = users \ Expired(now - TTL)
    BY <1>2 DEF ReapRows
  <2>2. \A b \in Auth : Phase(b)' = Phase(b)
    BY <2>1, SamePhase DEF Promoted, Expired
  <2> QED
    BY <2>1, <2>2, PromiseStutters
<1>3. ASSUME NEW a \in Auth, DeleteTwin(a) \/ DeleteOrphan(a)
      PROVE  [Promise!Next]_(Promise!pvars)
  <2>1. /\ UNCHANGED <<now, born, users, missed>>
        /\ reaper.step \in {"twins", "orphans"} /\ a \in reaper.todo
        /\ \A b \in Auth \ {a} : status'[b] = status[b]
        /\ status'[a] = "deleted"
    BY <1>3 DEF DeleteTwin, DeleteOrphan, Delete, TypeOK
  <2>2. Old(a) /\ (a \notin missed => ~Promoted(a))
    BY <2>1 DEF IInv, Pass, Gone, HasRow, Promoted
  <2>3. \A b \in Auth \ {a} : Phase(b)' = Phase(b)
    BY <2>1, SamePhase DEF Promoted
  <2>4. \/ Phase(a)' = Phase(a)
        \/ Phase(a) = "guest" /\ Phase(a)' = "gone"
    BY <2>1, <2>2 DEF Phase, Promoted, Old
  <2>5. CASE Phase(a)' = Phase(a)
    BY <2>1, <2>3, <2>5, PromiseStutters
  <2>6. CASE Phase(a) = "guest" /\ Phase(a)' = "gone"
    <3>1. now > born[a] + TTL
      BY <2>2, Typed, TimingFacts DEF Old
    <3>2. Promise!Expire(a)
      BY <2>1, <2>3, <2>6, <3>1, PromiseMoves DEF Promise!Expire
    <3> QED
      BY <3>2 DEF Promise!Next
  <2> QED
    BY <2>4, <2>5, <2>6
<1>4. CASE Crash
  <2> DEFINE S == missed' \ missed
  <2>0. UNCHANGED <<now, status, born, users>> /\ missed \subseteq missed' /\ S \in SUBSET Auth
    BY <1>4 DEF Crash, TypeOK
  <2>1. ASSUME NEW a \in S PROVE Phase(a) = "guest" /\ Phase(a)' = "lapsed"
    <3>1. PICK r \in Req : req[r].step = "promote" /\ req[r].sub = a
      BY <1>4 DEF Crash
    <3>2. req[r] # Idle
      BY <3>1 DEF Idle
    <3>3. status[a] \notin {"unminted", "deleted"}
      BY <3>1, <3>2, ActorLives
    <3>4. ~Promoted(a)
      BY <1>4 DEF Crash
    <3> QED
      BY <3>3, <3>4 DEF Phase
  <2>2. ASSUME NEW a \in Auth \ S PROVE Phase(a)' = Phase(a)
    BY <2>0, SamePhase DEF Promoted
  <2> HIDE DEF S
  <2>3. Promise!Lapse(S)
    BY <2>0, <2>1, <2>2 DEF Promise!Lapse
  <2> QED
    BY <2>0, <2>3 DEF Promise!Next
<1> QED
  BY <1>1, <1>2, <1>3, <1>4 DEF ReaperStep, List, Check, GiveUp, SkipTwin, SkipOrphan

\* GuestSession, resolveUser, UpgradeSubmit and the reaper keep the promise of guest
\* mode: a guest disappears only past its TTL, and an account kept stays for good.
THEOREM GuestPromiseKept == ASSUME ShortSessions PROVE Spec => PromiseKept
<1>1. Init => Promise!Init
  BY DEF Init, Promise!Init, Phase
<1>2. TypeOK /\ IInv /\ [Next]_vars => [Promise!Next]_(Promise!pvars)
  <2> SUFFICES ASSUME TypeOK, IInv, [Next]_vars PROVE [Promise!Next]_(Promise!pvars)
    OBVIOUS
  <2>1. CASE UNCHANGED vars
    <3>1. UNCHANGED <<now, status, born, users, missed>>
      BY <2>1 DEF vars
    <3>2. \A b \in Auth : Phase(b)' = Phase(b)
      BY <3>1, SamePhase DEF Promoted
    <3> QED
      BY <3>1, <3>2, PromiseStutters
  <2>2. CASE Next
    BY <2>2, SessionPromise, RequestPromise, ReaperPromise DEF Next
  <2> QED
    BY <2>1, <2>2
<1> QED
  BY <1>1, <1>2, GuestIInv, PTL DEF Spec, PromiseKept, Promise!Spec

=============================================================================
