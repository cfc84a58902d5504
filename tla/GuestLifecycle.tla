--------------------------- MODULE GuestLifecycle ---------------------------
(***************************************************************************)
(* The life of a guest account: an anonymous GoTrue identity, the users    *)
(* row provisioned for it on the first authenticated request, its upgrade  *)
(* to a registered account, and the TTL reaper that removes the guests who *)
(* never upgrade.                                                          *)
(*                                                                         *)
(* Three parties share this state and none of them holds a lock: the       *)
(* request chains (GuestSession, validateSession, resolveUser and          *)
(* UpgradeSubmit), the reaper goroutine, and GoTrue, a separate service.   *)
(* Every call to GoTrue or to Postgres is a step of its own; what a caller *)
(* read before the call may be stale after it.                             *)
(*                                                                         *)
(* Time is a counter of coarse ticks.  TTL is GUEST_TTL, TokenLife the     *)
(* lifetime GoTrue gives an access token (expires_in), and ReqMax bounds   *)
(* the time a request can stay in flight (the 30s Timeout middleware).     *)
(***************************************************************************)
EXTENDS Integers, FiniteSets

CONSTANTS
    Auth,        \* the GoTrue identities that can be minted
    Req,         \* the slots for requests in flight
    TTL,         \* age past which an unupgraded guest is reaped
    TokenLife,   \* lifetime of an access token
    ReqMax,      \* longest time a request is in flight
    ServiceKey,  \* is SUPABASE_SERVICE_ROLE_KEY configured?
    LastMint,    \* bound: no guest signs in after this time
    MaxTime,     \* bound: the clock stops here
    MaxRows      \* bound: users rows ever inserted

ASSUME TimingAssumption ==
    /\ TTL \in Nat /\ TokenLife \in Nat /\ ReqMax \in Nat
    /\ LastMint \in Nat /\ MaxTime \in Nat /\ MaxRows \in Nat
    /\ ServiceKey \in BOOLEAN

VARIABLES
    now,      \* the clock
    status,   \* status[a]: what GoTrue holds for identity a
    born,     \* born[a]: when GoTrue created a
    tokens,   \* access tokens in some browser's cookie jar
    users,    \* the rows of the users table
    serial,   \* users rows inserted so far; the next row's id
    req,      \* req[r]: the request in slot r, or Idle
    reaper,   \* the reaper goroutine: step, cutoff, identities left to do
    missed    \* history: upgrades whose row promotion was missed

vars == <<now, status, born, tokens, users, serial, req, reaper, missed>>

-----------------------------------------------------------------------------
(* What the state is made of.                                              *)

Time == Nat

\* "pending" is an identity with credentials attached and its email not yet
\* confirmed (UpgradeResult.ConfirmationSent): GoTrue still calls it anonymous.
Status == {"unminted", "anonymous", "pending", "registered", "deleted"}

Token == [sub : Auth, anon : BOOLEAN, exp : Time]

User == [id : Nat, auth : Auth, anon : BOOLEAN, born : Time]

Idle == [step |-> "idle"]

\* claims: sub and anon.  row and guest: the id and the is_anonymous flag of the
\* row the loader put in the context.  upgrade: the route is POST /upgrade.
Request == [step : {"load", "provision", "heal", "put", "promote", "refresh"},
            sub : Auth, anon : BOOLEAN, upgrade : BOOLEAN,
            row : Nat, start : Time]

\* cutoff and todo are locals of a pass: they mean nothing between passes.
Resting == [step |-> "idle", cutoff |-> 0, todo |-> {}]

Reaper == [step : {"idle", "twins", "list", "check", "orphans"},
           cutoff : Int, todo : SUBSET Auth]

TypeOK ==
    /\ now \in Time
    /\ status \in [Auth -> Status]
    /\ born \in [Auth -> Time]
    /\ tokens \in SUBSET Token
    /\ users \in SUBSET User
    /\ serial \in Nat
    /\ req \in [Req -> Request \cup {Idle}]
    /\ reaper \in Reaper
    /\ missed \in SUBSET Auth
    /\ \A u, v \in users : u.auth = v.auth \/ u.id = v.id => u = v
    /\ \A u \in users : u.id \in 1..serial /\ u.born <= now

Live(a) == status[a] \in {"anonymous", "pending", "registered"}

\* The is_anonymous flag GoTrue lists and puts in the tokens it issues.
Anonymous(a) == status[a] \in {"anonymous", "pending"}

HasRow(a) == \E u \in users : u.auth = a

Promoted(a) == \E u \in users : u.auth = a /\ ~u.anon

\* SetUserIsAnonymous(id, false): an UPDATE that may match no row.
Flipped(id) == {IF u.id = id THEN [u EXCEPT !.anon = FALSE] ELSE u : u \in users}

TokenFor(a) == [sub |-> a, anon |-> Anonymous(a), exp |-> now + TokenLife]

Init ==
    /\ now = 0
    /\ status = [a \in Auth |-> "unminted"]
    /\ born = [a \in Auth |-> 0]
    /\ tokens = {}
    /\ users = {}
    /\ serial = 0
    /\ req = [r \in Req |-> Idle]
    /\ reaper = Resting
    /\ missed = {}

-----------------------------------------------------------------------------
(* Sessions: GoTrue and the browsers' cookies.                             *)

\* GuestSession: a cookie-less visitor gets an anonymous identity.  The answer
\* can be lost after GoTrue created it, which leaves an identity nobody holds.
SignIn(a) ==
    /\ status[a] = "unminted"
    /\ now <= LastMint
    /\ status' = [status EXCEPT ![a] = "anonymous"]
    /\ born' = [born EXCEPT ![a] = now]
    /\ \/ tokens' = tokens \cup {[sub |-> a, anon |-> TRUE, exp |-> now + TokenLife]}
       \/ UNCHANGED tokens
    /\ UNCHANGED <<now, users, serial, req, reaper, missed>>

\* Password sign-in, or a recovery link: a registered identity gets a session.
Login(a) ==
    /\ status[a] = "registered"
    /\ tokens' = tokens \cup {TokenFor(a)}
    /\ UNCHANGED <<now, status, born, users, serial, req, reaper, missed>>

\* The owner follows the confirmation link.
Confirm(a) ==
    /\ status[a] = "pending"
    /\ status' = [status EXCEPT ![a] = "registered"]
    /\ UNCHANGED <<now, born, tokens, users, serial, req, reaper, missed>>

\* A session cookie is cleared: logout, or validateSession after any error of
\* GetUser, an outage of GoTrue included.
ClearCookie(t) ==
    /\ tokens' = tokens \ {t}
    /\ UNCHANGED <<now, status, born, users, serial, req, reaper, missed>>

\* The clock advances and browsers drop the cookies whose MaxAge is over.  A
\* request past its deadline has had its context cancelled: it ends first.
Tick ==
    /\ now < MaxTime
    /\ \A r \in Req : req[r] # Idle => now < req[r].start + ReqMax
    /\ now' = now + 1
    /\ tokens' = {t \in tokens : now < t.exp}
    /\ UNCHANGED <<status, born, users, serial, req, reaper, missed>>

-----------------------------------------------------------------------------
(* A request: validateSession, resolveUser, then UpgradeSubmit.            *)

\* validateSession: GoTrue vouches for the token, its claims go in the context.
Authenticate(r, t) ==
    /\ req[r] = Idle
    /\ Live(t.sub)
    /\ \E upgrade \in BOOLEAN :
        req' = [req EXCEPT ![r] =
                  [step |-> "load", sub |-> t.sub, anon |-> t.anon,
                   upgrade |-> upgrade, row |-> 0, start |-> now]]
    /\ UNCHANGED <<now, status, born, tokens, users, serial, reaper, missed>>

\* The loader put a row in the context: UpgradeSubmit goes on to GoTrue when the
\* row is a guest's, and every other route is done with the account.
Loaded(r, id, guest) ==
    req' = [req EXCEPT ![r] =
              IF req[r].upgrade /\ guest THEN [@ EXCEPT !.step = "put", !.row = id]
              ELSE Idle]

\* GetByAuthID: not found, found stale, or found.
Load(r) ==
    /\ req[r].step = "load"
    /\ \/ /\ ~HasRow(req[r].sub)
          /\ req' = [req EXCEPT ![r].step = "provision"]
       \/ \E u \in users :
            /\ u.auth = req[r].sub
            /\ IF u.anon /\ ~req[r].anon
                 THEN req' = [req EXCEPT ![r].step = "heal", ![r].row = u.id]
                 ELSE Loaded(r, u.id, u.anon)
    /\ UNCHANGED <<now, status, born, tokens, users, serial, reaper, missed>>

\* Mutant: users.auth_id has lost its UNIQUE constraint.
ProvisionWithoutUnique(r) ==
    /\ req[r].step = "provision"
    /\ serial < MaxRows
    /\ serial' = serial + 1
    /\ users' = users \cup {[id |-> serial + 1, auth |-> req[r].sub,
                              anon |-> req[r].anon, born |-> now]}
    /\ Loaded(r, serial + 1, req[r].anon)
    /\ UNCHANGED <<now, status, born, tokens, reaper, missed>>

\* provisionUser: INSERT under UNIQUE(auth_id).  The flag mirrors the claim.
\* The commit may be applied and its answer lost: then the request ends in a 500.
Provision(r) ==
    /\ req[r].step = "provision"
    /\ ~HasRow(req[r].sub)
    /\ serial < MaxRows
    /\ serial' = serial + 1
    /\ users' = users \cup {[id |-> serial + 1, auth |-> req[r].sub,
                              anon |-> req[r].anon, born |-> now]}
    /\ \/ Loaded(r, serial + 1, req[r].anon)
       \/ req' = [req EXCEPT ![r] = Idle]
    /\ UNCHANGED <<now, status, born, tokens, reaper, missed>>

\* resolveUser's heal of a stale flag.  The context then holds a registered user,
\* for whom UpgradeSubmit has nothing left to do.
Heal(r) ==
    /\ req[r].step = "heal"
    /\ users' = Flipped(req[r].row)
    /\ req' = [req EXCEPT ![r] = Idle]
    /\ UNCHANGED <<now, status, born, tokens, serial, reaper, missed>>

\* UpgradeAnonymousUser: PUT /auth/v1/user attaches the credentials; GoTrue
\* confirms the email at once or waits for it.  A lost answer is a failed upgrade
\* to the handler, which stops before the promotion.
Put(r) ==
    LET a == req[r].sub IN
    /\ req[r].step = "put"
    /\ Live(a)
    /\ \/ status' = [status EXCEPT ![a] = IF @ = "anonymous" THEN "pending" ELSE @]
       \/ status' = [status EXCEPT ![a] = "registered"]
    /\ \/ /\ req' = [req EXCEPT ![r].step = "promote"]
          /\ UNCHANGED missed
       \/ /\ req' = [req EXCEPT ![r] = Idle]
          /\ missed' = IF Promoted(a) THEN missed ELSE missed \cup {a}
    /\ UNCHANGED <<now, born, tokens, users, serial, reaper>>

\* SetAnonymous(user.ID, false), best effort: an error is logged and the handler
\* goes on, and so it does when the row is gone.  The email update that follows
\* touches no column modelled here.
Promote(r) ==
    /\ req[r].step = "promote"
    /\ users' \in {Flipped(req[r].row), users}
    /\ missed' = IF \E u \in users' : u.auth = req[r].sub /\ ~u.anon
                   THEN missed ELSE missed \cup {req[r].sub}
    /\ req' = [req EXCEPT ![r].step = "refresh"]
    /\ UNCHANGED <<now, status, born, tokens, serial, reaper>>

\* RefreshSession: the browser gets a token with today's claims.
Refresh(r) ==
    /\ req[r].step = "refresh"
    /\ Live(req[r].sub)
    /\ tokens' = tokens \cup {TokenFor(req[r].sub)}
    /\ req' = [req EXCEPT ![r] = Idle]
    /\ UNCHANGED <<now, status, born, users, serial, reaper, missed>>

\* A call that returned an error, a duplicate insert or a context past its
\* deadline ends the request; a failed promotion does not (see Promote).
Fail(r) ==
    /\ req[r].step \in {"load", "provision", "heal", "put", "refresh"}
    /\ req' = [req EXCEPT ![r] = Idle]
    /\ UNCHANGED <<now, status, born, tokens, users, serial, reaper, missed>>

-----------------------------------------------------------------------------
(* The reaper: RunOnce, then reapAuthOrphans.                              *)

\* Mutant: the DELETE forgets is_anonymous.
ExpiredAnyUser(cutoff) == {u \in users : u.born < cutoff}

\* Mutant: the DELETE takes every guest, whatever its age.
ExpiredAnyAge(cutoff) == {u \in users : u.anon}

\* WHERE is_anonymous AND created_at < cutoff.
Expired(cutoff) == {u \in users : u.anon /\ u.born < cutoff}

\* Mutant: RunOnce returns early when the row pass reaped nothing.
ReapRowsOnly ==
    LET twins == {u.auth : u \in Expired(now - TTL)} IN
    /\ reaper.step = "idle"
    /\ users' = users \ Expired(now - TTL)
    /\ reaper' = IF twins = {} THEN reaper
                 ELSE [step |-> "twins", cutoff |-> now - TTL, todo |-> twins]
    /\ UNCHANGED <<now, status, born, tokens, serial, req, missed>>

\* DeleteExpiredAnonymousUsers in one transaction, with the cutoff of this pass.
\* The commit may be applied and its answer lost: RunOnce then returns before the
\* twins.  Without the service role key there is nothing more to do either.
ReapRows ==
    LET cutoff == now - TTL
        twins  == {u.auth : u \in Expired(cutoff)}
    IN  /\ reaper.step = "idle"
        /\ users' = users \ Expired(cutoff)
        /\ \/ /\ ServiceKey
              /\ reaper' = [step |-> IF twins = {} THEN "list" ELSE "twins",
                            cutoff |-> cutoff, todo |-> twins]
           \/ UNCHANGED reaper
        /\ UNCHANGED <<now, status, born, tokens, serial, req, missed>>

\* The loops over the reaped rows and over the orphans go on to the next identity
\* whether the deletion of a succeeded or not.
TwinDone(a) ==
    reaper' = [reaper EXCEPT !.todo = @ \ {a},
                             !.step = IF reaper.todo = {a} THEN "list" ELSE "twins"]

OrphanDone(a) ==
    reaper' = IF reaper.todo = {a} THEN Resting ELSE [reaper EXCEPT !.todo = @ \ {a}]

\* AdminDeleteUser succeeds; an identity already gone counts as deleted.
Delete(a) == status' = [status EXCEPT ![a] = "deleted"]

\* The GoTrue twin of a reaped row; a failure is only logged.
DeleteTwin(a) ==
    /\ reaper.step = "twins"
    /\ a \in reaper.todo
    /\ Delete(a)
    /\ TwinDone(a)
    /\ UNCHANGED <<now, born, tokens, users, serial, req, missed>>

SkipTwin(a) ==
    /\ reaper.step = "twins"
    /\ a \in reaper.todo
    /\ TwinDone(a)
    /\ UNCHANGED <<now, status, born, tokens, users, serial, req, missed>>

\* Mutant: the candidates are not compared with the cutoff.
ListAnyAge ==
    /\ reaper.step = "list"
    /\ reaper' = [reaper EXCEPT !.step = "check", !.todo = {a \in Auth : Anonymous(a)}]
    /\ UNCHANGED <<now, status, born, tokens, users, serial, req, missed>>

\* AdminListAnonymousUsers (one page) and the candidates older than the cutoff.
List ==
    LET old == {a \in Auth : Anonymous(a) /\ born[a] < reaper.cutoff} IN
    /\ reaper.step = "list"
    /\ reaper' = IF old = {} THEN Resting
                 ELSE [reaper EXCEPT !.step = "check", !.todo = old]
    /\ UNCHANGED <<now, status, born, tokens, users, serial, req, missed>>

\* Mutant: every candidate is taken for an orphan.
CheckNothing ==
    /\ reaper.step = "check"
    /\ reaper' = [reaper EXCEPT !.step = "orphans"]
    /\ UNCHANGED <<now, status, born, tokens, users, serial, req, missed>>

\* ListExistingAuthIDs: the candidates that have a row are left alone.
Check ==
    LET orphans == {a \in reaper.todo : ~HasRow(a)} IN
    /\ reaper.step = "check"
    /\ reaper' = IF orphans = {} THEN Resting
                 ELSE [reaper EXCEPT !.step = "orphans", !.todo = orphans]
    /\ UNCHANGED <<now, status, born, tokens, users, serial, req, missed>>

DeleteOrphan(a) ==
    /\ reaper.step = "orphans"
    /\ a \in reaper.todo
    /\ Delete(a)
    /\ OrphanDone(a)
    /\ UNCHANGED <<now, born, tokens, users, serial, req, missed>>

SkipOrphan(a) ==
    /\ reaper.step = "orphans"
    /\ a \in reaper.todo
    /\ OrphanDone(a)
    /\ UNCHANGED <<now, status, born, tokens, users, serial, req, missed>>

\* Listing or checking failed: the orphan pass stops and deletes nothing.
GiveUp ==
    /\ reaper.step \in {"list", "check"}
    /\ reaper' = Resting
    /\ UNCHANGED <<now, status, born, tokens, users, serial, req, missed>>

\* The process dies and is restarted; Start runs a pass at once.  Upgrades between
\* GoTrue's answer and the promotion are missed.
Crash ==
    /\ req' = [r \in Req |-> Idle]
    /\ reaper' = Resting
    /\ missed' = missed \cup {a \in Auth : ~Promoted(a) /\
                                \E r \in Req : req[r].step = "promote" /\ req[r].sub = a}
    /\ UNCHANGED <<now, status, born, tokens, users, serial>>

-----------------------------------------------------------------------------
RequestStep(r) ==
    Load(r) \/ Provision(r) \/ Heal(r) \/ Put(r) \/ Promote(r) \/ Refresh(r) \/ Fail(r)

ReaperStep ==
    \/ ReapRows \/ List \/ Check \/ GiveUp
    \/ \E a \in Auth : DeleteTwin(a) \/ SkipTwin(a) \/ DeleteOrphan(a) \/ SkipOrphan(a)

Next ==
    \/ Tick
    \/ \E a \in Auth : SignIn(a) \/ Login(a) \/ Confirm(a)
    \/ \E t \in tokens : ClearCookie(t)
    \/ \E r \in Req : (\E t \in tokens : Authenticate(r, t)) \/ RequestStep(r)
    \/ ReaperStep
    \/ Crash

Spec == Init /\ [][Next]_vars

-----------------------------------------------------------------------------
(* Safety.  The configuration these hold under is ShortSessions: a token   *)
(* and the request it authenticates are over before the TTL is.            *)

ShortSessions == TokenLife + ReqMax <= TTL

\* Every users row belongs to a living identity, unless its upgrade was missed:
\* the reaper never deletes in GoTrue an identity that has a row, and a request
\* never provisions a row for an identity the reaper has deleted meanwhile.
NoGhostRow == \A u \in users : u.auth \notin missed => Live(u.auth)

\* Nobody's session is pulled from under them: while a browser holds a token of
\* an identity, or a request of it is in flight, the reaper has not deleted it.
SessionNotPulled ==
    \A a \in Auth \ missed : status[a] = "deleted" =>
        /\ \A t \in tokens : t.sub # a
        /\ \A r \in Req : req[r] # Idle => req[r].sub # a

\* What ListExistingAuthIDs confirmed is still true when it is acted on: an
\* identity waiting to be deleted as an orphan has no row.
OrphansHaveNoRow ==
    reaper.step = "orphans" =>
        \A a \in reaper.todo : a \notin missed => ~HasRow(a)

\* An identity with credentials attached is not deleted, even before its row is
\* promoted and while a reaper pass that began earlier is still running.
UpgradedSurvives ==
    [][\A a \in Auth : (status[a] \in {"pending", "registered"} /\ a \notin missed)
                         => status'[a] # "deleted"]_vars

\* The promise of guest mode, kept: GuestPromise under this reading of the state.
Phase(a) ==
    IF a \in missed THEN "lapsed"
    ELSE IF status[a] = "unminted" THEN "absent"
    ELSE IF status[a] = "deleted" THEN "gone"
    ELSE IF Promoted(a) THEN "kept" ELSE "guest"

Promise == INSTANCE GuestPromise WITH phase <- [a \in Auth |-> Phase(a)], since <- born

PromiseKept == Promise!Spec

\* resolveUser's comment: the flag is synced "so the reaper can never delete an
\* upgraded account".  A registered identity is never among those being deleted.
UpgradedNotReaped ==
    reaper.step \in {"twins", "orphans"} =>
        \A a \in reaper.todo : status[a] # "registered"

-----------------------------------------------------------------------------
(* Liveness.                                                               *)

\* The clock runs, requests end, the goroutine's ticker keeps firing.  The calls
\* the reaper makes may fail, but not for ever: each that is tried again and
\* again succeeds in the end.
Fairness ==
    /\ WF_vars(Tick)
    /\ \A r \in Req : WF_vars(RequestStep(r))
    /\ WF_vars(ReaperStep)
    /\ SF_vars(ReapRows /\ reaper'.step # "idle") /\ SF_vars(List) /\ SF_vars(Check)
    /\ \A a \in Auth : SF_vars(DeleteOrphan(a))

FairSpec == Spec /\ Fairness

\* Every guest who never upgrades is gone in the end, the identity and the row:
\* a sign-in whose answer was lost, a failed provisioning, a twin whose deletion
\* failed and a pass cut short by a crash all end up in some later pass.
EveryGuestExpires ==
    \A a \in Auth : status[a] = "anonymous" ~>
        \/ status[a] \in {"pending", "registered"}
        \/ status[a] = "deleted" /\ ~HasRow(a)

=============================================================================
