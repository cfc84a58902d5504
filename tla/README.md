# A TLA+ verification project for the Go Performance Starter

This directory models the parts of the application in which several actors share
state: the life of a guest account, the rate limiter, the database behind row-level
security, the pages a browser shows while answers arrive, and the other components
listed in the inventory below. Each module is checked on small instances with TLC; the
theorems are checked with TLAPS. `PROJECT.json` is the index: which run checks
which property, which lines of the source each definition stands for, and the
hazards the properties are aimed at.

## 1. The system

A server-rendered Go application (`cmd/api/main.go`, `internal/`) in front of two
services it does not own: Postgres with row-level security, and GoTrue (Supabase
Auth). There is one process. Inside it run: a goroutine per request, the reaper
goroutine, a sweep goroutine per rate-limiter tier, the memory-metrics collector
and the signal handler. Everything durable is in Postgres and GoTrue; everything
in the process (buckets, latency samples) is lost at a restart.

| Component | State | Operations | Talks to | What is hard | What makes it correct |
|---|---|---|---|---|---|
| Guest lifecycle (`middleware/guest_session`, `auth_middleware`, `user_loader`, `handler/upgrade_handlers`, `auth/anon`, `auth/upgrade`, `jobs/reaper`) | GoTrue identities, `users` rows, browser cookies, requests in flight, the reaper's cutoff and candidates | sign in anonymously, validate, provision, heal, upgrade (PUT, promote, refresh), reap rows, delete twins, list, check, delete orphans | GoTrue over HTTP, Postgres in separate transactions | no lock spans the two services; answers get lost; the process dies; the reaper acts on what it read minutes ago | a guest lives for its TTL, an upgraded account is never deleted, no row outlives its identity, every guest who never upgrades goes |
| Rate limiter (`middleware/ratelimit`) | map of buckets with last-seen times; in each bucket the tokens | get, take, evict | every route, `RealIP` for the key | the bucket is used outside the mutex; buckets are dropped; a refusal is a reservation and its cancellation | one bucket per client, never more than burst + rate x time, refusals free |
| Admin listing (`auth/anon`) | the pages read so far | read page n, stop at a short page or at 100 | GoTrue | offset paging over a set that changes between pages | nobody listed who was not due; no more skipped than were deleted meanwhile |
| Scoped transactions (`repository/postgres/scope`, `reaper`) | pooled connections with their role, claims and transaction | begin, set role, set claims, statements, commit, roll back, close | every repository, Postgres | a connection outlives its transaction; any statement may fail | statements run as the requester; a connection goes back clean |
| Request pipeline (`server`, `middleware/*`) | request context, response writer | security headers, real IP, body limit, limiters, metrics, timeout, cross-origin, CSRF, sessions | handlers | order of the chain; proxies; a panic half way | the client's address is not the client's to choose; every response is counted once |
| Performance observer (`performance/observed`, `budgets`) | ring of latencies, cached percentiles, memory and peak, startup time | record, snapshot, observe memory | metrics middleware, collector goroutine, status page | ring wrap-around, a cache of one second, values read before the lock | the ring holds the last N, the peak never falls |
| Repositories (`repository/postgres`, `sql/queries`, `migrations`) | the tables users, flashcards, quiz_attempts, behind policies | one statement per method, under the identity of the transaction | Postgres | ids come from URLs, some statements name no owner, COALESCE over a string that is never NULL | whatever ids are passed, one's own rows are read and written |
| Organisations (`organization.go`, `organization_member.go`) | organisations, memberships, the primary flag | create, soft delete, join, leave, set primary | Postgres | two statements in one transaction, several transactions at READ COMMITTED | at most one primary organisation per user, the one asked for |
| Sign-in pages (`handler/auth_handlers`, `recovery`) | session cookies | login, sign-up, logout, recover, reset | GoTrue | cookies are set when answers arrive, in whatever order | an answer takes a session away only if that was asked for |
| Quiz and flashcards (`handler/quiz_handlers`, `flashcard_handlers`, `flashcard_isolation`, `dashboard_handlers`) | attempts, flashcards | page, answer, create, review, progress | repositories | topic entry and the widget's figures read in three transactions each; repeated answers; several tabs | entry finds what was left when it looked, done means done, figures agree up to what came in between |
| Profile, first run (`handler/profile_handlers`, `first_run_handlers`) | users row | read, update name, mark complete, password | repositories | several updates in a row | narrow updates leave other columns alone |
| Pattern showcase (`handler/patterns_handlers`, `view/partials/patterns`) | none; markup carries it to and fro | scroll, counter, wizard, bulk, polling and the other demos | limiter | two regions of one answer, numbers in sentinels | pages are disjoint and end, regions agree |
| Views (`view/`, with `web/static/js/app.js`) | the document in a tab | pages, fragments and what htmx does with them | every handler, by links, forms and `hx-*` attributes | fragments are swapped into a document other answers have changed | every target exists, everything offered works |
| Server lifecycle (`cmd/api/main`, `server.New`, `Close`) | listener, contexts, goroutines | start, serve, signal, drain, close | all of the above | shutdown while requests run | requests end before the pool is closed |
| Configuration (`config`) | the settings | load, validate | everything | combinations nobody tried | invalid settings never start |
| Repository tools (`scripts/`) | none | ADR checks, drift checks | files | pure functions of files | - |

Styles, texts, images and the demo data hold no logic of their own and are left out.

## 2. Modules

| Module | What it is |
|---|---|
| `GuestPromise` | Abstract: what one guest may rely on. A guest is absent, then a guest, then kept (upgraded) or gone; gone only after its TTL; kept for ever. |
| `GuestLifecycle` | The detailed state machine: GoTrue, browsers, request chains, reaper. Implements `GuestPromise`. |
| `GuestLifecycleProofs` | Its types, its safety and the refinement, for any number of identities and requests. |
| `TokenBucket` | Abstract: one bucket per client, for ever. |
| `RateLimiter` | `limiterStore`, `take`, `evict`, with `x/time/rate` from its use. Implements `TokenBucket`. |
| `RateLimiterProofs` | The limiter implements the bucket, and refusals one at a time are free, for all constants. |
| `ScopedPool` | `inScope` and the reaper's transactions over the connection pool: whose identity a statement runs under. |
| `ServerLifecycle` | `main` from boot to exit with requests and the reaper, each using the pool; implements `ScopedPool`. |
| `ServerLifecycleProofs` | The pool's safety, that the server uses it so, and what draining guarantees. |
| `LatencyWindow` | Reference: the window of the last N, nearest-rank percentiles. |
| `Observer` | The latency ring, the cached percentiles, the memory peak, with their goroutines and three mutexes. |
| `ObserverProofs` | The ring is the window, the figures are its ranks and the peak covers, for all sizes. |
| `Learn` | The quiz and the dashboard's quiz widget, over the tabs of users. |
| `LearnProofs` | Entry, done and the widget's figures, for any questions, tabs and window. |
| `AdminListing` | The reaper's paged listing of GoTrue's anonymous identities. |
| `AdminListingProofs` | Nobody is listed who was not due, and no more missed than were removed, for all page sizes. |
| `Queries` | The tables, their policies and every SQL statement on them, as functions. |
| `Database` | The repositories' methods, called by anyone with any ids. |
| `Organisations` | Memberships and `SetPrimary`, statement by statement, row lock by row lock. |
| `RepositoryProofs` | What one identity can see and change, and one primary organisation per user, for all identities, rows and transactions. |
| `Markup` | What of HTML matters here: ids, forms and buttons, links, and holes. |
| `Views` | The templates of `internal/view`, one operator each. |
| `Showcase` | The pattern showcase: its catalogue, templates and handlers. |
| `Handlers` | The server's answer to a request: middleware chain, route, handler. |
| `Browser` | A tab, its cookies and its requests in flight, with other tabs beside it. |
| `BrowserProofs` | Its tokens, sessions, document and cards, for any tokens, cards and requests. |
| `MCGuestLifecycle`, `MCRateLimiter`, `MCObserver`, `MCLearn`, `MCBrowser`, `MCDatabase` | Values, symmetry and, for the limiter, a history variable for TLC. |

Where components share state they are composed. `ServerLifecycle` keeps the variables
of `ScopedPool`, and every transaction of a request is that module's. `Browser`
EXTENDS `Handlers`, `Showcase`, `Views` and `Markup`: one behaviour goes from a click
through the middleware and the handler to the fragment that lands in the page.
`Database` EXTENDS `Queries`. `ScopedPool` shows that a statement runs under its
requester's identity, `Queries` and `Database` what a statement can do under it. The
listing and the observer meet the rest only through calls whose answers the other
modules take as inputs. `MCDatabase` checks `Database` and `Organisations` in one run
as two slices (a behaviour is in one or the other): they share nothing but user ids.

### 2.1 GuestLifecycle

State: `status[a]` and `born[a]` are what GoTrue holds of an identity; `tokens` the
access tokens in cookie jars; `users` the table, with the primary key, `auth_id`,
`is_anonymous` and `created_at`; `req[r]` a request in flight with the claims and
the row in its context and the call it makes next; `reaper` the locals of a pass
(`cutoff`, `todo`) and where it is. `missed` is a history variable: identities
whose upgrade GoTrue accepted while the promotion of the row was missed.

Every call to GoTrue and every transaction is one step; between two calls of a
handler anything else may happen. The chain of a request is
`Authenticate` (validateSession) - `Load` (GetByAuthID) - `Provision` or `Heal` -
`Put` - `Promote` - `Refresh`; the chain of a pass is `ReapRows` -
`DeleteTwin`/`SkipTwin` - `List` - `Check` - `DeleteOrphan`/`SkipOrphan`. Each write
has an outcome in which it was applied and its answer lost, `Fail` is an error or a
deadline, `Crash` a restart. Reads of a set by the reaper are atomic here; the
paging of the listing is left to a module of its own. The email column and
password rules do not influence any property and are abstracted, as are refresh
tokens: a cookie jar gets a new access token by `Refresh` or `Login` only, which is
what the code in `src/` does.

Time is counted in coarse ticks; a request is in flight for at most `ReqMax` (the
30 s Timeout middleware cancels its context), a token is dropped from the jar at
`exp` (cookie MaxAge is `expires_in`).

Checked (assuming `ShortSessions`, i.e. a token and a request fit in the TTL, which
the defaults, 168 h against GoTrue's hour, satisfy):

- `NoGhostRow`, `SessionNotPulled`, `OrphansHaveNoRow`, `UpgradedSurvives`:
  what the reaper relies on when it acts on old answers;
- `PromiseKept`: the refinement of `GuestPromise`;
- `EveryGuestExpires`: liveness, under the fairness of section 4.

Each excepts `missed` upgrades; the run `guest_missed` shows why, and is a finding.
`ShortSessions` is needed too: with a GUEST_TTL shorter than a token lives (TTL 1,
token 2) TLC finds a guest whose request provisions a row between the reaper's check
that there is none and its deletion of the identity. Nothing in `config` refuses such
a setting.

### 2.2 RateLimiter

State: `heap` is every bucket ever created (a `*rate.Limiter` is an index), `entry`
and `lastSeen` the map under the mutex, `req[r]` a request holding the bucket `get`
gave it. Credit is counted in ticks: a request costs `Period`, one comes back per
tick. `ideal`, `admitted` and `retryAt` are history variables; `ideal` is the
bucket of `TokenBucket`.

`Get` and `Evict` are the two critical sections. `Reserve` and `Cancel` are the two
calls of `take`; each locks the bucket, the pair does not. Their arithmetic is that
of `ReserveN` and `CancelAt`: a cancelled reservation gives back its token less
what was reserved after it, and moves the last event back when it was the last.

`take` reads the clock once, and the model has it reserve and cancel within that
tick; a goroutine delayed between reading the clock and locking the bucket is
below its resolution. A burst of zero (`res.OK()` false) is excluded by
`LimiterAssumption`: no tier has one.

`MCRateLimiter` adds `crowded`: two requests of a client have been refused at once.
Until then a refused request is free and Retry-After is right (`RefusedAloneIsFree`,
`RetryAloneHonoured`); afterwards they are not, as `limiter_refusal` shows.

`TierAssumption` states what the code leaves implicit: a bucket refills, and a
request that holds it is over, within `staleAfter`. The tiers mounted (10 at 50/s,
5 at 5/min, 20 at 30/min, the demo's 3 at 1 per 2 s) refill in a minute or less
against ten.

### 2.3 ScopedPool and ServerLifecycle

`ScopedPool`: `session[c]` is the identity connection `c` runs under (role and
subject); `job[j]` the transaction a goroutine is in: its connection, what its
context asks for, and how far `inScope` is. The chain is `Begin` - `SetRole` -
`SetClaims` - statements - `Commit` or the deferred `Rollback`; `ExecFails` is an
error of any statement, `Lose` a connection that is gone when it comes back. SET
LOCAL and `set_config(..., true)` end with the transaction: `Return` restores the
owner's identity. `System` is the role the reaper's transactions set, without
claims. Which rows an identity may see is in `Queries` (2.7).

`ServerLifecycle`: `main` is where the main goroutine is (boot, bind, wait, drain,
sweepers, pool, closing, exit 0 or 1); requests are accepted while `serving` and use
the pool as often as they like, each transaction being `ScopedPool`'s; the reaper
runs beside them until the context is `cancelled`. `Drained` and `DrainTimesOut` are
the two ends of `Shutdown`; exit status 1 runs no deferred call, so the pool is not
closed then. Checked: `OwnIdentity`, `CleanPool`, `ServedToTheEnd` (sweepers and pool
stay while a request is in flight), `GracefulExit` (status 0 means every request was
answered and every transaction ended), `UsesPool` (the refinement), `StopsWhenTold`.

### 2.4 Observer

A request's `Record` is one critical section. A view of the landing page is four
steps (`ReadMemory`, `AdvancePeak`, `LockLatency`, `Summarise`), the collector the
first two; between them others run. A time of 0 is Go's zero time. Figures are
compared with `LatencyWindow`, which defines the p-th percentile as the smallest
sample that p of a hundred do not exceed; `Rank` has the code's float arithmetic in
millionths. `log`, `since` are history. Checked: `RingIsWindow`, `FiguresAreRecent`, `PeakHolds`.
Not modelled: start-up time, asset and binary sizes, each measured once.

### 2.5 Learn

`tab[t]` is what a tab shows or what its request has done. A transaction is a step.
Topic entry is three: `Enter` reads the questions and looks the topic up,
`ChooseQuestion` reads the attempts in the window and picks, `ShowCard` reads the
score and the card is there; without a topic, by a row of the widget (`Open`) and by a
result's link (`FollowNext`) there is no list of attempts to read and it is two. An
answer is two, the attempt committed and the score read; when the second fails the
attempt stays and the tab may submit again. The widget is three. Any of these but the
first may fail (`Fails`, `ResultFails`). A run is a topic's questions in display order;
links carry the topic. `walk` (the tab came in at an entry point), `seen` (attempts
there were when topic entry read them) and `late` (attempts recorded between the
widget's two counts) are history. Entry cannot promise a question that is new when its
card appears: another tab may answer it between the two last reads. `EntryIsFresh`
promises one that was new when the attempts were read. The order of questions is fixed and attempts are ordered by commit. The score
counts attempts and not questions, so a question answered again after a failed score
counts twice; `quiz_handlers.go:41` says as much, and no property denies it.

### 2.6 AdminListing

Identities are numbers in order of creation, listed newest first, which is GoTrue's
order; the bound on misses would be the same in the other order. Any identity may be
deleted at any time: the deployment may run several machines, each with its reaper.
`due` and `removed` are history. `GuestLifecycle` takes the listing as one answer:
`CandidatesWereDue` and `MissesNoMoreThanRemoved` are what justifies that, since the
deletion steps there re-check each candidate's row anyway.

### 2.7 Queries and Database

`db` is the tables: users rows with identity, address, `anon`, `active` and
`first_run_complete`; flashcards; attempts. A statement is a function of the tables
and of what the transaction runs as, `[role, sub]`; it fails or gives rows and new
tables. The policies are `users_self_access` and `self_access`: `authenticated` sees
the users row whose `auth_id` is the claims' subject and the rows that reference it;
the connection's own role and `service_role` see all. UNIQUE constraints, foreign keys,
ON DELETE CASCADE and WITH CHECK are the guards of the statements.

`Database` calls each repository method with any id at all, under the identity
`inScope` sets, and the reaper's statement under its role. `Mine(d, sub)` is the part
of a database that is an identity's, `Others` the rest. Checked: `OwnRowsOnly`
(non-interference: every read gives what it would on a database with one's own rows
only; no write touches another's row, not even `SetFlashcardKnown`, whose statement
names no owner) and `AddressKept`. Statements are atomic here; the handlers' sequences
of them are in `Learn` and `GuestLifecycle`. Text and time columns are left out.

### 2.8 Organisations

`member` is the table of memberships, `primary` the rows with the flag, `tx[t]` a
SetPrimary transaction. At READ COMMITTED each of its two UPDATEs has a snapshot of
its own: `SetPrimaryOrganizationStep1` locks the target, if the membership exists;
`SetPrimaryOrganizationStep2` takes the memberships to clear, `Clear` locks them one at
a time and waits for rows others hold; writes show at `Commit`; `Rollback` is a
deadlock's victim, a cancelled request or a lost connection. Memberships come and go
and organisations are soft-deleted meanwhile. Checked: `AtMostOnePrimary`,
`TargetIsPrimary`.

No claims are modelled here, because a transaction that carries them gets nowhere: the
policy `org_members_owner_modify` (`migrations/000002_add_basic_rls.up.sql:65`)
reads its own table, which PostgreSQL refuses as infinite recursion. No route of
`src/` reaches these repositories yet. What else was seen there without a run: `organizations` has no
INSERT policy although the comments of that migration describe owners managing their
organisations, and a SetPrimary whose membership is gone clears the others and returns
no error.

### 2.9 Browser, Handlers, Showcase, Views, Markup

A template call is `V(name, flags, of)`: what it is, which branches its props take,
what it shows. `Render` gives its markup: ids, what can be submitted or pressed
(`does`: verb, path, target, how it is swapped, whether it works without htmx), links,
and holes, the elements later answers replace, each with the call that first fills it.
Two parts of a template follow each other with `++`, the rows of a loop and the parts of
a document stand `Together`; functions from holes to calls are joined by `\uplus` and
`Merged`, written out because the prover does not look into TLC's `@@` or into folds.
`Views` has one operator per template function of the pages and partials.

`Handlers!Serve(r, db, site)` is the whole way of a request: the tier's limiter, the
double-submit token, the guest session or the optional or required authentication of
the route group, the loader, the handler; it returns the possible answers with the
database after each. A fault (`auth`, `db`, `limit`, `tier`) is GoTrue down, the
database down, or one of the limiters refusing.

`Browser` is one tab. `tab.at` maps the holes of the document to what fills them
(`Document` is all their markup, `Within` what a call brings with it, two levels deep);
`jar` are the cookies, shared with other tabs; `reqs` the requests in flight. The
server answers when a request is sent and the answer arrives later, in any order with
the others: `Deliver` sets its cookies, then loads the page, follows HX-Redirect, swaps
the fragment (for the statuses `app.js` lets through) or drops it when its target has
been replaced. Another tab signs in, out, upgrades or deletes a card; the session
lapses or dies; the CSRF cookie expires. `marks` is history.

Checked: every target of a swap exists and no id is there twice (`TargetsExist`);
whatever is offered in a tab that is in step with its cookies works
(`AffordancesWork`); a card shown exists (`CardsExist`); a page's token, if it has one
(an error page has none), is the cookie's (`TokenKept`); the endless list shows each item once and in order
(`ScrollInOrder`); the two regions of the counter agree (`CounterAgrees`); an answer
takes a session away only if that was asked for (`SessionTaken`). The exceptions the
properties name are what the code does:

- a card deleted while its other form's answer is on its way may be shown again, until
  the next load (`marks.gone`);
- two first requests at once each issue a CSRF token, and the page rendered with the
  other one is refused until it is loaded again (`marks.overlapped`);
- login, sign-up, recover and reset forms have neither `action` nor `method`: without
  JavaScript they do nothing; logging out without JavaScript ends on a blank page;
- a 403, 404 or 500 is never swapped: the page stays as it was;
- GoTrue out of reach clears the cookies, as a refused token does (`calm`);
- `/settings/security`, linked from the end of the first run, has no route.

Not in it: the limiters' counting (a tier refuses or not), a second tab's document,
the browser's history, Alpine state and text.

## 3. Runs

| Run | Instance | Question |
|---|---|---|
| `guest_safe` | 1 guest, 2 requests, TTL 2, token 1, request 1, clock to 5, 3 rows | Do the safety properties and the promise hold? Two requests are what racing provisions and upgrades need; the clock goes far enough for sign-in, expiry, and one more pass; a row can be reaped and provisioned again. |
| `guest_live` | 2 guests, 1 request, TTL 1, clock to 3 | Does every guest who never upgrades go? Two guests so that a pass can fail half way. |
| `guest_missed` | 1 guest, 1 request, TTL 2, clock to 6 | Is an upgraded account always exempt? No: finding. |
| `limiter_safe` | 1 client, 3 requests, burst 2, period 3, stale after 7, stall 2, clock to 13 | Is the contract kept, and are refusals free as long as they do not overlap? Three requests give every order of cancellations; the clock allows an eviction and a second bucket. Clients share nothing but the sweep, so one is enough here; the proofs are for any number. |
| `limiter_refusal` | 2 requests | Are refusals free when concurrent? No: finding. |
| `server_drain` | 3 requests, 2 connections, 2 subjects | From boot to exit: identities, clean connections, what a request may count on, exit status, and that a signal stops the process. Fewer connections than goroutines, so that they wait and reuse; no symmetry, because liveness is checked. |
| `observer_views` | ring of 3, 2 views and the collector, 4 records, cache life 2, clock to 4 | The ring wraps once; a view may find the cache filled by the other, fresh or stale; the collector and the views race for the peak. |
| `learn_tabs` | 3 questions of 2 topics, 2 tabs of one user, 4 attempts, window 3 | One more attempt than the window holds, one topic with two questions so that it has a middle, two tabs so that everything may happen in between, an answer between the reads of an entry or of the widget too. |
| `admin_listing` | pages of 2, at most 3, 6 identities | Enough for a walk of three full pages with deletions behind, at and ahead of the cursor, and for the limit. |
| `browser` | a tab on three sites (guest mode with and without JavaScript; no guest mode and no quiz), 1 card, 1 guest and 1 registered account, 2 tokens, 2 requests in flight | Does what is shown work and stay true? Two requests in flight are what overlapping answers need. Either the tab sends as many requests as it likes and nothing goes wrong around it, or it sends four and one fault, lapse or request of another tab comes in between. The two together multiply beyond what TLC finishes; a fault after a long visit is therefore only covered as far as four requests lead to the same page. |
| `browser_fragment` | as above | Is a full page ever put into a fragment's place? Yes: finding. |
| `database` | 2 identities, 2 users rows, 1 address, 2 cards, 1 attempt; and 1 user, 3 organisations, 3 transactions | Whose rows are read and written, whatever ids are passed; one primary organisation. Two identities are what it takes to meet another's row, and a reaped users row can be created again. Three transactions over three rows give a cycle of waits and its victim. |

Bounds (`MaxTime`, `LastMint`, `MaxRows`, `MaxClock`, `MaxBuckets`, `MaxDebt`,
`MaxRecords`, `MaxAttempts`, `MaxUsers`, `MaxToken`, `MaxFlight`, `MaxCount`,
`MaxGuests`, `Budgets`, and the sets `Cards` and `CardIds`, each of which is created
once) are guards of the actions that would exceed them. `MaxDebt` is needed because the
loss found by `limiter_refusal` repeats: debt has no bound in the code. The runs have
`CHECK_DEADLOCK FALSE` because a bounded clock or counter stops every behaviour in the
end; `server_drain` has no such bound, and deadlock is checked there.

Each property of a passing run has a mutant in `PROJECT.json`: a definition of the
model changed as a plausible bug would change the code, for which the same run finds
the property violated.

Findings: `guest_missed` (an upgrade whose promotion was missed is reaped),
`limiter_refusal` (overlapping refusals are not free), `browser_fragment` (the login
page is swapped into a fragment's place). Each quotes the comment it disagrees with.

## 4. Fairness

`GuestLifecycle!Fairness`: time passes and requests end (weak fairness of `Tick`
and of each request: the Timeout middleware); the reaper goroutine is scheduled
(weak fairness of its step: a ticker in a loop that no error leaves); each
of its calls, tried in pass after pass, does not fail for ever (strong fairness of
`ReapRows`, `List`, `Check` and each `DeleteOrphan`). No fairness is assumed of
`DeleteTwin`: the orphan pass must make up for it. Nothing is assumed of guests.

`ServerLifecycle`: weak fairness of `main`'s own steps, of the context's
cancellation after a signal, of the end of a drain (`Drained` or, the deadline being
a timer, `DrainTimesOut`) and of the reaper's steps. Nothing is assumed of requests:
they may hang, and the process stops all the same.

All other modules are checked for safety only. Nothing makes a user go on, so the code
justifies no fairness of `Browser`, `Learn` or `Database`.

## 5. Theorems

The theorems hold for every value of the constants that the named assumptions admit.
Each proof has one lemma per action, or per group of actions that the invariant does
not tell apart.

### 5.1 Guests

`GuestTypeOK`: `TypeOK`, with the uniqueness constraints of the users table, is
inductive by itself; it assumes `TimingAssumption`.

The rest supposes `ShortSessions`, as the runs do: `GuestRowsLive` (`NoGhostRow`),
`GuestSessionsKept` (`SessionNotPulled`), `GuestOrphansConfirmed`
(`OrphansHaveNoRow`), `GuestUpgradeSurvives` (`UpgradedSurvives`) and
`GuestPromiseKept`, the refinement of `GuestPromise`, action by action. None of these
properties is inductive: each speaks of a deletion that was decided some steps ago.
`IInv` adds

- `InTime`: cookies and requests are dropped in time, nothing is older than its
  identity;
- `Handed`, `Started`: a guest's tokens are those of its sign-in, and its requests
  started with one of them, unless its upgrade was promoted;
- `OwnRow`: the row a request carries is its own identity's, or gone;
- `Upgrades`: an upgrade that was not missed has promoted the row, or has a request
  that is about to;
- `Pass`: whatever the reaper still has to delete is past its TTL.

From these and `ShortSessions` follows `NobodyLeft`: past its TTL a guest who has not
been promoted has no token, no request and no upgrade under way. So nothing can be
provisioned or upgraded between the reaper's check and its deletion (`Closed`).

### 5.2 Rate limiter

From `LimiterAssumption` and `TierAssumption`. `NeverRicher` is not inductive: a
cancelled reservation gives credit back, and an evicted bucket comes back full. `IInv`
adds

- `NoSplitBucket`, `Prompt`: a request in flight saw its client within `Stall`, so
  its entry is not stale and it holds the bucket of the map;
- `Recovering`, `FullWhenDropped`: an idle client's ideal credit grows with the idle
  time, so it is full when its bucket is dropped;
- `Chained`, `DistinctDues`: reservations about to be cancelled are due at distinct
  times, multiples of `Period` below the bucket's last event, which is when its
  debt ends. So only the last of them gives a token back, and exactly what it took.

From it: `LimiterSafety`, `LimiterNeverSplits`, `LimiterImplementsBucket` (each step is
a step of `TokenBucket` or a stutter) and `LimiterWithinRate` (from the books:
admissions times `Period` plus credit never exceed capacity plus time).

`LimiterRefusesFree` and `LimiterRetryHonoured` are about `MCRateLimiter`, whose
`crowded` says whether two refusals of a client have overlapped. As long as they have
not, `NeverRicher` becomes an equation: `Exact` (a bucket holds what the ideal one
does, less the token that is about to come back) and `Returning` (a client told to come
back at `retryAt` has a token by then).

### 5.3 Pool and server

`PoolSafety`: for any goroutines, connections and subjects, statements run under the
identity of their context, a connection is in one transaction at a time, and a free one
has forgotten its last user. `PInv` adds `Following` (the session of a connection is
exactly what its transaction has set so far) and `Asking` (what a transaction at each
step can have asked for: one without claims sets none).

`ServerUsesPool` is the refinement of `ScopedPool`; `ServerIdentity` and
`ServerPoolClean` carry `PoolSafety` over it. `ServerServesToTheEnd`, `ServerSafety` and
`ServerTypeOK` rest on `SInv`, which ties each stage of `main` to what has been stopped
by then. Assumes `ServerAssumption`.

### 5.4 Repositories

`Isolation` and `AddressesStay`. Lemmas about the statements, as functions of a
database, carry the argument: `Visible` (under an identity the policies show its users
row and what references it), `SeesOwn` (the same in the whole database and in one's own
part), and one lemma per kind of change (`UsersChange`, `CardsChange`, `AttemptAdded`,
`UserAdded`). The invariant `Referential` is needed by the last: no row has or
references an id not yet given out, so a new user finds no card waiting for it. Assumes
`DatabaseAssumption` (bounds are numbers, no address is empty).

`OnePrimary` and `PrimaryIsTarget`, for any users, organisations and transactions.
SetPrimary takes no lock on the user, so two transactions for different organisations
could each miss what the other sets. `Crossing` says why they do not: whichever takes
its second snapshot last finds the other's target among the memberships, because that
row is locked and cannot be deleted, and so waits for it. `Covers`: from its second
snapshot to its commit, a transaction has cleared or is still to clear every row of its
user that is primary, save its target. `Exclusive` and `Snapshot` tie locks and
snapshots to rows that exist.

### 5.5 Observer

`RingHoldsWindow` from `RingInv` (k records back from the next slot lies the k-th last
of the log, modulo the length), `PeakCovers` from `PeakInv` (a reading that has been
compared is covered by the peak), and `ObserverTypeOK`.

`FiguresRecent` from `FigureInv`: the cache is the window after some number of records,
and a cache that is still fresh was computed when everything older than it had been
recorded. It needs what sorting does. `Sorted` is stated by its effect, a permutation in
order, and the proof shows that there is one: by induction over the length of the copy,
written as a set of numbers that holds 0 and is closed under the next (`UpTo`).
Nearest ranks count samples, and a permutation leaves the counts alone. Assumes
`ObserverAssumption`.

### 5.6 Admin listing

`ListingIsSound`: what is listed, or still may be, among those of age was due when the
cutoff was taken (`NobodyTooYoung`): identities become anonymous only when they are
created, and what is created during a walk is younger.

`ListingNearlyComplete`: a complete walk misses no more of those due than were removed
meanwhile. The page numbered n holds the identities with (n - 1) * PerPage to
n * PerPage - 1 newer ones; a removal moves at most one of those not yet read over the
cursor, and a creation moves none over it that has not been read. `FewMissing` keeps
the count: the identities due that are neither collected nor still ahead of the cursor
are at most the removals so far.

### 5.7 Learn

`LearnTypeOK`, `LearnDone`, `LearnWidget` and `LearnEntry`, from one invariant. A tab
keeps no list of what it has been past, and other tabs of its user answer meanwhile;
`Walked` says that a walk which came in at an entry point has everything before its
question attempted, and `Figures` what the widget's counts say of the history at the
time of each, which only grows. `Entered` is what topic entry knows between its reads:
the topic has a question, and the one picked had no attempt among the first `seen` of
the user, or every one of the topic had. Attempts are only appended, so those first ones
stay what they were while other tabs answer (`EarlyStays`), until the card is shown. What `quizRun` collects is once more an induction by
`UpTo`. Assumes `LearnAssumption`.

### 5.8 Browser

`BrowserTokenKept`, from `Tokens`: a page, the cookie and the answers under way agree on
the token. The invariant says of each pair of these when they may differ. `Rendered`: an
answer that brings no token of its own was rendered with the cookie's. `FreshPage`,
`FreshJar`, `FreshAnswers`, `Single`: while a token is under way, no page, cookie or
other answer has one; otherwise a mark was made when it was sent.

`BrowserSessionTaken`: every answer of `Serve`, route by route and fault by fault, sets
no session or the one it was asked under (`Mild`), with three exceptions: the paths that
sign in or out, requests of nobody, and tokens GoTrue refused or did not answer for.
`Follow` keeps that (a second answer is asked for under what the first set), and
`Respect` carries it until the answer arrives.

`BrowserKinds`: `Typed` says that what is in the jar and under way are accounts and
tokens given out, and `Landings` that a redirect goes to a page that does not redirect
its reader again, so that following one is enough. `Kinds` is `TypeOK` without its last
conjunct.

`BrowserTypeOK`, `BrowserCounterAgrees` and `BrowserScrollInOrder` are about the
document, and none of the three is inductive: nothing in them says what an answer still
under way will put where. `Documented` does, with `Typed` beside it:

- `Placed`: the page is in the document, and every hole holds a call that belongs there.
  A card's list item is the card or what replaced it; the place of the p-th sentinel has
  the sentinel or the p-th page; the flashcards and the showcase are at the root or nowhere.
- `Chained`: page p is shown exactly when the sentinel of p + 1, or its page, is there.
- `Agree`: the two regions of the counter count alike.
- `Settled`, of each request under way: its answer is one its control can have asked for
  (`Apt`), and the control is still in the document unless the answer is lost (`Held`),
  so that a page of the list comes to the sentinel that asked for it, and once.
- The page an HX-Redirect leads to is none of the demos' endpoints.

The argument has two halves. Template by template (`Sound`, `CasesRendered`): what is
written is a control of its own kind, and what first fills a hole belongs in it. Then
route by route (`SendMeant`): whatever the handler, the middleware around it, a fault or
a redirect on the way, the answer is one the request asks for (`Modest`). A swap keeps
the four parts because what it takes out and brings in is known from both (`SwapIs`).

`BrowserCardsExist` needs `Accounted` as well. A card is shown as its owner's, nobody
else has it (`ShownTo`, `Owned`), and an answer on its way with cards in it has its
reader's, or one marked as gone since (`Rightful`). A card in the page without a row was
deleted elsewhere, or its own form did it and that answer is still to come, is not lost
and takes the card out (`Deleting`). The last is why "its delete is under way", all the
property says, is not enough: an answer dropped for its status, or for a target that
went, would leave the card for good. Of each handler this takes that it loses no card
but one the request names, and answers that with an empty 200 (`Kept`).

Assumed: `BrowserAssumption`; `GuestAssumption`, which bounds the guests by the three
that `Guest` names; and `CardAssumption`, that a card is none of the other holes. All
else is unbounded.

### 5.9 Only model-checked

- Liveness: `EveryGuestExpires` and `StopsWhenTold`.
- Of `Browser`: `TargetsExist` and `AffordancesWork`. The invariant above says what may
  stand in a hole; these need what each page, as it stands, contains of ids, and what
  each of its controls is answered in the state of the moment, for every pair of a
  template and a route. TLC evaluates exactly that for every document it reaches, and a
  proof would repeat the evaluation case by case.

## 6. Not modelled, and the plan

Next, in this order:

1. Pure functions in one module and one run over enumerated inputs: `RealIP` against
   the nearest untrusted hop, what `config.Validate` accepts against what the other
   modules assume (`ShortSessions`, `TierAssumption`).
2. Organisations created or updated with the primary flag set, once something in `src/`
   calls them so.

Left out, and why:

- `RealIP`, `CrossOrigin`, the body limit, security headers and compression: each is a
  function of one request and changes no state another step reads.
- Configuration: read once, sequential; its values are the constants here.
- Health checks, robots, sitemap, static files: answers without state.
- Repository tools (`scripts/`): no part of the running program.
- The email column in `GuestLifecycle`: a users row keeps its address after its
  identity is deleted, so that the next sign-up with it meets the UNIQUE constraint.
- A goroutine delayed between `take`'s reading of the clock and the bucket's lock.
- Waiting for a free connection without a limit of its own: a request waits as long as
  its context lives, which the Timeout middleware ends.
- The listing's absolute limit (100 pages of a thousand) for deployments that exceed it.
- GoTrue's sessions: `Logout` is called without the caller's token and ends none there.
- The order of questions created by one INSERT, which share `created_at`.
