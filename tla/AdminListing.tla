---------------------------- MODULE AdminListing ----------------------------
(***************************************************************************)
(* How the reaper lists the anonymous identities of GoTrue: page after     *)
(* page by number, while guests sign in, upgrade and are deleted between   *)
(* two pages.                                                              *)
(*                                                                         *)
(* An identity is the number of its creation.  GoTrue lists newest first.  *)
(* An identity deleted behind the cursor moves every older one forward, so *)
(* that one is on a page already read; a sign-in moves them back, so that  *)
(* some are read twice, which deletions that answer 404 forgive.           *)
(***************************************************************************)
EXTENDS Integers, FiniteSets

CONSTANTS
    PerPage,  \* adminListPageSize
    MaxPages, \* maxAdminListPages
    MaxUsers  \* bound: identities ever created

ASSUME ListingAssumption ==
    PerPage \in Nat \ {0} /\ MaxPages \in Nat \ {0} /\ MaxUsers \in Nat

VARIABLES
    created, \* identities created so far
    users,   \* those that exist
    anon,    \* those that exist and are anonymous
    walk     \* the listing under way, or Idle

vars == <<created, users, anon, walk>>

Idle == [at |-> "idle"]

Init ==
    /\ created = 0
    /\ users = {} /\ anon = {}
    /\ walk = Idle

-----------------------------------------------------------------------------
(* GoTrue and its other clients *)

SignIn ==
    /\ created < MaxUsers
    /\ created' = created + 1
    /\ users' = users \cup {created'}
    /\ anon' = anon \cup {created'}
    /\ UNCHANGED walk

Upgrade(u) ==
    /\ u \in anon
    /\ anon' = anon \ {u}
    /\ UNCHANGED <<created, users, walk>>

\* The reaper of another machine, or an operator.  removed: history, how many
\* went during the walk.
Delete(u) ==
    /\ u \in users
    /\ users' = users \ {u}
    /\ anon' = anon \ {u}
    /\ walk' = IF walk.at = "idle" THEN walk ELSE [walk EXCEPT !.removed = @ + 1]
    /\ UNCHANGED created

\* How many identities are listed before u.
Before(u) == Cardinality({v \in users : v > u})

Page(n) == {u \in users : Before(u) \div PerPage = n - 1}

-----------------------------------------------------------------------------
(* the walk *)

\* A pass fixes its cutoff: an identity that existed by then may be too old.
\* due: history, the anonymous ones of that age.
Start ==
    /\ walk.at = "idle"
    /\ \E cutoff \in 0..created :
        walk' = [at |-> "reading", page |-> 1, out |-> {}, cutoff |-> cutoff,
                 due |-> {u \in anon : u <= cutoff}, removed |-> 0]
    /\ UNCHANGED <<created, users, anon>>

\* Mutant: the filter on is_anonymous is forgotten.
ReadPageOfAll ==
    /\ walk.at = "reading"
    /\ walk.page <= MaxPages
    /\ LET p == Page(walk.page)
       IN  walk' = [walk EXCEPT !.out = @ \cup p,
                                !.page = @ + 1,
                                !.at = IF Cardinality(p) < PerPage THEN "listed" ELSE @]
    /\ UNCHANGED <<created, users, anon>>

\* Mutant: a page with fewer anonymous ones than it could hold ends the walk.
ReadPageCountingAnonymous ==
    /\ walk.at = "reading"
    /\ walk.page <= MaxPages
    /\ LET p == Page(walk.page) \cap anon
       IN  walk' = [walk EXCEPT !.out = @ \cup p,
                                !.page = @ + 1,
                                !.at = IF Cardinality(p) < PerPage THEN "listed" ELSE @]
    /\ UNCHANGED <<created, users, anon>>

\* The page number advances whether or not this page was the last.
ReadPage ==
    /\ walk.at = "reading"
    /\ walk.page <= MaxPages
    /\ LET p == Page(walk.page)
       IN  walk' = [walk EXCEPT !.out = @ \cup (p \cap anon),
                                !.page = @ + 1,
                                !.at = IF Cardinality(p) < PerPage THEN "listed" ELSE @]
    /\ UNCHANGED <<created, users, anon>>

\* Too many pages, or an error of any page: the pass has no listing at all.
GiveUp ==
    /\ walk.at = "reading"
    /\ walk' = Idle
    /\ UNCHANGED <<created, users, anon>>

\* The reaper has taken its candidates.
Done ==
    /\ walk.at = "listed"
    /\ walk' = Idle
    /\ UNCHANGED <<created, users, anon>>

Next ==
    \/ SignIn
    \/ \E u \in users : Upgrade(u) \/ Delete(u)
    \/ Start \/ ReadPage \/ GiveUp \/ Done

Spec == Init /\ [][Next]_vars

-----------------------------------------------------------------------------

Identity == 1..MaxUsers

\* The listing's identities that are older than the cutoff.
Candidates == {u \in walk.out : u <= walk.cutoff}

Walk ==
    [at : {"reading", "listed"}, page : 1..(MaxPages + 1), cutoff : 0..created,
     out : SUBSET (1..created), due : SUBSET (1..created), removed : Nat]

\* Type invariant: among others, no page after the last allowed one is read.
TypeOK ==
    /\ created \in 0..MaxUsers
    /\ users \subseteq 1..created /\ anon \subseteq users
    /\ walk \in Walk \cup {Idle}

\* A complete listing misses no more of those it should have found, and that
\* are still there, than were deleted while it was read: sign-ins and upgrades
\* hide nobody, and a quiet pass finds them all.
MissesNoMoreThanRemoved ==
    walk.at = "listed" =>
        Cardinality((walk.due \cap anon) \ Candidates) <= walk.removed

\* The candidates were anonymous and old enough when the pass began, however
\* late the page was read: GuestLifecycle's listing in one answer is no stronger.
CandidatesWereDue == walk.at # "idle" => Candidates \subseteq walk.due

=============================================================================
