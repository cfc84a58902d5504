------------------------------- MODULE Database -------------------------------
(***************************************************************************)
(* The repositories of users, flashcards and quiz attempts, and the        *)
(* reaper's: each method is one statement in a transaction that inScope    *)
(* opens under the requester's identity.  A method may be given any id, as *)
(* the ones in a URL are anybody's.                                        *)
(***************************************************************************)
EXTENDS Queries

CONSTANTS
  Subs,         \* identities (the sub of a token); also their placeholder address
  Emails,       \* addresses of registered accounts
  CardIds,      \* flashcards, each created once
  MaxUsers,     \* users rows ever created
  MaxAttempts   \* attempts ever recorded

\* An address is not empty (sign-up and the guest's placeholder make sure of it).
ASSUME DatabaseAssumption ==
  /\ MaxUsers \in Nat /\ MaxAttempts \in Nat
  /\ "" \notin Subs \cup Emails

VARIABLES
  db,           \* the tables (Queries)
  drawn         \* the ids of flashcards and attempts already used

dbvars == <<db, drawn>>

UserIds == 1 .. MaxUsers
AttemptIds == 1 .. MaxAttempts

\* Mutant: the claims are set and the connection's role is kept.
ScopeWithoutRole(sub) == [role |-> "connection", sub |-> sub]

\* inScope with a request's claims.
inScope(sub) == [role |-> "authenticated", sub |-> sub]
\* The reaper's transactions, which carry no claims.
service_role == [role |-> "service_role", sub |-> "none"]

-----------------------------------------------------------------------------
(* What each repository can do under an identity: the outcomes of its methods. *)

UserRepo(as) ==
  {CreateUser(db, as, auth, email, anon) :
      auth \in Subs, email \in Subs \cup Emails, anon \in BOOLEAN}
    \cup {UpdateUser(db, as, id, email) : id \in UserIds, email \in Emails}
    \cup {SetUserIsAnonymous(db, as, id, FALSE) : id \in UserIds}
    \cup {SetUserFirstRunComplete(db, as, id, TRUE) : id \in UserIds}
    \cup UNION {{UpdateUserName(db, as, id), SetUserLastLogin(db, as, id),
                 DeleteUser(db, as, id)} : id \in UserIds}

FlashcardRepo(as) ==
  {CreateFlashcard(db, as, card, user) : card \in CardIds \ drawn, user \in UserIds}
    \cup {SetFlashcardKnown(db, as, card, known) : card \in CardIds, known \in BOOLEAN}
    \cup {DeleteFlashcard(db, as, card, user) : card \in CardIds, user \in UserIds}

QuizRepo(as) ==
  {CreateQuizAttempt(db, as, attempt, user, correct) :
      attempt \in {n \in AttemptIds \ drawn : \A k \in AttemptIds : k < n => k \in drawn},
      user \in UserIds, correct \in BOOLEAN}

\* Everything a read returns, by its arguments.
Reads(d, as) ==
  [user     |-> [id \in UserIds |-> GetUser(d, as, id).rows],
   byEmail  |-> [email \in Emails |-> GetUserByEmail(d, as, email).rows],
   byAuth   |-> [auth \in Subs |-> GetUserByAuthID(d, as, auth).rows],
   page     |-> ListUsers(d, as, 1, 0).rows,
   card     |-> [card \in CardIds |-> GetFlashcard(d, as, card).rows],
   cards    |-> [user \in UserIds |-> ListFlashcardsByUser(d, as, user).rows],
   attempts |-> [user \in UserIds |-> ListQuizAttemptsByUser(d, as, user, 1, 0).rows],
   counts   |-> [user \in UserIds |-> <<CountAttemptsByUser(d, as, user),
                                        CountCorrectAttemptsByUser(d, as, user)>>]]

Ids(d) == {c.id : c \in d.cards} \cup {t.id : t \in d.attempts}

-----------------------------------------------------------------------------
Call(outcomes) ==
  \E out \in outcomes :
    /\ out.ok
    /\ out.db.next <= MaxUsers + 1
    /\ db' = out.db
    /\ drawn' = drawn \cup Ids(out.db)

Users == \E sub \in Subs : Call(UserRepo(inScope(sub)))
Flashcards == \E sub \in Subs : Call(FlashcardRepo(inScope(sub)))
Quiz == \E sub \in Subs : Call(QuizRepo(inScope(sub)))
Reap == \E cutoff \in 2 .. MaxUsers + 1 : Call({DeleteExpiredAnonymousUsers(db, service_role, cutoff)})

DBInit ==
  /\ db = [users |-> {}, cards |-> {}, attempts |-> {}, next |-> 1]
  /\ drawn = {}
DBNext == Users \/ Flashcards \/ Quiz \/ Reap
DBSpec == DBInit /\ [][DBNext]_dbvars

-----------------------------------------------------------------------------
(* Properties *)

\* The rows of an identity, and what is left of the database without them.
Mine(d, sub) ==
  LET mine == {u.id : u \in {v \in d.users : v.auth = sub}} IN
  [d EXCEPT !.users = {u \in @ : u.id \in mine},
            !.cards = {c \in @ : c.user \in mine},
            !.attempts = {t \in @ : t.user \in mine}]
Others(d, sub) == [users    |-> d.users \ Mine(d, sub).users,
                   cards    |-> d.cards \ Mine(d, sub).cards,
                   attempts |-> d.attempts \ Mine(d, sub).attempts]

\* To an identity the rows of all others might as well not be there: whatever ids
\* it passes, every read gives what it would give on a database of its own rows
\* only, and no write changes a row of another, not even SetKnown, whose statement
\* names no owner.
OwnRowsOnly ==
  \A sub \in Subs :
    LET as == inScope(sub) IN
    /\ Reads(db, as) = Reads(Mine(db, sub), as)
    /\ \A out \in UserRepo(as) \cup FlashcardRepo(as) \cup QuizRepo(as) :
         Others(out.db, sub) = Others(db, sub)

\* No call blanks the address of an account (a parameter that is a Go string is
\* never NULL, so COALESCE does not keep the column).
AddressKept == \A u \in db.users : u.email # ""
=============================================================================
