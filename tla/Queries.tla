------------------------------- MODULE Queries -------------------------------
(***************************************************************************)
(* The tables, their row level security policies and the SQL statements    *)
(* (sqlc's functions) on users, flashcards and quiz attempts, as functions *)
(* of a database and of the identity a transaction runs under.             *)
(*                                                                         *)
(* db.users are rows [id, auth, email, anon, active, done] (done is        *)
(* first_run_complete), db.cards rows [id, user, known], db.attempts rows  *)
(* [id, user, correct], db.next the id the next user gets.  Columns that   *)
(* only carry text or timestamps are left out: a statement that writes     *)
(* nothing else leaves the row as it is.  Ids are never reused.            *)
(***************************************************************************)
EXTENDS Naturals, FiniteSets

\* What a statement returns: it fails, or it gives rows and a new database.
Failed(db) == [ok |-> FALSE, rows |-> {}, db |-> db]
Rows(S, db) == [ok |-> TRUE, rows |-> S, db |-> db]

-----------------------------------------------------------------------------
(* Policies.  A transaction runs as a role with the claims' subject: the       *)
(* connection's role and service_role bypass the policies, authenticated is    *)
(* held to them.                                                               *)

Bypasses(as) == as.role # "authenticated"
users_self_access(as, u) == Bypasses(as) \/ u.auth = as.sub
self_access(db, as, user) ==
  Bypasses(as) \/ \E u \in db.users : u.id = user /\ users_self_access(as, u)

VisibleUsers(db, as) == {u \in db.users : users_self_access(as, u)}
VisibleCards(db, as) == {c \in db.cards : self_access(db, as, c.user)}
VisibleAttempts(db, as) == {t \in db.attempts : self_access(db, as, t.user)}

-----------------------------------------------------------------------------
(* users *)

GetUser(db, as, id) == Rows({u \in VisibleUsers(db, as) : u.id = id}, db)
GetUserByEmail(db, as, email) == Rows({u \in VisibleUsers(db, as) : u.email = email}, db)
GetUserByAuthID(db, as, auth) == Rows({u \in VisibleUsers(db, as) : u.auth = auth}, db)
\* One page; the newest users have the highest ids.
ListUsers(db, as, limit, offset) ==
  LET all == VisibleUsers(db, as)
      before(u) == Cardinality({v \in all : v.id > u.id}) IN
  Rows({u \in all : before(u) \in offset .. offset + limit - 1}, db)

CreateUser(db, as, auth, email, anon) ==
  LET row == [id |-> db.next, auth |-> auth, email |-> email, anon |-> anon,
              active |-> TRUE, done |-> FALSE] IN
  IF (\E u \in db.users : u.auth = auth \/ u.email = email) \/ ~users_self_access(as, row)
  THEN Failed(db)
  ELSE Rows({row}, [db EXCEPT !.users = @ \cup {row}, !.next = @ + 1])

\* UPDATE users SET ... WHERE id = $1 RETURNING *: Change(u) is the new row.
UpdateWhere(db, as, id, Change(_)) ==
  LET old == {u \in VisibleUsers(db, as) : u.id = id}
      new == {Change(u) : u \in old} IN
  Rows(new, [db EXCEPT !.users = (@ \ old) \cup new])

\* The email parameter is a Go string: never NULL, so always written.
UpdateUser(db, as, id, email) ==
  LET Change(u) == [u EXCEPT !.email = email] IN
  IF \E u \in db.users : u.id # id /\ u.email = email /\ GetUser(db, as, id).rows # {}
  THEN Failed(db)
  ELSE UpdateWhere(db, as, id, Change)
UpdateUserName(db, as, id) == LET Same(u) == u IN UpdateWhere(db, as, id, Same)

\* Mutant: the login time goes through UpdateUser, without an email.
SetLoginWithUpdate(db, as, id) == UpdateUser(db, as, id, "")

SetUserLastLogin(db, as, id) == LET Same(u) == u IN UpdateWhere(db, as, id, Same)
SetUserIsAnonymous(db, as, id, anon) ==
  LET Change(u) == [u EXCEPT !.anon = anon] IN UpdateWhere(db, as, id, Change)
SetUserFirstRunComplete(db, as, id, done) ==
  LET Change(u) == [u EXCEPT !.done = done] IN UpdateWhere(db, as, id, Change)
DeleteUser(db, as, id) ==
  LET Change(u) == [u EXCEPT !.active = FALSE] IN UpdateWhere(db, as, id, Change)

\* Rows that go take what references them along (ON DELETE CASCADE).
Without(db, gone) ==
  LET ids == {u.id : u \in gone} IN
  [db EXCEPT !.users = @ \ gone,
             !.cards = {c \in @ : c.user \notin ids},
             !.attempts = {t \in @ : t.user \notin ids}]
\* Users are created in the order of their ids: the cutoff is the first that stays.
DeleteExpiredAnonymousUsers(db, as, cutoff) ==
  LET gone == {u \in VisibleUsers(db, as) : u.anon /\ u.id < cutoff} IN
  Rows(gone, Without(db, gone))

-----------------------------------------------------------------------------
(* flashcards *)

CreateFlashcard(db, as, card, user) ==
  LET row == [id |-> card, user |-> user, known |-> FALSE] IN
  IF user \notin {u.id : u \in db.users} \/ ~self_access(db, as, user)
  THEN Failed(db)
  ELSE Rows({row}, [db EXCEPT !.cards = @ \cup {row}])
GetFlashcard(db, as, card) == Rows({c \in VisibleCards(db, as) : c.id = card}, db)
ListFlashcardsByUser(db, as, user) == Rows({c \in VisibleCards(db, as) : c.user = user}, db)
\* The statement names no owner: the policy does.
SetFlashcardKnown(db, as, card, known) ==
  LET old == {c \in VisibleCards(db, as) : c.id = card}
      new == {[c EXCEPT !.known = known] : c \in old} IN
  Rows(new, [db EXCEPT !.cards = (@ \ old) \cup new])
DeleteFlashcard(db, as, card, user) ==
  LET gone == {c \in VisibleCards(db, as) : c.id = card /\ c.user = user} IN
  Rows({}, [db EXCEPT !.cards = @ \ gone])

-----------------------------------------------------------------------------
(* quiz_attempts *)

CreateQuizAttempt(db, as, attempt, user, correct) ==
  LET row == [id |-> attempt, user |-> user, correct |-> correct] IN
  IF user \notin {u.id : u \in db.users} \/ ~self_access(db, as, user)
  THEN Failed(db)
  ELSE Rows({row}, [db EXCEPT !.attempts = @ \cup {row}])
ListQuizAttemptsByUser(db, as, user, limit, offset) ==
  LET all == {t \in VisibleAttempts(db, as) : t.user = user}
      before(t) == Cardinality({s \in all : s.id > t.id}) IN
  Rows({t \in all : before(t) \in offset .. offset + limit - 1}, db)
CountAttemptsByUser(db, as, user) ==
  Cardinality({t \in VisibleAttempts(db, as) : t.user = user})
CountCorrectAttemptsByUser(db, as, user) ==
  Cardinality({t \in VisibleAttempts(db, as) : t.user = user /\ t.correct})
=============================================================================
