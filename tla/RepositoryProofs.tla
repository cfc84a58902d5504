-------------------------- MODULE RepositoryProofs --------------------------
(***************************************************************************)
(* What the repositories promise, for any identities, rows and numbers of  *)
(* transactions.                                                           *)
(*                                                                         *)
(* First, one identity's calls and the rows of all others.  A statement is *)
(* a function of the database, so that what it does is said of databases,  *)
(* and only Isolation and AddressesStay speak of behaviours.               *)
(*                                                                         *)
(* Then, one primary organisation per user.  What makes SetPrimary right   *)
(* without a lock on the user: whichever of two transactions takes its     *)
(* second snapshot last sees the membership the other one writes, so it    *)
(* must write that row too; it then waits for the other to end (Crossing). *)
(* Until it commits, each holds or still has to write every row that is    *)
(* primary (Covers).                                                       *)
(***************************************************************************)
EXTENDS Database, Organisations, TLAPS

UserRow == [id : Nat, auth : Subs, email : Subs \cup Emails,
            anon : BOOLEAN, active : BOOLEAN, done : BOOLEAN]
CardRow == [id : CardIds, user : Nat, known : BOOLEAN]
AttemptRow == [id : Nat, user : Nat, correct : BOOLEAN]
DB == [users : SUBSET UserRow, cards : SUBSET CardRow, attempts : SUBSET AttemptRow,
       next : Nat]

\* No row has or references an id that is still to be given out: a new user finds no
\* card or attempt that would be theirs.
Referential(d) ==
  /\ d \in DB
  /\ \A u \in d.users : u.id < d.next
  /\ \A c \in d.cards : c.user < d.next
  /\ \A t \in d.attempts : t.user < d.next

MyIds(d, sub) == {u.id : u \in {v \in d.users : v.auth = sub}}

\* A call of sub's takes database d to e without a row of another being touched.
Isolated(d, e, sub) == Referential(e) /\ Others(e, sub) = Others(d, sub)

-----------------------------------------------------------------------------
(* What an identity sees *)

LEMMA MineFields ==
  ASSUME NEW d \in DB, NEW sub
  PROVE  /\ Mine(d, sub).users = {u \in d.users : u.id \in MyIds(d, sub)}
         /\ Mine(d, sub).cards = {c \in d.cards : c.user \in MyIds(d, sub)}
         /\ Mine(d, sub).attempts = {t \in d.attempts : t.user \in MyIds(d, sub)}
         /\ Mine(d, sub) \in DB
BY DEF Mine, MyIds, DB

\* Others in terms of ids.
LEMMA SameOthers ==
  ASSUME NEW d \in DB, NEW e \in DB, NEW sub,
         {u \in d.users : u.id \notin MyIds(d, sub)} = {u \in e.users : u.id \notin MyIds(e, sub)},
         {c \in d.cards : c.user \notin MyIds(d, sub)} = {c \in e.cards : c.user \notin MyIds(e, sub)},
         {t \in d.attempts : t.user \notin MyIds(d, sub)} = {t \in e.attempts : t.user \notin MyIds(e, sub)}
  PROVE  Others(e, sub) = Others(d, sub)
<1>1. /\ Others(d, sub).users = {u \in d.users : u.id \notin MyIds(d, sub)}
      /\ Others(d, sub).cards = {c \in d.cards : c.user \notin MyIds(d, sub)}
      /\ Others(d, sub).attempts = {t \in d.attempts : t.user \notin MyIds(d, sub)}
  BY MineFields DEF Others
<1>2. /\ Others(e, sub).users = {u \in e.users : u.id \notin MyIds(e, sub)}
      /\ Others(e, sub).cards = {c \in e.cards : c.user \notin MyIds(e, sub)}
      /\ Others(e, sub).attempts = {t \in e.attempts : t.user \notin MyIds(e, sub)}
  BY MineFields DEF Others
<1> QED
  BY <1>1, <1>2 DEF Others

\* Under sub's identity the policies show sub's users row and what belongs to it.
LEMMA Visible ==
  ASSUME NEW d \in DB, NEW sub
  PROVE  /\ VisibleUsers(d, inScope(sub)) = {u \in d.users : u.auth = sub}
         /\ \A user : self_access(d, inScope(sub), user) <=> user \in MyIds(d, sub)
         /\ VisibleCards(d, inScope(sub)) = {c \in d.cards : c.user \in MyIds(d, sub)}
         /\ VisibleAttempts(d, inScope(sub)) = {t \in d.attempts : t.user \in MyIds(d, sub)}
<1>1. ~Bypasses(inScope(sub)) /\ inScope(sub).sub = sub
  BY DEF Bypasses, inScope
<1>2. \A u : users_self_access(inScope(sub), u) <=> u.auth = sub
  BY <1>1 DEF users_self_access
<1>3. \A user : self_access(d, inScope(sub), user) <=> user \in MyIds(d, sub)
  BY <1>1, <1>2 DEF self_access, MyIds
<1> QED
  BY <1>2, <1>3 DEF VisibleUsers, VisibleCards, VisibleAttempts

\* So it sees the same in the whole database as in one of its own rows.
LEMMA SeesOwn ==
  ASSUME NEW d \in DB, NEW sub
  PROVE  /\ VisibleUsers(Mine(d, sub), inScope(sub)) = VisibleUsers(d, inScope(sub))
         /\ VisibleCards(Mine(d, sub), inScope(sub)) = VisibleCards(d, inScope(sub))
         /\ VisibleAttempts(Mine(d, sub), inScope(sub)) = VisibleAttempts(d, inScope(sub))
<1>1. MyIds(Mine(d, sub), sub) = MyIds(d, sub)
  BY MineFields DEF MyIds
<1>2. {u \in Mine(d, sub).users : u.auth = sub} = {u \in d.users : u.auth = sub}
  BY MineFields DEF MyIds
<1> DEFINE m == Mine(d, sub)
<1>3. m \in DB /\ m.users = {u \in d.users : u.id \in MyIds(d, sub)}
      /\ m.cards = {c \in d.cards : c.user \in MyIds(d, sub)}
      /\ m.attempts = {t \in d.attempts : t.user \in MyIds(d, sub)}
  BY MineFields
<1> HIDE DEF m
<1>4. /\ VisibleUsers(m, inScope(sub)) = {u \in m.users : u.auth = sub}
      /\ VisibleCards(m, inScope(sub)) = {c \in m.cards : c.user \in MyIds(m, sub)}
      /\ VisibleAttempts(m, inScope(sub)) = {t \in m.attempts : t.user \in MyIds(m, sub)}
  BY <1>3, Visible
<1>5. MyIds(m, sub) = MyIds(d, sub) /\ {u \in m.users : u.auth = sub} = {u \in d.users : u.auth = sub}
  BY <1>1, <1>2 DEF m
<1>6. /\ VisibleUsers(m, inScope(sub)) = VisibleUsers(d, inScope(sub))
      /\ VisibleCards(m, inScope(sub)) = VisibleCards(d, inScope(sub))
      /\ VisibleAttempts(m, inScope(sub)) = VisibleAttempts(d, inScope(sub))
  BY <1>3, <1>4, <1>5, Visible
<1> QED
  BY <1>6 DEF m

LEMMA ReadsOwn ==
  ASSUME NEW d \in DB, NEW sub
  PROVE  Reads(d, inScope(sub)) = Reads(Mine(d, sub), inScope(sub))
BY SeesOwn DEF Reads, GetUser, GetUserByEmail, GetUserByAuthID, ListUsers, GetFlashcard,
   ListFlashcardsByUser, ListQuizAttemptsByUser, CountAttemptsByUser,
   CountCorrectAttemptsByUser, Rows

-----------------------------------------------------------------------------
(* The three tables *)

\* Rows of sub's are replaced by rows of sub's with the same ids.
LEMMA UsersChange ==
  ASSUME NEW d, Referential(d), NEW sub, NEW old, NEW new,
         old \subseteq {u \in d.users : u.auth = sub},
         new \subseteq UserRow,
         \A n \in new : n.auth = sub /\ \E u \in old : n.id = u.id,
         \A u \in old : \E n \in new : n.id = u.id
  PROVE  Isolated(d, [d EXCEPT !.users = (@ \ old) \cup new], sub)
<1> DEFINE e == [d EXCEPT !.users = (@ \ old) \cup new]
<1>1. d \in DB /\ e \in DB /\ e.users = (d.users \ old) \cup new /\ e.cards = d.cards
      /\ e.attempts = d.attempts /\ e.next = d.next
  BY DEF Referential, DB
<1> HIDE DEF e
<1>2. MyIds(e, sub) = MyIds(d, sub)
  BY <1>1 DEF MyIds
<1>3. \A u \in old \cup new : u.id \in MyIds(d, sub)
  BY <1>1 DEF MyIds
<1>4. Referential(e)
  BY <1>1 DEF Referential
<1>5. {u \in d.users : u.id \notin MyIds(d, sub)} = {u \in e.users : u.id \notin MyIds(e, sub)}
  BY <1>1, <1>2, <1>3
<1>6. Others(e, sub) = Others(d, sub)
  BY <1>1, <1>2, <1>5, SameOthers
<1> QED
  BY <1>4, <1>6 DEF Isolated, e

\* Cards of sub's users row go, and others of it come.
LEMMA CardsChange ==
  ASSUME NEW d, Referential(d), NEW sub, NEW old, NEW new,
         new \subseteq CardRow, \A c \in old \cup new : c.user \in MyIds(d, sub)
  PROVE  Isolated(d, [d EXCEPT !.cards = (@ \ old) \cup new], sub)
<1> DEFINE e == [d EXCEPT !.cards = (@ \ old) \cup new]
<1>1. d \in DB /\ e \in DB /\ e.cards = (d.cards \ old) \cup new /\ e.users = d.users
      /\ e.attempts = d.attempts /\ e.next = d.next
  BY DEF Referential, DB
<1> HIDE DEF e
<1>2. MyIds(e, sub) = MyIds(d, sub)
  BY <1>1 DEF MyIds
<1>3. Referential(e)
  BY <1>1 DEF Referential, MyIds
<1>4. {c \in d.cards : c.user \notin MyIds(d, sub)} = {c \in e.cards : c.user \notin MyIds(e, sub)}
  BY <1>1, <1>2
<1>5. Others(e, sub) = Others(d, sub)
  BY <1>1, <1>2, <1>4, SameOthers
<1> QED
  BY <1>3, <1>5 DEF Isolated, e

LEMMA AttemptAdded ==
  ASSUME NEW d, Referential(d), NEW sub, NEW row \in AttemptRow, row.user \in MyIds(d, sub)
  PROVE  Isolated(d, [d EXCEPT !.attempts = @ \cup {row}], sub)
<1> DEFINE e == [d EXCEPT !.attempts = @ \cup {row}]
<1>1. d \in DB /\ e \in DB /\ e.attempts = d.attempts \cup {row} /\ e.users = d.users
      /\ e.cards = d.cards /\ e.next = d.next
  BY DEF Referential, DB
<1> HIDE DEF e
<1>2. MyIds(e, sub) = MyIds(d, sub)
  BY <1>1 DEF MyIds
<1>3. Referential(e)
  BY <1>1 DEF Referential, MyIds
<1>4. Others(e, sub) = Others(d, sub)
  BY <1>1, <1>2, SameOthers
<1> QED
  BY <1>3, <1>4 DEF Isolated, e

\* A users row of sub's comes: no card or attempt has waited for its id.
LEMMA UserAdded ==
  ASSUME NEW d, Referential(d), NEW sub, NEW row \in UserRow, row.auth = sub, row.id = d.next
  PROVE  Isolated(d, [d EXCEPT !.users = @ \cup {row}, !.next = @ + 1], sub)
<1> DEFINE e == [d EXCEPT !.users = @ \cup {row}, !.next = @ + 1]
<1>1. d \in DB /\ e \in DB /\ e.users = d.users \cup {row} /\ e.cards = d.cards
      /\ e.attempts = d.attempts /\ e.next = d.next + 1 /\ d.next \in Nat
  <2> DEFINE us == d.users \cup {row}
             next == d.next + 1
  <2>1. d \in DB /\ us \in SUBSET UserRow /\ next \in Nat /\ d.next \in Nat
    BY DEF Referential, DB
  <2>2. e = [d EXCEPT !.users = us, !.next = next]
    OBVIOUS
  <2> HIDE DEF us, next, e
  <2>3. e \in DB /\ e.users = us /\ e.cards = d.cards /\ e.attempts = d.attempts /\ e.next = next
    BY <2>1, <2>2 DEF DB
  <2> QED
    BY <2>1, <2>3 DEF us, next
<1> HIDE DEF e
<1>2. MyIds(e, sub) = MyIds(d, sub) \cup {d.next}
  BY <1>1 DEF MyIds
<1>3. /\ \A u \in d.users : u.id \in Nat /\ u.id < d.next
      /\ \A c \in d.cards : c.user \in Nat /\ c.user < d.next
      /\ \A t \in d.attempts : t.user \in Nat /\ t.user < d.next
  BY DEF Referential, DB, UserRow, CardRow, AttemptRow
<1>4. Referential(e)
  BY <1>1, <1>3 DEF Referential
<1>5. /\ {u \in d.users : u.id \notin MyIds(d, sub)} = {u \in e.users : u.id \notin MyIds(e, sub)}
      /\ {c \in d.cards : c.user \notin MyIds(d, sub)} = {c \in e.cards : c.user \notin MyIds(e, sub)}
      /\ {t \in d.attempts : t.user \notin MyIds(d, sub)} = {t \in e.attempts : t.user \notin MyIds(e, sub)}
  BY <1>1, <1>2, <1>3
<1>6. Others(e, sub) = Others(d, sub)
  BY <1>1, <1>5, SameOthers
<1> QED
  BY <1>4, <1>6 DEF Isolated, e

LEMMA Nothing == ASSUME NEW d, Referential(d), NEW sub PROVE Isolated(d, d, sub)
BY DEF Isolated

-----------------------------------------------------------------------------
(* The statements *)

\* An UPDATE of the row with an id leaves the columns the policies read.
LEMMA UserStatements ==
  ASSUME NEW d, Referential(d), NEW sub \in Subs, NEW id \in UserIds
  PROVE  /\ \A email \in Emails : Isolated(d, UpdateUser(d, inScope(sub), id, email).db, sub)
         /\ Isolated(d, UpdateUserName(d, inScope(sub), id).db, sub)
         /\ Isolated(d, SetUserLastLogin(d, inScope(sub), id).db, sub)
         /\ \A anon \in BOOLEAN : Isolated(d, SetUserIsAnonymous(d, inScope(sub), id, anon).db, sub)
         /\ \A done \in BOOLEAN :
              Isolated(d, SetUserFirstRunComplete(d, inScope(sub), id, done).db, sub)
         /\ Isolated(d, DeleteUser(d, inScope(sub), id).db, sub)
<1> DEFINE old == {u \in VisibleUsers(d, inScope(sub)) : u.id = id}
           After(new) == [d EXCEPT !.users = (@ \ old) \cup new]
<1>1. old = {u \in d.users : u.auth = sub /\ u.id = id}
  BY Visible DEF Referential
<1>2. \A u \in old : u \in UserRow
  BY <1>1 DEF Referential, DB
<1>3. ASSUME NEW new, new \subseteq UserRow,
             \A n \in new : \E u \in old : n.id = u.id /\ n.auth = u.auth,
             \A u \in old : \E n \in new : n.id = u.id
      PROVE  Isolated(d, After(new), sub)
  <2>1. /\ old \subseteq {u \in d.users : u.auth = sub}
        /\ \A n \in new : n.auth = sub /\ \E u \in old : n.id = u.id
        /\ \A u \in old : \E n \in new : n.id = u.id
    BY <1>1, <1>3
  <2> HIDE DEF old
  <2> QED
    BY <1>3, <2>1, UsersChange
<1> HIDE DEF old
<1>4. ASSUME NEW email \in Emails
      PROVE  Isolated(d, UpdateUser(d, inScope(sub), id, email).db, sub)
  <2> DEFINE Set(u) == [u EXCEPT !.email = email]
             new == {Set(u) : u \in old}
  <2>0. \A u \in old : Set(u) \in UserRow /\ Set(u).id = u.id /\ Set(u).auth = u.auth
    BY <1>2 DEF UserRow
  <2>1. /\ new \subseteq UserRow
        /\ \A n \in new : \E u \in old : n.id = u.id /\ n.auth = u.auth
        /\ \A u \in old : \E n \in new : n.id = u.id
    <3> HIDE DEF Set
    <3> QED
      BY <2>0
  <2>2. UpdateUser(d, inScope(sub), id, email).db \in {d, After(new)}
    BY DEF UpdateUser, UpdateWhere, Failed, Rows, old
  <2> HIDE DEF new, After
  <2>3. Isolated(d, After(new), sub)
    BY <1>3, <2>1
  <2> QED
    BY <2>2, <2>3, Nothing
<1>5. /\ Isolated(d, UpdateUserName(d, inScope(sub), id).db, sub)
      /\ Isolated(d, SetUserLastLogin(d, inScope(sub), id).db, sub)
  <2> DEFINE new == {u : u \in old}
  <2>1. /\ new \subseteq UserRow
        /\ \A n \in new : \E u \in old : n.id = u.id /\ n.auth = u.auth
        /\ \A u \in old : \E n \in new : n.id = u.id
    BY <1>2
  <2>2. /\ UpdateUserName(d, inScope(sub), id).db = After(new)
        /\ SetUserLastLogin(d, inScope(sub), id).db = After(new)
    BY DEF UpdateUserName, SetUserLastLogin, UpdateWhere, Rows, old
  <2> HIDE DEF new, After
  <2>3. Isolated(d, After(new), sub)
    BY <1>3, <2>1
  <2> QED
    BY <2>2, <2>3
<1>6. ASSUME NEW anon \in BOOLEAN
      PROVE  Isolated(d, SetUserIsAnonymous(d, inScope(sub), id, anon).db, sub)
  <2> DEFINE Set(u) == [u EXCEPT !.anon = anon]
             new == {Set(u) : u \in old}
  <2>0. \A u \in old : Set(u) \in UserRow /\ Set(u).id = u.id /\ Set(u).auth = u.auth
    BY <1>2 DEF UserRow
  <2>1. /\ new \subseteq UserRow
        /\ \A n \in new : \E u \in old : n.id = u.id /\ n.auth = u.auth
        /\ \A u \in old : \E n \in new : n.id = u.id
    <3> HIDE DEF Set
    <3> QED
      BY <2>0
  <2>2. SetUserIsAnonymous(d, inScope(sub), id, anon).db = After(new)
    BY DEF SetUserIsAnonymous, UpdateWhere, Rows, old
  <2> HIDE DEF new, After
  <2>3. Isolated(d, After(new), sub)
    BY <1>3, <2>1
  <2> QED
    BY <2>2, <2>3
<1>7. ASSUME NEW done \in BOOLEAN
      PROVE  Isolated(d, SetUserFirstRunComplete(d, inScope(sub), id, done).db, sub)
  <2> DEFINE Set(u) == [u EXCEPT !.done = done]
             new == {Set(u) : u \in old}
  <2>0. \A u \in old : Set(u) \in UserRow /\ Set(u).id = u.id /\ Set(u).auth = u.auth
    BY <1>2 DEF UserRow
  <2>1. /\ new \subseteq UserRow
        /\ \A n \in new : \E u \in old : n.id = u.id /\ n.auth = u.auth
        /\ \A u \in old : \E n \in new : n.id = u.id
    <3> HIDE DEF Set
    <3> QED
      BY <2>0
  <2>2. SetUserFirstRunComplete(d, inScope(sub), id, done).db = After(new)
    BY DEF SetUserFirstRunComplete, UpdateWhere, Rows, old
  <2> HIDE DEF new, After
  <2>3. Isolated(d, After(new), sub)
    BY <1>3, <2>1
  <2> QED
    BY <2>2, <2>3
<1>8. Isolated(d, DeleteUser(d, inScope(sub), id).db, sub)
  <2> DEFINE Set(u) == [u EXCEPT !.active = FALSE]
             new == {Set(u) : u \in old}
  <2>0. \A u \in old : Set(u) \in UserRow /\ Set(u).id = u.id /\ Set(u).auth = u.auth
    BY <1>2 DEF UserRow
  <2>1. /\ new \subseteq UserRow
        /\ \A n \in new : \E u \in old : n.id = u.id /\ n.auth = u.auth
        /\ \A u \in old : \E n \in new : n.id = u.id
    <3> HIDE DEF Set
    <3> QED
      BY <2>0
  <2>2. DeleteUser(d, inScope(sub), id).db = After(new)
    BY DEF DeleteUser, UpdateWhere, Rows, old
  <2> HIDE DEF new, After
  <2>3. Isolated(d, After(new), sub)
    BY <1>3, <2>1
  <2> QED
    BY <2>2, <2>3
<1> QED
  BY <1>4, <1>5, <1>6, <1>7, <1>8

LEMMA CreateUserStatement ==
  ASSUME NEW d, Referential(d), NEW sub \in Subs,
         NEW auth \in Subs, NEW email \in Subs \cup Emails, NEW anon \in BOOLEAN
  PROVE  Isolated(d, CreateUser(d, inScope(sub), auth, email, anon).db, sub)
<1> DEFINE row == [id |-> d.next, auth |-> auth, email |-> email, anon |-> anon,
                   active |-> TRUE, done |-> FALSE]
           e == [d EXCEPT !.users = @ \cup {row}, !.next = @ + 1]
<1>1. d.next \in Nat
  BY DEF Referential, DB
<1>2. row \in UserRow /\ row.auth = auth /\ row.id = d.next
  BY <1>1 DEF UserRow
<1>3. users_self_access(inScope(sub), row) <=> row.auth = sub
  BY DEF users_self_access, Bypasses, inScope
<1>4. \/ CreateUser(d, inScope(sub), auth, email, anon).db = d
      \/ users_self_access(inScope(sub), row) /\ CreateUser(d, inScope(sub), auth, email, anon).db = e
  BY DEF CreateUser, Failed, Rows
<1> HIDE DEF row
<1>5. row.auth = sub => Isolated(d, e, sub)
  BY <1>2, UserAdded
<1> HIDE DEF e
<1> QED
  BY <1>3, <1>4, <1>5, Nothing

LEMMA CardStatements ==
  ASSUME NEW d, Referential(d), NEW sub \in Subs, NEW card \in CardIds
  PROVE  /\ \A user \in UserIds :
              /\ Isolated(d, CreateFlashcard(d, inScope(sub), card, user).db, sub)
              /\ Isolated(d, DeleteFlashcard(d, inScope(sub), card, user).db, sub)
         /\ \A known \in BOOLEAN :
              Isolated(d, SetFlashcardKnown(d, inScope(sub), card, known).db, sub)
<1> DEFINE After(old, new) == [d EXCEPT !.cards = (@ \ old) \cup new]
<1>d. d \in DB /\ d = [d EXCEPT !.cards = d.cards]
  BY DEF Referential, DB
<1>1. ASSUME NEW user \in UserIds
      PROVE  Isolated(d, CreateFlashcard(d, inScope(sub), card, user).db, sub)
  <2> DEFINE row == [id |-> card, user |-> user, known |-> FALSE]
  <2>1. row \in CardRow /\ row.user = user
    BY DEF CardRow, UserIds
  <2>2. \/ CreateFlashcard(d, inScope(sub), card, user).db = d
        \/ /\ self_access(d, inScope(sub), user)
           /\ CreateFlashcard(d, inScope(sub), card, user).db = [d EXCEPT !.cards = @ \cup {row}]
    BY DEF CreateFlashcard, Failed, Rows
  <2> HIDE DEF row
  <2>3. self_access(d, inScope(sub), user) => user \in MyIds(d, sub)
    BY <1>d, Visible
  <2>4. user \in MyIds(d, sub) => Isolated(d, After({}, {row}), sub)
    BY <2>1, CardsChange
  <2>5. After({}, {row}) = [d EXCEPT !.cards = @ \cup {row}]
    BY <1>d
  <2> HIDE DEF After
  <2> QED
    BY <2>2, <2>3, <2>4, <2>5, Nothing
<1>2. ASSUME NEW user \in UserIds
      PROVE  Isolated(d, DeleteFlashcard(d, inScope(sub), card, user).db, sub)
  <2> DEFINE gone == {c \in VisibleCards(d, inScope(sub)) : c.id = card /\ c.user = user}
  <2>1. DeleteFlashcard(d, inScope(sub), card, user).db = After(gone, {})
    BY DEF DeleteFlashcard, Rows
  <2>2. \A c \in gone : c.user \in MyIds(d, sub)
    BY <1>d, Visible
  <2> HIDE DEF gone
  <2>3. Isolated(d, After(gone, {}), sub)
    BY <2>2, CardsChange
  <2> QED
    BY <2>1, <2>3
<1>3. ASSUME NEW known \in BOOLEAN
      PROVE  Isolated(d, SetFlashcardKnown(d, inScope(sub), card, known).db, sub)
  <2> DEFINE old == {c \in VisibleCards(d, inScope(sub)) : c.id = card}
             Set(c) == [c EXCEPT !.known = known]
             new == {Set(c) : c \in old}
  <2>1. SetFlashcardKnown(d, inScope(sub), card, known).db = After(old, new)
    BY DEF SetFlashcardKnown, Rows
  <2>2. \A c \in old : c \in CardRow /\ c.user \in MyIds(d, sub)
    BY <1>d, Visible DEF DB
  <2> HIDE DEF old
  <2>3. \A c \in old : Set(c) \in CardRow /\ Set(c).user = c.user
    BY <2>2 DEF CardRow
  <2>4. new \subseteq CardRow /\ \A c \in old \cup new : c.user \in MyIds(d, sub)
    <3> HIDE DEF Set
    <3> QED
      BY <2>2, <2>3
  <2> HIDE DEF new
  <2>5. Isolated(d, After(old, new), sub)
    BY <2>4, CardsChange
  <2> QED
    BY <2>1, <2>5
<1> QED
  BY <1>1, <1>2, <1>3

LEMMA AttemptStatement ==
  ASSUME NEW d, Referential(d), NEW sub \in Subs,
         NEW attempt \in AttemptIds, NEW user \in UserIds, NEW correct \in BOOLEAN
  PROVE  Isolated(d, CreateQuizAttempt(d, inScope(sub), attempt, user, correct).db, sub)
<1> DEFINE row == [id |-> attempt, user |-> user, correct |-> correct]
           e == [d EXCEPT !.attempts = @ \cup {row}]
<1>1. row \in AttemptRow /\ row.user = user
  BY DEF AttemptRow, UserIds, AttemptIds
<1>2. \/ CreateQuizAttempt(d, inScope(sub), attempt, user, correct).db = d
      \/ /\ self_access(d, inScope(sub), user)
         /\ CreateQuizAttempt(d, inScope(sub), attempt, user, correct).db = e
  BY DEF CreateQuizAttempt, Failed, Rows
<1> HIDE DEF row
<1>3. self_access(d, inScope(sub), user) => user \in MyIds(d, sub)
  BY Visible DEF Referential
<1>4. user \in MyIds(d, sub) => Isolated(d, e, sub)
  BY <1>1, AttemptAdded
<1> QED
  BY <1>2, <1>3, <1>4, Nothing

\* Every outcome of every method that a request calls as sub.
LEMMA CallIsolated ==
  ASSUME Referential(db), NEW sub \in Subs,
         NEW out \in UserRepo(inScope(sub)) \cup FlashcardRepo(inScope(sub))
                       \cup QuizRepo(inScope(sub))
  PROVE  Isolated(db, out.db, sub)
<1>1. CASE out \in UserRepo(inScope(sub))
  <2>1. \/ \E auth \in Subs, email \in Subs \cup Emails, anon \in BOOLEAN :
             out = CreateUser(db, inScope(sub), auth, email, anon)
        \/ \E id \in UserIds :
             \/ \E email \in Emails : out = UpdateUser(db, inScope(sub), id, email)
             \/ out = SetUserIsAnonymous(db, inScope(sub), id, FALSE)
             \/ out = SetUserFirstRunComplete(db, inScope(sub), id, TRUE)
             \/ out = UpdateUserName(db, inScope(sub), id)
             \/ out = SetUserLastLogin(db, inScope(sub), id)
             \/ out = DeleteUser(db, inScope(sub), id)
    <3> DEFINE A == {CreateUser(db, inScope(sub), auth, email, anon) :
                       auth \in Subs, email \in Subs \cup Emails, anon \in BOOLEAN}
               B == {UpdateUser(db, inScope(sub), id, email) : id \in UserIds, email \in Emails}
               C == {SetUserIsAnonymous(db, inScope(sub), id, FALSE) : id \in UserIds}
               D == {SetUserFirstRunComplete(db, inScope(sub), id, TRUE) : id \in UserIds}
               E == UNION {{UpdateUserName(db, inScope(sub), id),
                            SetUserLastLogin(db, inScope(sub), id),
                            DeleteUser(db, inScope(sub), id)} : id \in UserIds}
    <3>1. UserRepo(inScope(sub)) = A \cup B \cup C \cup D \cup E
      BY DEF UserRepo
    <3>2. out \in A => \E auth \in Subs, email \in Subs \cup Emails, anon \in BOOLEAN :
                         out = CreateUser(db, inScope(sub), auth, email, anon)
      OBVIOUS
    <3>3. out \in B => \E id \in UserIds : \E email \in Emails :
                         out = UpdateUser(db, inScope(sub), id, email)
      OBVIOUS
    <3>4. out \in C => \E id \in UserIds : out = SetUserIsAnonymous(db, inScope(sub), id, FALSE)
      OBVIOUS
    <3>5. out \in D => \E id \in UserIds : out = SetUserFirstRunComplete(db, inScope(sub), id, TRUE)
      OBVIOUS
    <3>6. out \in E => \E id \in UserIds : \/ out = UpdateUserName(db, inScope(sub), id)
                                           \/ out = SetUserLastLogin(db, inScope(sub), id)
                                           \/ out = DeleteUser(db, inScope(sub), id)
      OBVIOUS
    <3> HIDE DEF A, B, C, D, E
    <3>7. out \in A \cup B \cup C \cup D \cup E
      BY <1>1, <3>1
    <3> QED
      BY <3>2, <3>3, <3>4, <3>5, <3>6, <3>7
  <2> QED
    BY <2>1, CreateUserStatement, UserStatements
<1>2. CASE out \in FlashcardRepo(inScope(sub))
  <2>1. \E card \in CardIds :
          \/ \E user \in UserIds : \/ out = CreateFlashcard(db, inScope(sub), card, user)
                                   \/ out = DeleteFlashcard(db, inScope(sub), card, user)
          \/ \E known \in BOOLEAN : out = SetFlashcardKnown(db, inScope(sub), card, known)
    BY <1>2 DEF FlashcardRepo
  <2> QED
    BY <2>1, CardStatements
<1>3. CASE out \in QuizRepo(inScope(sub))
  <2>1. \E attempt \in AttemptIds, user \in UserIds, correct \in BOOLEAN :
          out = CreateQuizAttempt(db, inScope(sub), attempt, user, correct)
    BY <1>3 DEF QuizRepo
  <2> QED
    BY <2>1, AttemptStatement
<1> QED
  BY <1>1, <1>2, <1>3

-----------------------------------------------------------------------------
(* Behaviours *)

LEMMA ReapKeeps == ASSUME Referential(db), Reap PROVE Referential(db')
<1>1. PICK cutoff \in 2 .. MaxUsers + 1 :
        db' = DeleteExpiredAnonymousUsers(db, service_role, cutoff).db
  BY DEF Reap, Call
<1>2. PICK gone : db' = Without(db, gone)
  BY <1>1 DEF DeleteExpiredAnonymousUsers, Rows
<1> DEFINE ids == {u.id : u \in gone}
<1>3. db' = [db EXCEPT !.users = @ \ gone, !.cards = {c \in @ : c.user \notin ids},
                       !.attempts = {t \in @ : t.user \notin ids}]
  BY <1>2 DEF Without
<1> HIDE DEF ids
<1> QED
  BY <1>3 DEF Referential, DB

LEMMA DatabaseInv == DBSpec => []Referential(db)
<1>1. DBInit => Referential(db)
  BY DEF DBInit, Referential, DB
<1>2. Referential(db) /\ [DBNext]_dbvars => Referential(db)'
  <2> SUFFICES ASSUME Referential(db), [DBNext]_dbvars PROVE Referential(db')
    BY DEF Referential
  <2>1. CASE Users \/ Flashcards \/ Quiz
    <3>1. \E sub \in Subs :
            \E out \in UserRepo(inScope(sub)) \cup FlashcardRepo(inScope(sub))
                         \cup QuizRepo(inScope(sub)) : db' = out.db
      BY <2>1 DEF Users, Flashcards, Quiz, Call
    <3> QED
      BY <3>1, CallIsolated DEF Isolated
  <2>2. CASE Reap
    BY <2>2, ReapKeeps
  <2>3. CASE UNCHANGED dbvars
    BY <2>3 DEF dbvars
  <2> QED
    BY <2>1, <2>2, <2>3 DEF DBNext
<1> QED
  BY <1>1, <1>2, PTL DEF DBSpec

\* Whatever ids a request passes to a repository, it reads what it would read if no other
\* identity had rows, and changes none of theirs, in every database the calls lead to.
THEOREM Isolation == DBSpec => []OwnRowsOnly
<1>1. Referential(db) => OwnRowsOnly
  <2> SUFFICES ASSUME Referential(db), NEW sub \in Subs
               PROVE  /\ Reads(db, inScope(sub)) = Reads(Mine(db, sub), inScope(sub))
                      /\ \A out \in UserRepo(inScope(sub)) \cup FlashcardRepo(inScope(sub))
                                      \cup QuizRepo(inScope(sub)) :
                           Others(out.db, sub) = Others(db, sub)
    BY DEF OwnRowsOnly
  <2>1. db \in DB
    BY DEF Referential
  <2> QED
    BY <2>1, ReadsOwn, CallIsolated DEF Isolated
<1> QED
  BY <1>1, DatabaseInv, PTL

\* No call blanks the address of an account.
THEOREM AddressesStay == DBSpec => []AddressKept
<1>1. Referential(db) => AddressKept
  BY DatabaseAssumption DEF Referential, DB, UserRow, AddressKept
<1> QED
  BY <1>1, DatabaseInv, PTL

-----------------------------------------------------------------------------
(* Organisations: one primary per user. *)


\* t has taken its second snapshot, for user u, and sets a flag.
Setting(t, u) == tx[t].step = "second" /\ tx[t].wrote /\ tx[t].user = u

\* The rows of its user that t clears: written, or still to write.
Swept(t) == tx[t].todo \cup tx[t].cleared

\* No row is locked twice.
Exclusive == \A s, t \in Tx : s # t => Locks(s) \cap Locks(t) = {}

\* What is still to write exists, and the target is not among what is cleared.
Snapshot ==
  \A t \in Tx : tx[t].step # "idle" =>
    /\ \A o \in tx[t].todo : <<tx[t].user, o>> \in member
    /\ tx[t].step = "first" => tx[t].todo = {}
    /\ tx[t].org \notin Swept(t)

Covers ==
  \A t \in Tx, u \in User : Setting(t, u) =>
    \A o \in Org \ {tx[t].org} : <<u, o>> \in primary => o \in Swept(t)

Crossing ==
  \A s, t \in Tx, u \in User : s # t /\ Setting(s, u) /\ Setting(t, u) =>
    tx[s].org \in Swept(t) \/ tx[t].org \in Swept(s)

IInv == TypeOK /\ Exclusive /\ Snapshot /\ Covers /\ Crossing /\ AtMostOnePrimary

-----------------------------------------------------------------------------
(* Facts about one state *)

\* A transaction under way has a user, an organisation and two sets of them.
LEMMA UnderWay ==
  ASSUME TypeOK, NEW t \in Tx, tx[t].step # "idle"
  PROVE  /\ tx[t] \in Running /\ tx[t].step \in {"first", "second"}
         /\ tx[t].user \in User /\ tx[t].org \in Org /\ tx[t].wrote \in BOOLEAN
         /\ tx[t].todo \in SUBSET Org /\ tx[t].cleared \in SUBSET Org
<1>1. tx[t] \in Running \cup {Idle}
  BY DEF TypeOK
<1>2. tx[t] \in Running
  BY <1>1 DEF Idle
<1> QED
  BY <1>2 DEF Running

\* The target is locked from the first statement on.
LEMMA TargetLocked ==
  ASSUME NEW t \in Tx, NEW u \in User, Setting(t, u)
  PROVE  <<u, tx[t].org>> \in Locks(t)
BY DEF Setting, Locks

\* What Locks reads of a transaction, so that equal fields give equal locks.
Held(step, user, org, wrote, cleared) ==
  IF step = "idle" THEN {}
  ELSE {<<user, o>> : o \in cleared \cup (IF wrote THEN {org} ELSE {})}

\* A transaction whose fields but todo stay as they are keeps its locks.
LEMMA SameLocks ==
  ASSUME NEW t \in Tx,
         tx'[t].step = "idle" <=> tx[t].step = "idle", tx'[t].user = tx[t].user,
         tx'[t].org = tx[t].org, tx'[t].wrote = tx[t].wrote, tx'[t].cleared = tx[t].cleared
  PROVE  Locks(t)' = Locks(t)
<1>1. CASE tx[t].step = "idle"
  BY <1>1 DEF Locks
<1>2. CASE tx[t].step # "idle"
  <2>1. Locks(t) = Held("other", tx[t].user, tx[t].org, tx[t].wrote, tx[t].cleared)
    BY <1>2 DEF Locks, Held
  <2>2. Locks(t)' = Held("other", tx'[t].user, tx'[t].org, tx'[t].wrote, tx'[t].cleared)
    BY <1>2 DEF Locks, Held
  <2> QED
    BY <2>1, <2>2
<1> QED
  BY <1>1, <1>2

-----------------------------------------------------------------------------
(* Steps *)

LEMMA InitIInv == Init => IInv
<1> SUFFICES ASSUME Init PROVE IInv
  OBVIOUS
<1>1. \A t \in Tx : tx[t] = Idle /\ tx[t].step = "idle" /\ Locks(t) = {}
  BY DEF Init, Idle, Locks
<1> QED
  BY <1>1 DEF Init, IInv, TypeOK, Exclusive, Snapshot, Covers, Crossing, Setting,
              AtMostOnePrimary

\* Steps that leave the flags and the transactions alone, and remove no membership.
LEMMA RowsOnly ==
  ASSUME IInv, tx' = tx, primary' = primary, member \subseteq member',
         member' \subseteq User \X Org, active' \subseteq Org
  PROVE  IInv'
<1>1. \A t \in Tx : Locks(t)' = Locks(t)
  BY DEF Locks
<1>2. TypeOK'
  BY <1>1 DEF IInv, TypeOK
<1> QED
  BY <1>1, <1>2 DEF IInv, Exclusive, Snapshot, Covers, Crossing, Setting, Swept,
                    AtMostOnePrimary

\* Rows that are locked cannot be deleted, so no target disappears.
LEMMA DeleteMemberStep ==
  ASSUME IInv, NEW u \in User, NEW o \in Org, DeleteOrganizationMember(u, o)
  PROVE  IInv'
<1>f. /\ active' = active /\ member' = member \ {<<u, o>>}
      /\ primary' = primary \ {<<u, o>>}
      /\ \A t \in Tx : <<u, o>> \notin Locks(t)
  BY DEF DeleteOrganizationMember
<1>u. TypeOK
  BY DEF IInv
<1>1. \A t \in Tx : /\ tx'[t] \in Running \cup {Idle}
                    /\ tx'[t].step = tx[t].step /\ tx'[t].user = tx[t].user
                    /\ tx'[t].org = tx[t].org /\ tx'[t].wrote = tx[t].wrote
                    /\ tx'[t].cleared = tx[t].cleared
                    /\ tx'[t].todo =
                         IF tx[t].step = "second" /\ tx[t].user = u
                         THEN tx[t].todo \ {o} ELSE tx[t].todo
  <2> TAKE t \in Tx
  <2>1. tx'[t] = IF tx[t].step = "second" /\ tx[t].user = u
                 THEN [tx[t] EXCEPT !.todo = @ \ {o}] ELSE tx[t]
    BY DEF DeleteOrganizationMember
  <2>2. tx[t] \in Running \cup {Idle}
    BY DEF IInv, TypeOK
  <2>3. CASE tx[t].step = "second" /\ tx[t].user = u
    <3>1. tx[t] \in Running
      BY <2>2, <2>3 DEF Idle
    <3> QED
      BY <2>1, <2>3, <3>1 DEF Running
  <2>4. CASE ~(tx[t].step = "second" /\ tx[t].user = u)
    BY <2>1, <2>2, <2>4
  <2> QED
    BY <2>3, <2>4
<1>2. \A t \in Tx : Locks(t)' = Locks(t)
  BY <1>1, SameLocks
<1>3. TypeOK'
  <2>1. tx' = [t \in Tx |-> tx'[t]]
    BY DEF DeleteOrganizationMember
  <2>2. tx' \in [Tx -> Running \cup {Idle}]
    BY <2>1, <1>1
  <2> QED
    BY <1>f, <1>2, <2>2 DEF IInv, TypeOK
<1>4. Exclusive'
  BY <1>2 DEF IInv, Exclusive
<1>5. Snapshot'
  <2> SUFFICES ASSUME NEW t \in Tx, tx[t].step # "idle"
               PROVE  /\ \A x \in tx'[t].todo : <<tx[t].user, x>> \in member'
                      /\ tx[t].step = "first" => tx'[t].todo = {}
                      /\ tx[t].org \notin tx'[t].todo \cup tx[t].cleared
    BY <1>1 DEF Snapshot, Swept
  <2>1. tx[t].user \in User /\ tx[t].todo \in SUBSET Org /\ tx[t].step \in {"first", "second"}
    BY <1>u, UnderWay
  <2>2. tx[t].step = "first" => tx[t].todo = {}
    BY DEF IInv, Snapshot
  <2> QED
    BY <1>1, <1>f, <2>1, <2>2 DEF IInv, Snapshot, Swept
<1>6. \A t \in Tx, v \in User : Setting(t, v)' <=> Setting(t, v)
  BY <1>1 DEF Setting
<1>7. Covers'
  <2> SUFFICES ASSUME NEW t \in Tx, NEW v \in User, Setting(t, v)',
                      NEW x \in Org \ {tx'[t].org}, <<v, x>> \in primary'
               PROVE  x \in Swept(t)'
    BY DEF Covers
  <2>1. x \in Swept(t) /\ <<v, x>> # <<u, o>> /\ tx[t].user = v
    BY <1>1, <1>f, <1>6 DEF IInv, Covers, Setting
  <2>2. x \in tx'[t].todo \/ x \in tx'[t].cleared
    <3>1. CASE x \in tx[t].cleared
      BY <1>1, <3>1
    <3>2. CASE x \in tx[t].todo
      BY <1>1, <2>1, <3>2
    <3> QED
      BY <2>1, <3>1, <3>2 DEF Swept
  <2> QED
    BY <2>2 DEF Swept
<1>8. Crossing'
  <2> SUFFICES ASSUME NEW s \in Tx, NEW t \in Tx, NEW v \in User,
                      s # t, Setting(s, v), Setting(t, v)
               PROVE  tx[s].org \in Swept(t)' \/ tx[t].org \in Swept(s)'
    BY <1>1, <1>6 DEF Crossing
  <2>1. <<v, tx[s].org>> # <<u, o>> /\ <<v, tx[t].org>> # <<u, o>>
    BY <1>f, TargetLocked
  <2>2. tx[s].org \in Swept(t) \/ tx[t].org \in Swept(s)
    BY DEF IInv, Crossing
  <2>3. tx[s].user = v /\ tx[t].user = v
    BY DEF Setting
  <2> QED
    BY <1>1, <2>1, <2>2, <2>3 DEF Swept
<1>9. AtMostOnePrimary'
  BY <1>f DEF IInv, AtMostOnePrimary
<1> QED
  BY <1>3, <1>4, <1>5, <1>7, <1>8, <1>9 DEF IInv

\* What the steps of one transaction share: the tables and the others stay.
Alone(t) ==
  /\ \A s \in Tx \ {t} : tx'[s] = tx[s]
  /\ DOMAIN tx' = Tx
  /\ tx' = [s \in Tx |-> tx'[s]]
  /\ active' = active /\ member' = member

\* Such a step keeps the invariant when the one transaction does.
LEMMA OneTx ==
  ASSUME IInv, NEW t \in Tx, Alone(t), primary' = primary,
         tx'[t] \in Running \cup {Idle},
         \A row \in Locks(t)' : row \in member /\ Free(row, t),
         tx'[t].step # "idle" =>
           /\ \A o \in tx'[t].todo : <<tx'[t].user, o>> \in member
           /\ tx'[t].step = "first" => tx'[t].todo = {}
           /\ tx'[t].org \notin Swept(t)',
         \A u \in User : Setting(t, u)' =>
           /\ \A o \in Org \ {tx'[t].org} : <<u, o>> \in primary => o \in Swept(t)'
           /\ \A s \in Tx \ {t} : Setting(s, u) =>
                tx[s].org \in Swept(t)' \/ tx'[t].org \in Swept(s)
  PROVE  IInv'
<1>f. \A s \in Tx \ {t} : tx'[s] = tx[s]
  BY DEF Alone
<1>1. \A s \in Tx \ {t} : Locks(s)' = Locks(s)
  BY <1>f, SameLocks
<1>2. TypeOK'
  <2>1. tx' \in [Tx -> Running \cup {Idle}]
    <3>1. \A s \in Tx : tx'[s] \in Running \cup {Idle}
      BY <1>f DEF IInv, TypeOK
    <3> QED
      BY <3>1 DEF Alone
  <2>2. \A s \in Tx : Locks(s)' \subseteq member
    BY <1>1 DEF IInv, TypeOK
  <2> QED
    BY <2>1, <2>2 DEF Alone, IInv, TypeOK
<1>3. Exclusive'
  <2> SUFFICES ASSUME NEW r \in Tx, NEW s \in Tx, r # s, NEW row,
                      row \in Locks(r)', row \in Locks(s)'
               PROVE  FALSE
    BY DEF Exclusive
  <2>1. CASE r # t /\ s # t
    BY <1>1, <2>1 DEF IInv, Exclusive
  <2>2. CASE r = t
    BY <1>1, <2>2 DEF Free
  <2>3. CASE s = t
    BY <1>1, <2>3 DEF Free
  <2> QED
    BY <2>1, <2>2, <2>3
<1>4. Snapshot'
  BY <1>f DEF Alone, IInv, Snapshot, Swept
<1>5. \A s \in Tx \ {t}, u \in User : (Setting(s, u)' <=> Setting(s, u)) /\ Swept(s)' = Swept(s)
  BY <1>f DEF Setting, Swept
<1>6. Covers'
  BY <1>f, <1>5 DEF IInv, Covers
<1>7. Crossing'
  <2> SUFFICES ASSUME NEW r \in Tx, NEW s \in Tx, NEW u \in User,
                      r # s, Setting(r, u)', Setting(s, u)'
               PROVE  tx'[r].org \in Swept(s)' \/ tx'[s].org \in Swept(r)'
    BY DEF Crossing
  <2>1. CASE r # t /\ s # t
    BY <1>f, <1>5, <2>1 DEF IInv, Crossing
  <2>2. CASE r = t
    BY <1>f, <1>5, <2>2
  <2>3. CASE s = t
    BY <1>f, <1>5, <2>3
  <2> QED
    BY <2>1, <2>2, <2>3
<1>8. AtMostOnePrimary'
  BY DEF IInv, AtMostOnePrimary
<1> QED
  BY <1>2, <1>3, <1>4, <1>6, <1>7, <1>8 DEF IInv

LEMMA OthersStay ==
  ASSUME TypeOK, NEW t \in Tx, NEW r, tx' = [tx EXCEPT ![t] = r],
         active' = active, member' = member
  PROVE  Alone(t) /\ tx'[t] = r
<1>1. tx \in [Tx -> Running \cup {Idle}]
  BY DEF TypeOK
<1>2. tx' = [s \in Tx |-> IF s = t THEN r ELSE tx[s]]
  BY <1>1
<1> QED
  BY <1>2 DEF Alone

LEMMA Step1Step ==
  ASSUME IInv, NEW t \in Tx, NEW u \in User, NEW o \in Org,
         SetPrimaryOrganizationStep1(t, u, o)
  PROVE  IInv'
<1> DEFINE r == [step |-> "first", user |-> u, org |-> o, wrote |-> <<u, o>> \in member,
                 todo |-> {}, cleared |-> {}]
<1>u. TypeOK
  BY DEF IInv
<1>1. Alone(t) /\ tx'[t] = r
  BY <1>u, OthersStay DEF SetPrimaryOrganizationStep1
<1>2. /\ tx'[t].step = "first" /\ tx'[t].user = u /\ tx'[t].org = o
      /\ tx'[t].wrote = (<<u, o>> \in member) /\ tx'[t].todo = {} /\ tx'[t].cleared = {}
  BY <1>1
<1>3. r \in Running
  BY DEF Running
<1>4. primary' = primary /\ Free(<<u, o>>, t)
  BY DEF SetPrimaryOrganizationStep1
<1>5. \A row \in Locks(t)' : row = <<u, o>> /\ row \in member
  BY <1>2 DEF Locks
<1>6. Swept(t)' = {}
  BY <1>2 DEF Swept
<1>7. \A v \in User : ~Setting(t, v)'
  BY <1>2 DEF Setting
<1> HIDE DEF r
<1> QED
  BY <1>1, <1>2, <1>3, <1>4, <1>5, <1>6, <1>7, OneTx

LEMMA Step2Step ==
  ASSUME IInv, NEW t \in Tx, SetPrimaryOrganizationStep2(t)
  PROVE  IInv'
<1> DEFINE all == {o \in Org \ {tx[t].org} : <<tx[t].user, o>> \in member}
           r == [tx[t] EXCEPT !.step = "second", !.todo = all]
<1>u. TypeOK
  BY DEF IInv
<1>r. /\ tx[t] \in Running /\ tx[t].user \in User /\ tx[t].org \in Org
      /\ tx[t].todo = {} /\ tx[t].org \notin tx[t].cleared
  BY <1>u, UnderWay DEF SetPrimaryOrganizationStep2, IInv, Snapshot, Swept
<1>1. Alone(t) /\ tx'[t] = r
  <2>1. tx' = [tx EXCEPT ![t] = r] /\ active' = active /\ member' = member
    BY DEF SetPrimaryOrganizationStep2
  <2> HIDE DEF r
  <2> QED
    BY <1>u, <2>1, OthersStay
<1>2. /\ tx'[t].step = "second" /\ tx'[t].user = tx[t].user /\ tx'[t].org = tx[t].org
      /\ tx'[t].wrote = tx[t].wrote /\ tx'[t].todo = all /\ tx'[t].cleared = tx[t].cleared
      /\ tx'[t] \in Running
  BY <1>1, <1>r DEF Running
<1>3. primary' = primary /\ tx[t].step = "first"
  BY DEF SetPrimaryOrganizationStep2
<1>4. Locks(t)' = Locks(t)
  BY <1>2, <1>3, SameLocks
<1>5. \A row \in Locks(t)' : row \in member /\ Free(row, t)
  BY <1>4 DEF IInv, TypeOK, Exclusive, Free
<1>6. Swept(t)' = all \cup tx[t].cleared
  BY <1>2 DEF Swept
<1>7. ASSUME NEW v \in User, Setting(t, v)'
      PROVE  /\ \A o \in Org \ {tx'[t].org} : <<v, o>> \in primary => o \in Swept(t)'
             /\ \A s \in Tx \ {t} : Setting(s, v) =>
                  tx[s].org \in Swept(t)' \/ tx'[t].org \in Swept(s)
  <2>1. v = tx[t].user /\ tx[t].wrote
    BY <1>2, <1>7 DEF Setting
  <2>2. \A o \in Org \ {tx'[t].org} : <<v, o>> \in primary => o \in Swept(t)'
    BY <1>2, <1>6, <1>u, <2>1 DEF TypeOK
  <2>3. ASSUME NEW s \in Tx \ {t}, Setting(s, v)
        PROVE  tx[s].org \in Swept(t)'
    <3>1. <<v, tx[s].org>> \in Locks(s) /\ tx[s].org \in Org
      BY <2>3, <1>u, TargetLocked, UnderWay DEF Setting
    <3>2. <<v, tx[s].org>> \in member
      BY <3>1, <1>u DEF TypeOK
    <3>3. <<v, tx[t].org>> \in Locks(t)
      BY <1>3, <2>1 DEF Locks
    <3>4. tx[s].org # tx[t].org
      BY <3>1, <3>3 DEF IInv, Exclusive
    <3> QED
      BY <1>6, <2>1, <3>1, <3>2, <3>4
  <2> QED
    BY <2>2, <2>3
<1>8. \A o \in tx'[t].todo : <<tx'[t].user, o>> \in member
  BY <1>2
<1>9. tx'[t].org \notin Swept(t)'
  BY <1>2, <1>6, <1>r
<1> QED
  BY <1>1, <1>2, <1>3, <1>5, <1>7, <1>8, <1>9, OneTx

LEMMA ClearStep ==
  ASSUME IInv, NEW t \in Tx, NEW o \in Org, Clear(t, o)
  PROVE  IInv'
<1> DEFINE r == [tx[t] EXCEPT !.todo = @ \ {o}, !.cleared = @ \cup {o}]
<1>u. TypeOK
  BY DEF IInv
<1>r. /\ tx[t] \in Running /\ tx[t].step = "second" /\ tx[t].user \in User
      /\ tx[t].org \in Org /\ o \in tx[t].todo /\ Free(<<tx[t].user, o>>, t)
      /\ tx[t].org \notin Swept(t) /\ <<tx[t].user, o>> \in member
  BY <1>u, UnderWay DEF Clear, IInv, Snapshot
<1>1. Alone(t) /\ tx'[t] = r /\ primary' = primary
  <2>1. tx' = [tx EXCEPT ![t] = r] /\ active' = active /\ member' = member /\ primary' = primary
    BY DEF Clear
  <2> HIDE DEF r
  <2> QED
    BY <1>u, <2>1, OthersStay
<1>2. /\ tx'[t].step = "second" /\ tx'[t].user = tx[t].user /\ tx'[t].org = tx[t].org
      /\ tx'[t].wrote = tx[t].wrote /\ tx'[t].todo = tx[t].todo \ {o}
      /\ tx'[t].cleared = tx[t].cleared \cup {o} /\ tx'[t] \in Running
  <2>1. tx'[t] = r /\ tx[t] \in Running /\ tx[t].step = "second"
    BY <1>1, <1>r
  <2>2. /\ r.step = "second" /\ r.user = tx[t].user /\ r.org = tx[t].org
        /\ r.wrote = tx[t].wrote /\ r.todo = tx[t].todo \ {o}
        /\ r.cleared = tx[t].cleared \cup {o}
    BY <2>1 DEF Running
  <2>3. r \in Running
    BY <2>1 DEF Running
  <2> QED
    BY <2>1, <2>2, <2>3
<1>3. Swept(t)' = Swept(t)
  BY <1>2, <1>r DEF Swept
<1>4. \A row \in Locks(t)' : row \in Locks(t) \/ row = <<tx[t].user, o>>
  BY <1>2, <1>r DEF Locks
<1>5. \A row \in Locks(t)' : row \in member /\ Free(row, t)
  BY <1>4, <1>r DEF IInv, TypeOK, Exclusive, Free
<1>6. \A v \in User : Setting(t, v)' <=> Setting(t, v)
  BY <1>2, <1>r DEF Setting
<1>7. \A v \in User : Setting(t, v)' =>
        /\ \A x \in Org \ {tx'[t].org} : <<v, x>> \in primary => x \in Swept(t)'
        /\ \A s \in Tx \ {t} : Setting(s, v) =>
             tx[s].org \in Swept(t)' \/ tx'[t].org \in Swept(s)
  BY <1>2, <1>3, <1>6 DEF IInv, Covers, Crossing
<1>8. \A x \in tx'[t].todo : <<tx'[t].user, x>> \in member
  BY <1>2, <1>r DEF IInv, Snapshot
<1> QED
  BY <1>1, <1>2, <1>3, <1>5, <1>7, <1>8, <1>r, OneTx

LEMMA RollbackStep ==
  ASSUME IInv, NEW t \in Tx, Rollback(t)
  PROVE  IInv'
<1>u. TypeOK
  BY DEF IInv
<1>1. Alone(t) /\ tx'[t] = Idle /\ primary' = primary
  BY <1>u, OthersStay DEF Rollback
<1>2. tx'[t].step = "idle"
  BY <1>1 DEF Idle
<1>3. Locks(t)' = {} /\ \A v \in User : ~Setting(t, v)'
  BY <1>2 DEF Locks, Setting
<1> QED
  BY <1>1, <1>2, <1>3, OneTx

\* When t commits, the rows of its user that were primary are the ones it clears, and
\* nobody else of that user can be about to keep the flag where it is.
LEMMA CommitStep ==
  ASSUME IInv, NEW t \in Tx, Commit(t)
  PROVE  IInv'
<1> DEFINE u == tx[t].user
           g == tx[t].org
<1>u. TypeOK
  BY DEF IInv
<1>r. /\ tx[t].step = "second" /\ tx[t].todo = {} /\ u \in User /\ g \in Org
      /\ tx[t].wrote \in BOOLEAN /\ Swept(t) = tx[t].cleared
  BY <1>u, UnderWay DEF Commit, Swept
<1>1. Alone(t) /\ tx'[t] = Idle /\ tx'[t].step = "idle"
  <2>1. tx' = [tx EXCEPT ![t] = Idle] /\ active' = active /\ member' = member
    BY DEF Commit
  <2>2. Alone(t) /\ tx'[t] = Idle
    BY <1>u, <2>1, OthersStay
  <2>3. Idle.step = "idle"
    BY DEF Idle
  <2> QED
    BY <2>2, <2>3
<1>2. \A v \in User, o \in Org : <<v, o>> \in primary' <=>
        /\ <<v, o>> \in primary \/ (tx[t].wrote /\ v = u /\ o = g)
        /\ ~(v = u /\ o \in tx[t].cleared)
  BY DEF Commit
<1>3. primary' \subseteq member'
  <2>1. tx[t].wrote => <<u, g>> \in member
    <3>1. tx[t].wrote => <<u, g>> \in Locks(t)
      BY <1>r DEF Locks
    <3> QED
      BY <3>1, <1>u DEF TypeOK
  <2>2. primary' \subseteq primary \cup (IF tx[t].wrote THEN {<<u, g>>} ELSE {})
    BY DEF Commit
  <2> QED
    BY <1>1, <1>u, <2>1, <2>2 DEF Alone, TypeOK
<1>4. Locks(t)' = {} /\ \A s \in Tx \ {t} : Locks(s)' = Locks(s) /\ tx'[s] = tx[s]
  BY <1>1, SameLocks DEF Locks, Alone
<1>5. TypeOK'
  <2>1. \A s \in Tx : tx'[s] \in Running \cup {Idle} /\ Locks(s)' \subseteq member'
    BY <1>1, <1>4, <1>u DEF TypeOK, Alone
  <2>2. tx' \in [Tx -> Running \cup {Idle}]
    BY <1>1, <2>1 DEF Alone
  <2> QED
    BY <1>1, <1>3, <1>u, <2>1, <2>2 DEF Alone, TypeOK
<1>6. Exclusive'
  BY <1>4 DEF IInv, Exclusive
<1>7. Snapshot'
  BY <1>1, <1>4 DEF IInv, Snapshot, Swept, Alone
<1>8. \A s \in Tx, v \in User :
        Setting(s, v)' => s # t /\ Setting(s, v) /\ Swept(s)' = Swept(s) /\ tx'[s] = tx[s]
  BY <1>1, <1>4 DEF Setting, Swept
<1>9. Crossing'
  BY <1>8 DEF IInv, Crossing
<1>10. Covers'
  <2> SUFFICES ASSUME NEW s \in Tx, NEW v \in User, Setting(s, v)',
                      NEW o \in Org \ {tx'[s].org}, <<v, o>> \in primary'
               PROVE  o \in Swept(s)'
    BY DEF Covers
  <2>1. s # t /\ Setting(s, v) /\ Swept(s)' = Swept(s) /\ tx'[s] = tx[s]
    BY <1>8
  <2>2. CASE <<v, o>> \in primary
    BY <2>1, <2>2 DEF IInv, Covers
  <2>3. CASE <<v, o>> \notin primary
    <3>1. tx[t].wrote /\ v = u /\ o = g
      BY <1>2, <2>3
    <3>2. Setting(t, v)
      BY <1>r, <3>1 DEF Setting
    <3>3. tx[s].org \in Swept(t) \/ g \in Swept(s)
      BY <2>1, <3>2 DEF IInv, Crossing
    <3>4. <<v, tx[s].org>> \in Locks(s)
      BY <2>1, TargetLocked
    <3>5. ASSUME tx[s].org \in tx[t].cleared PROVE FALSE
      <4>1. <<v, tx[s].org>> \in Locks(t)
        BY <1>r, <3>1, <3>5 DEF Locks
      <4> QED
        BY <2>1, <3>4, <4>1 DEF IInv, Exclusive
    <3> QED
      BY <1>r, <2>1, <3>1, <3>3, <3>5
  <2> QED
    BY <2>2, <2>3
<1>11. AtMostOnePrimary'
  <2> SUFFICES ASSUME NEW v \in User, NEW o \in Org, NEW p \in Org,
                      <<v, o>> \in primary', <<v, p>> \in primary'
               PROVE  o = p
    BY DEF AtMostOnePrimary
  <2>1. CASE tx[t].wrote /\ v = u
    <3>1. Setting(t, v)
      BY <1>r, <2>1 DEF Setting
    <3>2. \A x \in Org \ {g} : <<v, x>> \in primary => x \in tx[t].cleared
      BY <1>r, <3>1 DEF IInv, Covers
    <3> QED
      BY <1>2, <2>1, <3>2
  <2>2. CASE ~(tx[t].wrote /\ v = u)
    BY <1>2, <2>2 DEF IInv, AtMostOnePrimary
  <2> QED
    BY <2>1, <2>2
<1> QED
  BY <1>5, <1>6, <1>7, <1>9, <1>10, <1>11 DEF IInv

LEMMA StepIInv == IInv /\ [Next]_orgvars => IInv'
<1> SUFFICES ASSUME IInv, [Next]_orgvars PROVE IInv'
  OBVIOUS
<1>1. ASSUME NEW o \in Org, CreateOrganization(o) \/ DeleteOrganization(o) PROVE IInv'
  <2>1. /\ tx' = tx /\ primary' = primary /\ member' = member
        /\ active' = active \cup {o} \/ active' = active \ {o}
    BY <1>1 DEF CreateOrganization, DeleteOrganization
  <2>2. active' \subseteq Org /\ member' \subseteq User \X Org
    BY <2>1 DEF IInv, TypeOK
  <2> QED
    BY <2>1, <2>2, RowsOnly
<1>2. ASSUME NEW u \in User, NEW o \in Org, CreateOrganizationMember(u, o) PROVE IInv'
  <2>1. /\ tx' = tx /\ primary' = primary /\ active' = active
        /\ member' = member \cup {<<u, o>>}
    BY <1>2 DEF CreateOrganizationMember
  <2>2. active' \subseteq Org /\ member' \subseteq User \X Org
    BY <2>1 DEF IInv, TypeOK
  <2> QED
    BY <2>1, <2>2, RowsOnly
<1>3. ASSUME NEW u \in User, NEW o \in Org, DeleteOrganizationMember(u, o) PROVE IInv'
  BY <1>3, DeleteMemberStep
<1>4. ASSUME NEW t \in Tx, Step(t) PROVE IInv'
  BY <1>4, Step1Step, Step2Step, ClearStep, CommitStep, RollbackStep DEF Step
<1>5. CASE UNCHANGED orgvars
  <2>1. tx' = tx /\ primary' = primary /\ member' = member /\ active' = active
    BY <1>5 DEF orgvars
  <2>2. active' \subseteq Org /\ member' \subseteq User \X Org
    BY <2>1 DEF IInv, TypeOK
  <2> QED
    BY <2>1, <2>2, RowsOnly
<1> QED
  BY <1>1, <1>2, <1>3, <1>4, <1>5 DEF Next

\* The invariant holds: what a transaction of SetPrimary has locked and done, step
\* by step, and at most one primary membership per user outside of them.
THEOREM OrganisationsIInv == Spec => []IInv
BY InitIInv, StepIInv, PTL DEF Spec

-----------------------------------------------------------------------------
(* Results *)

\* Every variable keeps to its kind, rows that are locked exist, and no user ever has
\* two primary organisations, however SetPrimaryOrganization's transactions overlap.
THEOREM OnePrimary == Spec => [](TypeOK /\ AtMostOnePrimary)
<1>1. IInv => TypeOK /\ AtMostOnePrimary
  BY DEF IInv
<1> QED
  BY <1>1, OrganisationsIInv, PTL

\* A SetPrimaryOrganization that found the membership leaves exactly that organisation
\* (if it is active) as what GetUserPrimaryOrganization reads.
THEOREM PrimaryIsTarget == Spec => TargetIsPrimary
<1> DEFINE Sets(t, u) ==
      tx[t].step = "second" /\ tx[t].wrote /\ tx[t].user = u /\ Commit(t) =>
        GetUserPrimaryOrganization(u)' = {tx[t].org} \cap active
<1>1. IInv /\ [Next]_orgvars => [\A t \in Tx, u \in User : Sets(t, u)]_orgvars
  <2> SUFFICES ASSUME IInv, NEW t \in Tx, NEW u \in User,
                      tx[t].step = "second", tx[t].wrote, tx[t].user = u, Commit(t)
               PROVE  GetUserPrimaryOrganization(u)' = {tx[t].org} \cap active
    OBVIOUS
  <2>1. TypeOK
    BY DEF IInv
  <2>2. tx[t].org \in Org /\ tx[t].org \notin Swept(t) /\ tx[t].todo = {} /\ active' = active
    BY <2>1, UnderWay DEF Commit, IInv, Snapshot
  <2>3. Setting(t, u)
    BY DEF Setting
  <2>4. \A x \in Org \ {tx[t].org} : <<u, x>> \in primary => x \in tx[t].cleared
    BY <2>2, <2>3 DEF IInv, Covers, Swept
  <2>5. \A x \in Org : <<u, x>> \in primary' <=> x = tx[t].org
    <3>1. primary' = (primary \cup {<<u, tx[t].org>>}) \ {<<u, o>> : o \in tx[t].cleared}
      BY DEF Commit
    <3> QED
      BY <2>2, <2>4, <3>1 DEF Swept
  <2>6. active \subseteq Org
    BY <2>1 DEF TypeOK
  <2> QED
    BY <2>2, <2>5, <2>6 DEF GetUserPrimaryOrganization
<1>2. [][\A t \in Tx, u \in User : Sets(t, u)]_orgvars => TargetIsPrimary
  BY PTL DEF TargetIsPrimary
<1> QED
  BY <1>1, <1>2, OrganisationsIInv, PTL DEF Spec

=============================================================================
