--------------------------- MODULE BrowserProofs ---------------------------
(***************************************************************************)
(* What a browser holds of the server, for any number of tokens, requests  *)
(* in flight, cards, budgets and sites, and whatever order the answers of  *)
(* this tab and of the others arrive in.                                   *)
(*                                                                         *)
(* Tokens: a page, the cookie and the answers under way agree on the token *)
(* until a mark is made.  The invariant says of each pair of them when they *)
(* may differ: a request that was issued a token is the only one in the    *)
(* air, and was sent when no cookie and no token was there.                *)
(*                                                                         *)
(* Sessions: an answer leaves the session alone, or sets the one it was    *)
(* asked for under (Serve, and the redirect Follow goes after).            *)
(*                                                                         *)
(* Kinds: an answer under way names only accounts and tokens that exist,   *)
(* and a redirect goes to a page that redirects its reader no further.     *)
(*                                                                         *)
(* The document: a template writes only controls of its own kind, and      *)
(* fills holes with what belongs there; an answer is one its request asks  *)
(* for; so that whatever is swapped in, in whatever order, every hole      *)
(* holds what belongs to it, the pages of the list follow each other and   *)
(* the regions of the counter agree (Documented).                          *)
(*                                                                         *)
(* Cards: each is shown as its owner's and was its owner's when the answer *)
(* that shows it was made; one that went since was deleted elsewhere, or   *)
(* by a form of the page whose answer is on its way (Accounted).           *)
(***************************************************************************)
EXTENDS Browser, TLAPS

-----------------------------------------------------------------------------
(* What records there are *)

TabFields == {"at", "as", "anon", "token", "demo", "next"}
ReqFields == {"a", "ans", "anon", "issues", "csrf", "sent", "calm", "lost"}
OtherFields == {"ans", "a", "issues", "csrf", "sent", "calm"}

Shapes ==
  /\ DOMAIN jar = {"who", "csrf"}
  /\ DOMAIN marks = {"expired", "overlapped", "gone"}
  /\ DOMAIN tab = TabFields
  /\ \A q \in reqs : DOMAIN q = ReqFields
  /\ \A q \in other : DOMAIN q = OtherFields

\* The first state has records of those fields, ...
LEMMA InitShapes == Init => Shapes
BY DEF Init, Shapes, TabFields

\* ... and no step gives one another field.
LEMMA StepShapes == ASSUME Shapes, [Next]_vars PROVE Shapes'
<1>1. ASSUME NEW a, NEW r, Send(a, r), DOMAIN tab' = DOMAIN tab PROVE Shapes'
  BY <1>1 DEF Send, Shapes, TabFields, ReqFields, OtherFields
<1>2. CASE Click
  <2>1. PICK a, r : Send(a, r) /\ DOMAIN tab' = DOMAIN tab
    BY <1>2 DEF Click
  <2> QED
    BY <1>1, <2>1
<1>3. CASE Navigate
  <2>1. PICK a, r : Send(a, r) /\ DOMAIN tab' = DOMAIN tab
    BY <1>3 DEF Navigate
  <2> QED
    BY <1>1, <2>1
<1>4. CASE Deliver
  <2>1. PICK q \in reqs :
          /\ jar' = CookiesAfter(q)
          /\ DeliverLoad(q) \/ DeliverRedirect(q) \/ DeliverFragment(q) \/ DeliverNothing(q)
          /\ UNCHANGED other
    BY <1>4 DEF Deliver
  <2>2. DOMAIN jar' = {"who", "csrf"}
    BY <2>1 DEF CookiesAfter
  <2>3. DOMAIN tab' = TabFields /\ DOMAIN marks' = {"expired", "overlapped", "gone"}
    BY <2>1 DEF DeliverLoad, DeliverRedirect, DeliverFragment, DeliverNothing, Shapes, TabFields
  <2>4. ASSUME NEW p \in reqs' PROVE DOMAIN p = ReqFields
    <3>1. CASE DeliverFragment(q)
      <4>1. PICK s \in reqs : p = [s EXCEPT !.lost = Detached(q, s)]
        BY <2>4, <3>1 DEF DeliverFragment
      <4> QED
        BY <4>1 DEF Shapes
    <3>2. CASE DeliverLoad(q) \/ DeliverRedirect(q) \/ DeliverNothing(q)
      BY <2>4, <3>2 DEF DeliverLoad, DeliverRedirect, DeliverNothing, Shapes
    <3> QED
      BY <2>1, <3>1, <3>2
  <2> QED
    BY <2>1, <2>2, <2>3, <2>4 DEF Shapes
<1>5. CASE OtherSend
  <2>1. PICK a, r : SendElsewhere(a, r)
    BY <1>5 DEF OtherSend
  <2> QED
    BY <2>1 DEF SendElsewhere, Shapes, OtherFields
<1>6. CASE OtherDeliver
  BY <1>6 DEF OtherDeliver, CookiesAfter, Shapes
<1>7. CASE SessionLapses \/ SessionDies \/ CsrfExpires \/ UNCHANGED vars
  BY <1>7 DEF SessionLapses, SessionDies, CsrfExpires, vars, Shapes
<1> QED
  BY <1>2, <1>3, <1>4, <1>5, <1>6, <1>7 DEF Next

RequestFields == {"verb", "path", "of", "htmx", "who", "cookie", "fault"}
\* A click and a navigation send a request under the cookies of the moment.
Sends(a, r) ==
  /\ Send(a, r)
  /\ r.cookie = jar.csrf /\ r.who = jar.who /\ r.path = a.path
  /\ RequestFields \subseteq DOMAIN r

\* Whatever control is clicked, ...
LEMMA ClickSends == ASSUME Click PROVE \E a, r : Sends(a, r)
<1>1. PICK a \in Document.does, valid \in BOOLEAN, fault \in Faults :
        \/ Send(a, Request(a, TRUE, valid, fault, tab.token))
        \/ Send([LoadOf(a.path, a.of) EXCEPT !.verb = a.verb],
                Request(a, FALSE, valid, fault, tab.token))
  BY DEF Click
<1>2. \A htmx : LET r == Request(a, htmx, valid, fault, tab.token) IN
        /\ r.cookie = jar.csrf /\ r.who = jar.who /\ r.path = a.path
        /\ RequestFields \subseteq DOMAIN r
  BY DEF Request, RequestFields
<1>3. [LoadOf(a.path, a.of) EXCEPT !.verb = a.verb].path = a.path
  BY DEF LoadOf, Hx
<1> QED
  BY <1>1, <1>2, <1>3 DEF Sends

\* ... or address entered, it is sent as Sends says.
LEMMA NavigateSends == ASSUME Navigate PROVE \E a, r : Sends(a, r)
<1>1. PICK path, of, valid, fault :
        Send(LoadOf(path, of), Request(LoadOf(path, of), FALSE, valid, fault, 0))
  BY DEF Navigate
<1>2. LET r == Request(LoadOf(path, of), FALSE, valid, fault, 0) IN
        /\ r.cookie = jar.csrf /\ r.who = jar.who /\ r.path = LoadOf(path, of).path
        /\ RequestFields \subseteq DOMAIN r
  BY DEF Request, RequestFields
<1> QED
  BY <1>1, <1>2 DEF Sends

\* Another tab of the same browser sends under the same cookies, and none of its
\* requests is refused by GoTrue.
LEMMA OtherSends ==
  ASSUME OtherSend
  PROVE  \E a, r : /\ SendElsewhere(a, r)
                   /\ r.cookie = jar.csrf /\ r.who = jar.who /\ r.path = a.path
                   /\ r.fault # "auth" /\ RequestFields \subseteq DOMAIN r
<1>1. PICK a : SendElsewhere(a, Request(a, FALSE, TRUE, "none", jar.csrf))
  BY DEF OtherSend
<1>2. LET r == Request(a, FALSE, TRUE, "none", jar.csrf) IN
        /\ r.cookie = jar.csrf /\ r.who = jar.who /\ r.path = a.path
        /\ r.fault # "auth" /\ RequestFields \subseteq DOMAIN r
  BY DEF Request, RequestFields
<1> QED
  BY <1>1, <1>2

-----------------------------------------------------------------------------
(* Tokens *)

Marked == marks.expired \/ marks.overlapped

\* An answer that brings no token of its own has the cookie's, or none.
Rendered == \A q \in reqs : ~q.issues /\ q.csrf \notin {0, jar.csrf} => Marked
\* While a token is under way there is no other: not in the page, ...
FreshPage == \A p \in reqs \cup other : p.issues /\ tab.token # 0 => Marked
\* ... not in the cookie, ...
FreshJar == \A p \in reqs \cup other : p.issues /\ jar.csrf # 0 => Marked
\* ... not in an answer rendered with the cookie's, ...
FreshAnswers ==
  \A p \in reqs \cup other, q \in reqs : p.issues /\ ~q.issues /\ q.csrf # 0 => Marked
\* ... and not in one that was issued another.
Single ==
  /\ \A p, q \in reqs : p.issues /\ q.issues /\ p # q => Marked
  /\ \A p \in other, q \in reqs : p.issues /\ q.issues => Marked

Tokens ==
  /\ Shapes
  /\ TokenKept
  /\ Rendered
  /\ FreshPage
  /\ FreshJar
  /\ FreshAnswers
  /\ Single

\* Before the first request there is no token to differ.
LEMMA InitTokens == Init => Tokens
<1> SUFFICES ASSUME Init PROVE Tokens
  OBVIOUS
<1>1. reqs = {} /\ other = {} /\ tab.token = 0
  BY DEF Init
<1> QED
  BY <1>1, InitShapes DEF Tokens, TokenKept, Rendered, FreshPage, FreshJar, FreshAnswers, Single

\* Marks that only grow, cookie and page kept: nothing new can differ but what
\* is new in the air.
LEMMA SendTokens ==
  ASSUME Tokens, NEW a, NEW r, Send(a, r), r.cookie = jar.csrf, Shapes',
         tab'.token = tab.token
  PROVE Tokens'
<1> USE DEF Tokens
<1>1. jar' = jar /\ other' = other
  BY DEF Send
<1>2. PICK q : /\ reqs' = reqs \cup {q}
               /\ q.issues = IssuesToken(r)
               /\ q.csrf = TokenOf(r)
  <2>1. PICK o \in Answers(r) :
          reqs' = reqs \cup
            {[a |-> a, ans |-> o[1], anon |-> IsAnonymous(o[1].as, o[2]),
              issues |-> IssuesToken(r), csrf |-> TokenOf(r), sent |-> r.who,
              calm |-> r.fault # "auth", lost |-> a.hole \notin DOMAIN tab.at]}
    BY DEF Send
  <2> DEFINE q == [a |-> a, ans |-> o[1], anon |-> IsAnonymous(o[1].as, o[2]),
                   issues |-> IssuesToken(r), csrf |-> TokenOf(r), sent |-> r.who,
                   calm |-> r.fault # "auth", lost |-> a.hole \notin DOMAIN tab.at]
  <2>2. q.issues = IssuesToken(r) /\ q.csrf = TokenOf(r)
    OBVIOUS
  <2>3. reqs' = reqs \cup {q}
    BY <2>1
  <2> QED
    BY <2>2, <2>3
<1>3. Marked => Marked'
  BY DEF Send, Shapes, Marked
<1>4. ASSUME IssuesToken(r), NEW p \in reqs \cup other, p.issues PROVE Marked'
  BY <1>4 DEF Send, Shapes, Marked
<1>5. IssuesToken(r) => jar.csrf = 0
  BY DEF IssuesToken
<1>6. ~IssuesToken(r) => q.csrf = jar.csrf
  BY <1>2 DEF TokenOf
<1>7. TokenKept'
  BY <1>1, <1>3 DEF TokenKept, Marked
<1>8. Rendered'
  BY <1>1, <1>2, <1>3, <1>6 DEF Rendered
<1>9. FreshPage'
  BY <1>1, <1>2, <1>3, <1>5 DEF FreshPage, TokenKept, Marked
<1>10. FreshJar'
  BY <1>1, <1>2, <1>3, <1>5 DEF FreshJar
<1>11. FreshAnswers'
  <2> SUFFICES ASSUME NEW p \in (reqs \cup other)', NEW s \in reqs',
                      p.issues, ~s.issues, s.csrf # 0
               PROVE Marked'
    BY DEF FreshAnswers
  <2>1. CASE p \in reqs \cup other /\ s \in reqs
    BY <2>1, <1>3 DEF FreshAnswers
  <2>2. CASE p = q /\ s \in reqs
    BY <2>2, <1>2, <1>3, <1>5 DEF Rendered
  <2>3. CASE p \in reqs \cup other /\ s = q
    BY <2>3, <1>2, <1>3, <1>6 DEF FreshJar
  <2>4. CASE p = q /\ s = q
    BY <2>4
  <2> QED
    BY <1>1, <1>2, <2>1, <2>2, <2>3, <2>4
<1>12. Single'
  BY <1>1, <1>2, <1>3, <1>4 DEF Single
<1> QED
  BY <1>7, <1>8, <1>9, <1>10, <1>11, <1>12

\* Loading a page: the page has the answer's token, and every other answer of
\* the tab is given up.
LEMMA LoadTokens ==
  ASSUME Tokens, NEW q \in reqs, jar' = CookiesAfter(q), DeliverLoad(q), other' = other, Shapes'
  PROVE Tokens'
<1> USE DEF Tokens
<1>1. tab'.token = q.csrf /\ reqs' = {}
  BY DEF DeliverLoad
<1>2. jar'.csrf = IF q.issues THEN q.csrf ELSE jar.csrf
  BY DEF CookiesAfter
<1>3. CASE jar'.csrf = q.csrf /\ ~\E p \in other : p.issues
  BY <1>1, <1>3 DEF TokenKept, Rendered, FreshPage, FreshJar, FreshAnswers, Single
<1>4. CASE ~(jar'.csrf = q.csrf /\ ~\E p \in other : p.issues)
  <2>1. Marked' = Marked
    BY <1>4 DEF DeliverLoad, Shapes, Marked
  <2>2. TokenKept'
    BY <1>1, <1>2, <2>1 DEF TokenKept, Rendered, Marked
  <2>3. FreshPage'
    BY <1>1, <2>1 DEF FreshPage, FreshAnswers, Single
  <2>4. FreshJar'
    BY <1>1, <1>2, <2>1 DEF FreshJar, Single
  <2> QED
    BY <1>1, <2>2, <2>3, <2>4 DEF Rendered, FreshAnswers, Single
<1> QED
  BY <1>3, <1>4

\* An answer that leaves the page's token as it is.
LEMMA AnswerTokens ==
  ASSUME Tokens, NEW q \in reqs, jar' = CookiesAfter(q), other' = other, Shapes',
         tab'.token = tab.token, marks' = marks,
         \/ reqs' = reqs \ {q}
         \/ reqs' = {[p EXCEPT !.lost = Detached(q, p)] : p \in reqs \ {q}}
  PROVE Tokens'
<1> USE DEF Tokens
<1>1. jar'.csrf = IF q.issues THEN q.csrf ELSE jar.csrf
  BY DEF CookiesAfter
<1>2. Marked' = Marked
  BY DEF Marked
<1>3. \A p \in reqs' : \E s \in reqs \ {q} : /\ p.issues = s.issues /\ p.csrf = s.csrf
                                             /\ p = s \/ p = [s EXCEPT !.lost = Detached(q, s)]
  BY DEF Shapes, ReqFields
<1>4. TokenKept'
  BY <1>1, <1>2 DEF TokenKept, FreshPage, Marked
<1>5. Rendered'
  BY <1>1, <1>2, <1>3 DEF Rendered, FreshAnswers
<1>6. FreshPage'
  BY <1>2, <1>3 DEF FreshPage
<1>7. FreshJar'
  BY <1>1, <1>2, <1>3 DEF FreshJar, Single
<1>8. FreshAnswers'
  BY <1>2, <1>3 DEF FreshAnswers
<1>9. Single'
  <2>1. ASSUME NEW p \in reqs', NEW s \in reqs', p.issues, s.issues, p # s PROVE Marked
    <3>1. CASE reqs' = reqs \ {q}
      BY <2>1, <3>1 DEF Single
    <3>2. CASE reqs' = {[t EXCEPT !.lost = Detached(q, t)] : t \in reqs \ {q}}
      <4>1. PICK t \in reqs, u \in reqs : /\ p = [t EXCEPT !.lost = Detached(q, t)]
                                          /\ s = [u EXCEPT !.lost = Detached(q, u)]
        BY <3>2
      <4>2. t.issues /\ u.issues /\ t # u
        BY <2>1, <4>1 DEF Shapes, ReqFields
      <4> QED
        BY <4>2 DEF Single
    <3> QED
      BY <3>1, <3>2
  <2> QED
    BY <1>2, <1>3, <2>1 DEF Single
<1> QED
  BY <1>4, <1>5, <1>6, <1>7, <1>8, <1>9

\* Whichever way an answer is used, one of the two above applies.
LEMMA DeliverTokens == ASSUME Tokens, Deliver, Shapes' PROVE Tokens'
<1>1. PICK q \in reqs :
        /\ jar' = CookiesAfter(q)
        /\ DeliverLoad(q) \/ DeliverRedirect(q) \/ DeliverFragment(q) \/ DeliverNothing(q)
        /\ other' = other
  BY DEF Deliver
<1>2. CASE DeliverLoad(q)
  BY <1>1, <1>2, LoadTokens
<1>3. CASE DeliverRedirect(q) \/ DeliverFragment(q) \/ DeliverNothing(q)
  <2>1. tab'.token = tab.token /\ marks' = marks
    BY <1>3 DEF DeliverRedirect, DeliverFragment, DeliverNothing, Tokens, Shapes, TabFields
  <2>2. \/ reqs' = reqs \ {q}
        \/ reqs' = {[p EXCEPT !.lost = Detached(q, p)] : p \in reqs \ {q}}
    BY <1>3 DEF DeliverRedirect, DeliverFragment, DeliverNothing
  <2> QED
    BY <1>1, <2>1, <2>2, AnswerTokens
<1> QED
  BY <1>1, <1>2, <1>3

\* A first request of another tab, with one of this tab in the air, is an overlap.
LEMMA OtherSendTokens == ASSUME Tokens, OtherSend, Shapes' PROVE Tokens'
<1> USE DEF Tokens
<1>1. PICK r, q :
        /\ r.cookie = jar.csrf
        /\ other' = {q}
        /\ q.issues = IssuesToken(r)
        /\ (IssuesToken(r) /\ \E p \in reqs : p.issues) => marks'.overlapped
        /\ marks.overlapped => marks'.overlapped
        /\ marks.expired => marks'.expired
        /\ jar' = jar /\ tab' = tab /\ reqs' = reqs
  <2>1. PICK a, r : SendElsewhere(a, r) /\ r.cookie = jar.csrf
    BY OtherSends
  <2>2. PICK o :
          /\ other' = {[ans |-> o[1], a |-> a, issues |-> IssuesToken(r), csrf |-> TokenOf(r),
                        sent |-> r.who, calm |-> TRUE]}
          /\ marks' =
               [marks EXCEPT
                  !.overlapped = @ \/ (IssuesToken(r) /\ \E q \in reqs : q.issues),
                  !.gone = @ \cup (AllCards(db) \ AllCards(o[2]))]
    BY <2>1, Zenon DEF SendElsewhere
  <2>3. jar' = jar /\ tab' = tab /\ reqs' = reqs
    BY <2>1 DEF SendElsewhere
  <2>4. \E q : other' = {q} /\ q.issues = IssuesToken(r)
    <3> DEFINE q == [ans |-> o[1], a |-> a, issues |-> IssuesToken(r), csrf |-> TokenOf(r),
                     sent |-> r.who, calm |-> TRUE]
    <3>1. q.issues = IssuesToken(r)
      OBVIOUS
    <3>2. other' = {q}
      BY <2>2
    <3> QED
      BY <3>1, <3>2
  <2>5. /\ (IssuesToken(r) /\ \E p \in reqs : p.issues) => marks'.overlapped
        /\ marks.overlapped => marks'.overlapped
        /\ marks.expired => marks'.expired
    BY <2>2 DEF Shapes
  <2> QED
    BY <2>1, <2>3, <2>4, <2>5
<1>2. Marked => Marked'
  BY <1>1 DEF Marked
<1>3. q.issues => jar.csrf = 0
  BY <1>1 DEF IssuesToken
<1>4. TokenKept' /\ Rendered'
  BY <1>1, <1>2 DEF TokenKept, Rendered, Marked
<1>5. FreshPage' /\ FreshJar'
  BY <1>1, <1>2, <1>3 DEF FreshPage, FreshJar, TokenKept, Marked
<1>6. FreshAnswers'
  BY <1>1, <1>2, <1>3 DEF FreshAnswers, Rendered
<1>7. Single'
  BY <1>1, <1>2 DEF Single, Marked
<1> QED
  BY <1>4, <1>5, <1>6, <1>7

\* An answer to another tab that sets the cookie finds no token in this one.
LEMMA OtherDeliverTokens == ASSUME Tokens, OtherDeliver, Shapes' PROVE Tokens'
<1> USE DEF Tokens
<1>1. PICK q \in other : jar' = CookiesAfter(q)
  BY DEF OtherDeliver
<1>2. other' = {} /\ tab' = tab /\ reqs' = reqs /\ marks' = marks
  BY DEF OtherDeliver
<1>3. jar'.csrf = IF q.issues THEN q.csrf ELSE jar.csrf
  BY <1>1 DEF CookiesAfter
<1>4. Marked' = Marked
  BY <1>2 DEF Marked
<1>5. TokenKept' /\ Rendered'
  BY <1>2, <1>3, <1>4 DEF TokenKept, Rendered, FreshPage, FreshAnswers, Marked
<1>6. FreshPage' /\ FreshJar'
  BY <1>2, <1>3, <1>4 DEF FreshPage, FreshJar, Single
<1> QED
  BY <1>2, <1>4, <1>5, <1>6 DEF FreshAnswers, Single

\* So the invariant of the tokens holds after every step.
LEMMA StepTokens == ASSUME Tokens, [Next]_vars PROVE Tokens'
<1>s. Shapes'
  BY StepShapes DEF Tokens
<1>1. CASE Click
  <2>1. PICK a, r : Send(a, r) /\ r.cookie = jar.csrf
    BY <1>1, ClickSends DEF Sends
  <2>2. tab'.token = tab.token
    BY <1>1 DEF Click, Tokens, Shapes, TabFields
  <2> QED
    BY <1>s, <2>1, <2>2, SendTokens
<1>2. CASE Navigate
  <2>1. PICK a, r : Send(a, r) /\ r.cookie = jar.csrf
    BY <1>2, NavigateSends DEF Sends
  <2>2. tab'.token = tab.token
    BY <1>2 DEF Navigate, Tokens, Shapes, TabFields
  <2> QED
    BY <1>s, <2>1, <2>2, SendTokens
<1>3. CASE SessionLapses \/ SessionDies \/ UNCHANGED vars
  <2>1. /\ jar'.csrf = jar.csrf /\ tab' = tab /\ reqs' = reqs /\ other' = other /\ marks' = marks
    BY <1>3 DEF SessionLapses, SessionDies, vars, Tokens, Shapes
  <2> QED
    BY <1>s, <2>1 DEF Tokens, TokenKept, Rendered, FreshPage, FreshJar, FreshAnswers, Single, Marked
<1>4. CASE CsrfExpires
  <2>1. Marked'
    BY <1>4 DEF CsrfExpires, Tokens, Shapes, Marked
  <2> QED
    BY <1>s, <2>1 DEF Tokens, TokenKept, Rendered, FreshPage, FreshJar, FreshAnswers, Single, Marked
<1> QED
  BY <1>s, <1>1, <1>2, <1>3, <1>4, DeliverTokens, OtherSendTokens, OtherDeliverTokens DEF Next

\* For any number of tokens, requests in flight and upsets: the token of a page is
\* the cookie's unless the cookie expired or two first requests overlapped (the
\* CSRF middleware's double submit, and app.js's hx-headers).
THEOREM BrowserTokenKept == Spec => []TokenKept
<1>1. Init => Tokens
  BY InitTokens
<1>2. Tokens /\ [Next]_vars => Tokens'
  BY StepTokens
<1>3. Tokens => TokenKept
  BY DEF Tokens
<1> QED
  BY <1>1, <1>2, <1>3, PTL DEF Spec

-----------------------------------------------------------------------------
(* Rows *)

RowFields == {"cards", "used", "guests", "promoted"}
RowsOK(d) ==
  /\ DOMAIN d = RowFields /\ DOMAIN d.cards = Accounts
  /\ d.guests \in 0 .. MaxGuests
  /\ \A u \in Accounts : d.cards[u] \subseteq d.used
  /\ d.used \subseteq Cards /\ d.promoted \subseteq Guests

\* What a cookie may stand for when the rows are d.
Signed(d) == {Guest(n) : n \in 1 .. d.guests}
Identities(d) == {"none", "dead", "user"} \cup Signed(d)

\* No account is called like what a cookie may hold besides one.
LEMMA AccountsAre ==
  /\ "none" \notin Accounts /\ "dead" \notin Accounts /\ "keep" \notin Accounts
  /\ "user" \in Accounts
BY GuestAssumption DEF Accounts, Guests, Guest

\* What a cookie may stand for is a session, and with more rows still is.
LEMMA IdentitiesAre ==
  ASSUME NEW d, RowsOK(d)
  PROVE  /\ Identities(d) \subseteq Sessions
         /\ \A e : RowsOK(e) /\ d.guests <= e.guests => Identities(d) \subseteq Identities(e)
BY GuestAssumption DEF RowsOK, Identities, Signed, Sessions, Accounts, Guests

\* A statement of a handler: rows of no other kind, and no account more.
Wrote(d, e) == RowsOK(d) => RowsOK(e) /\ e.guests = d.guests

-----------------------------------------------------------------------------
(* Answers.  One is mild for `who` if it leaves the session as it is or sets   *)
(* who's, and redirects to a page that redirects who no further.               *)

AnswerFields == {"status", "view", "to", "nav", "set", "as"}
Takers == {"/auth/login", "/auth/logout", "/auth/reset"}
Landings(who) ==
  {"/auth/page", "/learn/flashcards", "/learn/flashcards?check=1", "/dashboard"}
    \cup (IF who \in Accounts THEN {"/profile"} ELSE {})

Mild(a, who) ==
  /\ DOMAIN a = AnswerFields
  /\ a.set \in {"keep", who}
  /\ a.status = 303 => a.to \in Landings(who)
AllMild(outcomes, who, d) == \A o \in outcomes : Mild(o[1], who) /\ Wrote(d, o[2])

\* A page that is shown, ...
LEMMA MildShow == ASSUME NEW status, status # 303, NEW v, NEW who PROVE Mild(Show(status, v), who)
BY DEF Mild, Show, AnswerFields

\* ... an error, ...
LEMMA MildError == ASSUME NEW status, status # 303, NEW who PROVE Mild(Error(status), who)
BY MildShow DEF Error

\* ... a redirect to a page, ...
LEMMA MildSeeOther ==
  ASSUME NEW who, NEW path \in Landings(who) PROVE Mild(SeeOther(path), who)
BY DEF Mild, SeeOther, Show, AnswerFields

\* ... and one by header are mild, ...
LEMMA MildRedirect ==
  ASSUME NEW status, status # 303, NEW path, NEW who PROVE Mild(SetHXRedirect(status, path), who)
BY DEF Mild, SetHXRedirect, Show, AnswerFields

\* ... and so is an answer with the rows as they are, or as a statement left them.
LEMMA MildReply ==
  ASSUME NEW a, NEW d, NEW who, Mild(a, who)
  PROVE  /\ AllMild(Reply(a, d), who, d)
         /\ \A e : Wrote(d, e) => AllMild(Reply(a, e), who, d)
BY DEF AllMild, Reply, Wrote

\* Nobody signed in, ...
LEMMA MildLoggedOut == ASSUME NEW u, NEW d PROVE AllMild(Reply(SeeOther("/auth/page"), d), u, d)
BY MildSeeOther, MildReply DEF Landings

\* ... or the database failed: the handlers' common refusals.
LEMMA MildFailure == ASSUME NEW u, NEW d PROVE AllMild(Reply(Error(500), d), u, d)
BY MildError, MildReply

\* The handlers one by one: the quiz, ...
LEMMA MildQuizPage ==
  ASSUME NEW r, NEW u, NEW d, NEW s PROVE AllMild(quizPage(r, u, d, s), u, d)
<1>1. /\ AllMild(Reply(Quiz(r, u, d, 200, "QuizTeaser", {}, {}, FALSE), d), u, d)
      /\ AllMild(Reply(Quiz(r, u, d, 200, "QuizEmptyState", {}, {}, FALSE), d), u, d)
  <2> DEFINE empty(name) == Quiz(r, u, d, 200, name, {}, {}, FALSE)
  <2>1. \A name : Mild(empty(name), u)
    BY MildShow DEF Quiz
  <2> HIDE DEF empty
  <2>2. \A name : AllMild(Reply(empty(name), d), u, d)
    BY <2>1, MildReply
  <2> QED
    BY <2>2 DEF empty
<1>2. ASSUME NEW asked
      PROVE  AllMild({<<Quiz(r, u, d, 200, "QuizQuestionCard", TopicOf(r), {q}, TRUE), d>> :
                        q \in asked}, u, d)
  <2> DEFINE card(q) == Quiz(r, u, d, 200, "QuizQuestionCard", TopicOf(r), {q}, TRUE)
  <2>1. \A q : Mild(card(q), u)
    BY MildShow DEF Quiz
  <2> HIDE DEF card
  <2>2. AllMild({<<card(q), d>> : q \in asked}, u, d)
    BY <2>1 DEF AllMild, Wrote
  <2> QED
    BY <2>2 DEF card
<1> QED
  BY <1>1, <1>2, MildFailure, Zenon DEF quizPage

\* ... an answer to one of its questions, ...
LEMMA MildQuizAnswer ==
  ASSUME NEW r, NEW u, NEW d, NEW s PROVE AllMild(quizAnswer(r, u, d, s), u, d)
<1>1. AllMild(Reply(Quiz(r, u, d, 422, "QuizQuestionCard", TopicOf(r), r.of, FALSE), d), u, d)
  <2> DEFINE again == Quiz(r, u, d, 422, "QuizQuestionCard", TopicOf(r), r.of, FALSE)
  <2>1. Mild(again, u)
    BY MildShow DEF Quiz
  <2> HIDE DEF again
  <2>2. AllMild(Reply(again, d), u, d)
    BY <2>1, MildReply
  <2> QED
    BY <2>2 DEF again
<1>2. ASSUME NEW flags, NEW of
      PROVE  AllMild({<<Quiz(r, u, d, 200, "QuizResult", flags \cup offer, of, FALSE), d>> :
                        offer \in {{}, {"offer"}}}, u, d)
  <2> DEFINE result(offer) == Quiz(r, u, d, 200, "QuizResult", flags \cup offer, of, FALSE)
  <2>1. \A offer : Mild(result(offer), u)
    BY MildShow DEF Quiz
  <2> HIDE DEF result
  <2>2. AllMild({<<result(offer), d>> : offer \in {{}, {"offer"}}}, u, d)
    BY <2>1 DEF AllMild, Wrote
  <2> QED
    BY <2>2 DEF result
<1>3. CASE u = "none" \/ r.fault = "db" \/ ~r.valid
  <2> DEFINE again == Reply(Quiz(r, u, d, 422, "QuizQuestionCard", TopicOf(r), r.of, FALSE), d)
  <2>1. quizAnswer(r, u, d, s) \in {Reply(SeeOther("/auth/page"), d), Reply(Error(500), d), again}
    BY <1>3 DEF quizAnswer
  <2> HIDE DEF again
  <2>2. AllMild(again, u, d)
    BY <1>1 DEF again
  <2> QED
    BY <2>1, <2>2, MildLoggedOut, MildFailure
<1>4. CASE ~(u = "none" \/ r.fault = "db" \/ ~r.valid)
  <2> DEFINE q == CHOOSE i \in r.of : TRUE
             run == quizRun(s, q, TopicOf(r))
             next == {i \in Range(run) : i > q}
             flags == TopicOf(r) \cup (IF next = {} THEN {"done"} ELSE {})
             of == IF next = {} THEN {} ELSE {Min(next)}
  <2>1. quizAnswer(r, u, d, s) =
          {<<Quiz(r, u, d, 200, "QuizResult", flags \cup offer, of, FALSE), d>> :
             offer \in {{}, {"offer"}}}
    BY <1>4, Zenon DEF quizAnswer
  <2> HIDE DEF flags, of
  <2>2. AllMild({<<Quiz(r, u, d, 200, "QuizResult", flags \cup offer, of, FALSE), d>> :
                   offer \in {{}, {"offer"}}}, u, d)
    BY <1>2, Zenon
  <2> QED
    BY <2>1, <2>2, Zenon
<1> QED
  BY <1>3, <1>4

\* ... what a form that wrote shows, ...
LEMMA MildAfterWrite == ASSUME NEW r, NEW u, NEW v PROVE Mild(AfterWrite(r, v), u)
BY MildShow, MildSeeOther DEF AfterWrite, Landings

\* ... a new card, ...
LEMMA MildCreate ==
  ASSUME NEW r, NEW u \in Accounts \cup {"none"}, NEW d PROVE AllMild(flashcardCreate(r, u, d), u, d)
<1>1. CASE u = "none" \/ ~r.valid \/ r.fault = "db"
  <2>1. AllMild(Reply(Show(422, V("FlashcardSaveError", {}, {})), d), u, d)
    BY MildShow, MildReply
  <2> DEFINE refused == Reply(Show(422, V("FlashcardSaveError", {}, {})), d)
  <2>2. \/ flashcardCreate(r, u, d) = Reply(SeeOther("/auth/page"), d)
        \/ flashcardCreate(r, u, d) = Reply(Error(500), d)
        \/ flashcardCreate(r, u, d) = refused
    BY <1>1, Zenon DEF flashcardCreate
  <2> HIDE DEF refused
  <2>3. AllMild(refused, u, d)
    BY <2>1 DEF refused
  <2> QED
    BY <2>2, <2>3, MildLoggedOut, MildFailure
<1>2. CASE ~(u = "none" \/ ~r.valid \/ r.fault = "db")
  <2> DEFINE saved == AfterWrite(r, V("FlashcardSaved", {}, {}))
             after(c) == [d EXCEPT !.cards[u] = @ \cup {c}, !.used = @ \cup {c}]
  <2>1. Mild(saved, u)
    BY MildAfterWrite
  <2>2. ASSUME NEW c \in Cards \ d.used PROVE Wrote(d, after(c))
    BY <1>2 DEF Wrote, RowsOK, RowFields
  <2>3. flashcardCreate(r, u, d) = {<<saved, after(c)>> : c \in Cards \ d.used}
    BY <1>2, Zenon DEF flashcardCreate
  <2> HIDE DEF saved, after
  <2> QED
    BY <2>1, <2>2, <2>3 DEF AllMild
<1> QED
  BY <1>1, <1>2

\* ... one deleted, ...
LEMMA MildDelete ==
  ASSUME NEW r, NEW u \in Accounts \cup {"none"}, NEW d PROVE AllMild(flashcardDelete(r, u, d), u, d)
<1> DEFINE after == [d EXCEPT !.cards[u] = @ \ r.of]
<1>1. u # "none" => Wrote(d, after)
  BY DEF Wrote, RowsOK, RowFields
<1>2. Mild(AfterWrite(r, Nothing), u)
  BY MildAfterWrite
<1> HIDE DEF after
<1>3. u # "none" => AllMild(Reply(AfterWrite(r, Nothing), after), u, d)
  BY <1>1, <1>2, MildReply
<1> DEFINE gone == Reply(AfterWrite(r, Nothing), after)
<1>4. \/ flashcardDelete(r, u, d) \in {Reply(SeeOther("/auth/page"), d), Reply(Error(500), d)}
      \/ u # "none" /\ flashcardDelete(r, u, d) = gone
  BY DEF flashcardDelete, after
<1> QED
  BY <1>3, <1>4, MildLoggedOut, MildFailure

\* ... a guest who registers, ...
LEMMA MildUpgrade ==
  ASSUME NEW r, NEW u \in Accounts \cup {"none"}, NEW d PROVE AllMild(UpgradeSubmit(r, u, d), u, d)
<1> DEFINE form(status, flags) == renderUpgradeForm(r, status, flags)
           done == [form(200, {"success"}) EXCEPT !.set = u]
           after == [d EXCEPT !.promoted = @ \cup {u}]
<1>1. Mild(form(200, {"success"}), u) /\ Mild(form(422, {}), u)
  BY MildShow DEF renderUpgradeForm
<1>2. Mild(done, u)
  BY <1>1 DEF Mild, AnswerFields
<1>3. IsAnonymous(u, d) => Wrote(d, after)
  BY DEF IsAnonymous, Wrote, RowsOK, RowFields
<1>4. Mild(Show(200, V("UpgradePage", {"registered"}, {})), u)
  BY MildShow
<1> HIDE DEF form, done, after
<1>5. AllMild(Reply(form(422, {}), d), u, d)
  BY <1>1, MildReply
<1>6. AllMild(Reply(Show(200, V("UpgradePage", {"registered"}, {})), d), u, d)
  BY <1>4, MildReply
<1>7. IsAnonymous(u, d) => AllMild(Reply(done, after), u, d)
  BY <1>2, <1>3, MildReply
<1>8. \/ UpgradeSubmit(r, u, d) \in {Reply(SeeOther("/auth/page"), d), Reply(form(422, {}), d),
                                    Reply(Show(200, V("UpgradePage", {"registered"}, {})), d)}
      \/ IsAnonymous(u, d) /\ UpgradeSubmit(r, u, d) = Reply(done, after)
  BY DEF UpgradeSubmit, form, done, after
<1> QED
  BY <1>5, <1>6, <1>7, <1>8, MildLoggedOut

\* ... and so all of the routes under /learn, ...
LEMMA MildLearn ==
  ASSUME NEW r, NEW u \in Accounts \cup {"none"}, NEW d, NEW s
  PROVE AllMild(learnRoutes(r, u, d, s), u, d)
<1> USE MildShow, MildReply
<1>1. AllMild(Reply(SeeOther("/auth/page"), d), u, d) /\ AllMild(Reply(Error(500), d), u, d)
  BY MildLoggedOut, MildFailure
<1>2. AllMild(flashcardsPage(r, u, d), u, d)
  BY <1>1 DEF flashcardsPage
<1>3. AllMild(flashcardSetKnown(r, u, d), u, d)
  BY <1>1, MildError, MildAfterWrite DEF flashcardSetKnown
<1>4. AllMild(flashcardIsolation(r, u, d), u, d)
  BY <1>1, MildSeeOther DEF flashcardIsolation, Landings
<1>5. AllMild(Reply(DashboardPage_(u, d), d), u, d)
  BY DEF DashboardPage_
<1>6. AllMild(dashboardQuizWidget(r, u, d), u, d)
  BY <1>1 DEF dashboardQuizWidget, AllMild, Wrote
<1>7. AllMild(dashboardFlashcardWidget(r, u, d), u, d)
  BY <1>1 DEF dashboardFlashcardWidget
<1>8. AllMild(Reply(UpgradePage_(u, d), d), u, d)
  BY <1>1 DEF UpgradePage_
<1>9. AllMild(Reply(Error(405), d), u, d)
  BY MildError
<1> QED
  BY <1>2, <1>3, <1>4, <1>5, <1>6, <1>7, <1>8, <1>9, MildQuizPage, MildQuizAnswer,
     MildCreate, MildDelete, MildUpgrade, Zenon
  DEF learnRoutes

\* ... and of those that need an account.
LEMMA MildProtected ==
  ASSUME NEW r, NEW u \in Accounts, NEW d
  PROVE AllMild(protectedRoutes(r, u, d), u, d)
<1> USE MildShow, MildError, MildReply
<1>1. "/profile" \in Landings(u) /\ "/dashboard" \in Landings(u)
  BY DEF Landings
<1>2. Mild(ProfileUpdate(r, u, d), u)
  BY <1>1, MildSeeOther DEF ProfileUpdate
<1>3. Mild(ProfilePasswordUpdate(r, u, d), u)
  BY <1>1, MildSeeOther DEF ProfilePasswordUpdate, renderPasswordForm
<1>4. Mild(ShowFirstRunWelcome, u) /\ Mild(ShowFirstRunProfile, u)
  BY DEF ShowFirstRunWelcome, ShowFirstRunProfile
<1>5. Mild(ShowFirstRunCTAs(r), u)
  BY <1>1, MildSeeOther DEF ShowFirstRunCTAs
<1> QED
  BY <1>2, <1>3, <1>4, <1>5 DEF protectedRoutes

\* Saying for whom an answer was made changes nothing of that.
LEMMA MildIdentified ==
  ASSUME NEW outcomes, NEW who, NEW u, NEW d, AllMild(outcomes, who, d)
  PROVE AllMild(Identified(outcomes, u), who, d)
BY DEF AllMild, Identified, Mild, AnswerFields

\* The routes that need a session, for a request that has one.
LEMMA MildValidated ==
  ASSUME NEW r, r.who \in Accounts, r.fault # "auth", NEW d
  PROVE  AllMild(AuthMiddleware(r, d), r.who, d)
<1>1. AllMild(LoaderFails(r, d), r.who, d)
  BY MildFailure DEF LoaderFails, AllMild
<1>2. AllMild(protectedRoutes(r, r.who, d) \cup LoaderFails(r, d), r.who, d)
  BY <1>1, MildProtected DEF AllMild
<1>3. AllMild(Reply(Error(429), d) \cup LoaderFails(r, d), r.who, d)
  <2>1. AllMild(Reply(Error(429), d), r.who, d)
    BY MildError, MildReply
  <2> QED
    BY <1>1, <2>1 DEF AllMild
<1> DEFINE admitted == IF r.fault = "tier" /\ r.path = "/profile/password"
                       THEN Reply(Error(429), d) ELSE protectedRoutes(r, r.who, d)
<1>4. AllMild(admitted \cup LoaderFails(r, d), r.who, d)
  BY <1>2, <1>3
<1>5. AuthMiddleware(r, d) = Identified(admitted \cup LoaderFails(r, d), r.who)
  BY Zenon DEF AuthMiddleware, validateSession
<1> HIDE DEF admitted
<1> QED
  BY <1>4, <1>5, MildIdentified

\* The routes that read a session if there is one, before a cookie is cleared.
Admitted(r, u, d, s) ==
  (IF r.fault = "tier" THEN Reply(Error(429), d) ELSE learnRoutes(r, u, d, s))
    \cup (IF u = "none" THEN {} ELSE LoaderFails(r, d))

\* Past the limiter, or refused by it, or with the loader's failure.
LEMMA MildAdmitted ==
  ASSUME NEW r, NEW u \in Accounts \cup {"none"}, NEW d, NEW s
  PROVE  AllMild(Admitted(r, u, d, s), u, d)
<1>1. AllMild(LoaderFails(r, d), u, d)
  BY MildFailure DEF LoaderFails, AllMild
<1>2. AllMild(Reply(Error(429), d), u, d)
  BY MildError, MildReply
<1> QED
  BY <1>1, <1>2, MildLearn DEF AllMild, Admitted

\* The same routes, with the session looked up on the way.
LEMMA MildOptional ==
  ASSUME NEW r, NEW who \in Accounts, r.fault # "auth", NEW d, NEW s
  PROVE  AllMild(OptionalAuth(r, who, d, s), who, d)
<1>1. OptionalAuth(r, who, d, s) = Identified(Admitted(r, who, d, s), who)
  BY AccountsAre DEF OptionalAuth, validateSession, Admitted
<1> QED
  BY <1>1, MildAdmitted, MildIdentified

\* Under /auth only signing in, out and a new password set a session.
LEMMA MildAuth ==
  ASSUME NEW r, r.path \notin Takers, NEW who
  PROVE \A a \in authRoutes(r) : Mild(a, who)
BY MildShow, MildError DEF authRoutes, AuthSignupPost, AuthRecoverPost, authFeedback, Takers

\* Pages anyone may read set none.
LEMMA MildPublic == ASSUME NEW r, NEW who PROVE \A a \in publicRoutes(r) : Mild(a, who)
<1>1. \A a \in PatternAnswers(r) : a[1] # 303
  BY DEF PatternAnswers, PatternLimited
<1> QED
  BY <1>1, MildShow DEF publicRoutes

\* Whatever a request is, its answer is mild for the account it was sent under
\* unless it signs in or out or GoTrue refuses the token.
LEMMA ServeMild ==
  ASSUME NEW r, r.who \in Accounts, r.fault # "auth", r.path \notin Takers, NEW d, NEW s
  PROVE AllMild(Serve(r, d, s), r.who, d)
<1>1. AllMild(learnGroup(r, d, s), r.who, d)
  BY AccountsAre, MildOptional DEF learnGroup, GuestSession
<1>2. AllMild({<<a, d>> : a \in IF r.path \in AuthPaths THEN authRoutes(r) ELSE publicRoutes(r)},
              r.who, d)
  BY MildAuth, MildPublic DEF AllMild, Wrote
<1>3. \A status : status # 303 => AllMild(Reply(Error(status), d), r.who, d)
  BY MildError, MildReply
<1> QED
  BY <1>1, <1>2, <1>3, MildValidated DEF Serve

-----------------------------------------------------------------------------
(* Redirects *)

\* The request a 303 is followed with.
Next303(r, a) ==
  [r EXCEPT !.verb = "GET", !.path = a.to, !.of = {},
            !.who = IF a.set = "keep" THEN r.who ELSE a.set,
            !.cookie = IF @ = 0 THEN -1 ELSE @, !.fault = "none"]

\* It is a plain GET of where it was sent, under the cookie the answer set.
LEMMA NextIs ==
  ASSUME NEW r, RequestFields \subseteq DOMAIN r, NEW a
  PROVE  /\ Next303(r, a).verb = "GET" /\ Next303(r, a).path = a.to
         /\ Next303(r, a).fault = "none"
         /\ Next303(r, a).who = IF a.set = "keep" THEN r.who ELSE a.set
BY DEF Next303, RequestFields

\* Any other answer is final; a 303 is replaced by what its target answers.
LEMMA FollowIs ==
  ASSUME NEW r, NEW o
  PROVE  /\ o[1].status # 303 => Follow(r, o) = {o}
         /\ o[1].status = 303 =>
              Follow(r, o) = {<<Then(o[1], p[1]), p[2]>> : p \in Serve(Next303(r, o[1]), o[2], site)}
BY DEF Follow, Next303

\* After the redirect, too, the session is left alone or set for whom it was.
LEMMA FollowMild ==
  ASSUME NEW r, r.who \in Accounts, r.fault # "auth", RequestFields \subseteq DOMAIN r,
         NEW o, Mild(o[1], r.who), NEW p \in Follow(r, o)
  PROVE  p[1].set \in {"keep", r.who}
<1>1. CASE o[1].status # 303
  BY <1>1, FollowIs DEF Mild
<1>2. CASE o[1].status = 303
  <2> DEFINE n == Next303(r, o[1])
  <2>1. n.who = r.who /\ n.path \notin Takers /\ n.fault # "auth"
    BY <1>2, NextIs DEF Mild, Landings, Takers
  <2> HIDE DEF n
  <2>2. PICK q \in Serve(n, o[2], site) : p = <<Then(o[1], q[1]), q[2]>>
    BY <1>2, FollowIs DEF n
  <2>3. Mild(q[1], r.who)
    BY <2>1, <2>2, ServeMild DEF AllMild
  <2> QED
    BY <2>2, <2>3 DEF Then, Mild, AnswerFields
<1> QED
  BY <1>1, <1>2

-----------------------------------------------------------------------------
(* Sessions *)

\* What an answer under way will do to the session.
Respectful(q) ==
  \/ q.ans.set \in {"keep", q.sent}
  \/ q.sent \notin Accounts
  \/ ~q.calm
  \/ q.a.path \in Takers

Respect ==
  /\ Shapes
  /\ \A q \in reqs \cup other : Respectful(q)

\* A request sent now is answered under the session of now.
LEMMA SendRespect ==
  ASSUME Respect, NEW a, NEW r, Sends(a, r), Shapes' PROVE Respect'
<1>1. PICK o \in Answers(r) :
        reqs' = reqs \cup
          {[a |-> a, ans |-> o[1], anon |-> IsAnonymous(o[1].as, o[2]),
            issues |-> IssuesToken(r), csrf |-> TokenOf(r), sent |-> r.who,
            calm |-> r.fault # "auth", lost |-> a.hole \notin DOMAIN tab.at]}
  BY DEF Sends, Send
<1> DEFINE q == [a |-> a, ans |-> o[1], anon |-> IsAnonymous(o[1].as, o[2]),
                 issues |-> IssuesToken(r), csrf |-> TokenOf(r), sent |-> r.who,
                 calm |-> r.fault # "auth", lost |-> a.hole \notin DOMAIN tab.at]
<1>2. q.ans = o[1] /\ q.sent = r.who /\ q.calm = (r.fault # "auth") /\ q.a = a
  OBVIOUS
<1>3. reqs' = reqs \cup {q} /\ other' = other
  BY <1>1 DEF Sends, Send
<1> HIDE DEF q
<1>4. ASSUME r.who \in Accounts, r.fault # "auth", a.path \notin Takers
      PROVE  o[1].set \in {"keep", r.who}
  <2>1. PICK p \in Serve(r, db, site) : o \in Follow(r, p)
    BY DEF Answers
  <2>2. Mild(p[1], r.who)
    BY <1>4, ServeMild DEF Sends, AllMild
  <2> QED
    BY <1>4, <2>1, <2>2, FollowMild DEF Sends
<1>5. Respectful(q)
  BY <1>2, <1>4 DEF Respectful
<1> QED
  BY <1>3, <1>5 DEF Respect

\* So is one of another tab.
LEMMA OtherSendRespect == ASSUME Respect, OtherSend, Shapes' PROVE Respect'
<1>1. PICK a, r : /\ SendElsewhere(a, r)
                  /\ r.fault # "auth" /\ r.path = a.path /\ RequestFields \subseteq DOMAIN r
  BY OtherSends
<1> DEFINE sent == [r EXCEPT !.sent = jar.csrf]
<1>2. sent.who = r.who /\ sent.fault # "auth" /\ sent.path = a.path
  BY <1>1 DEF RequestFields
<1>3. reqs' = reqs
  BY <1>1 DEF SendElsewhere
<1>4. PICK o \in Serve(sent, db, site) :
        other' = {[ans |-> o[1], a |-> a, issues |-> IssuesToken(r), csrf |-> TokenOf(r),
                   sent |-> r.who, calm |-> TRUE]}
  BY <1>1, Zenon DEF SendElsewhere
<1> HIDE DEF sent
<1> DEFINE q == [ans |-> o[1], a |-> a, issues |-> IssuesToken(r), csrf |-> TokenOf(r),
                 sent |-> r.who, calm |-> TRUE]
<1>5. q.ans = o[1] /\ q.sent = r.who /\ q.a = a
  OBVIOUS
<1>6. other' = {q}
  BY <1>4
<1> HIDE DEF q
<1>7. r.who \in Accounts /\ a.path \notin Takers => o[1].set \in {"keep", r.who}
  BY <1>2, ServeMild DEF AllMild, Mild
<1> QED
  BY <1>3, <1>5, <1>6, <1>7 DEF Respect, Respectful

\* Using an answer leaves what the others will do to the session as it is.
LEMMA DeliverRespect == ASSUME Respect, Deliver, Shapes' PROVE Respect'
<1>1. other' = other
  BY DEF Deliver
<1>2. ASSUME NEW p \in reqs' PROVE Respectful(p)
  <2>1. PICK q \in reqs :
          DeliverLoad(q) \/ DeliverRedirect(q) \/ DeliverFragment(q) \/ DeliverNothing(q)
    BY DEF Deliver
  <2>2. CASE DeliverFragment(q)
    <3>1. PICK s \in reqs : p = [s EXCEPT !.lost = Detached(q, s)]
      BY <1>2, <2>2 DEF DeliverFragment
    <3>2. p.ans = s.ans /\ p.sent = s.sent /\ p.calm = s.calm /\ p.a = s.a
      BY <3>1 DEF Respect, Shapes, ReqFields
    <3> QED
      BY <3>2 DEF Respect, Respectful
  <2>3. CASE DeliverLoad(q) \/ DeliverRedirect(q) \/ DeliverNothing(q)
    BY <1>2, <2>3 DEF DeliverLoad, DeliverRedirect, DeliverNothing, Respect
  <2> QED
    BY <2>1, <2>2, <2>3
<1> QED
  BY <1>1, <1>2 DEF Respect

\* So that every answer under way respects the session it was asked for under.
LEMMA StepRespect == ASSUME Respect, [Next]_vars PROVE Respect'
<1>s. Shapes'
  BY StepShapes DEF Respect
<1>1. CASE Click
  BY <1>s, <1>1, ClickSends, SendRespect
<1>2. CASE Navigate
  BY <1>s, <1>2, NavigateSends, SendRespect
<1>3. CASE OtherDeliver
  BY <1>s, <1>3 DEF OtherDeliver, Respect
<1>4. CASE SessionLapses \/ SessionDies \/ CsrfExpires \/ UNCHANGED vars
  BY <1>s, <1>4 DEF SessionLapses, SessionDies, CsrfExpires, vars, Respect
<1> QED
  BY <1>s, <1>1, <1>2, <1>3, <1>4, DeliverRespect, OtherSendRespect DEF Next

\* For any number of accounts, requests and upsets: a session is taken or replaced
\* by an answer only if it was asked for under other cookies, signs in or out, or
\* GoTrue refused its token (validateSession, GuestSession, Cleared).
THEOREM BrowserSessionTaken == Spec => SessionTaken
<1>1. Init => Respect
  BY InitShapes DEF Init, Respect
<1>2. Respect /\ [Next]_vars => Respect'
  BY StepRespect
<1>3. Respect =>
        \A q \in (reqs \ reqs') \cup (other \ other') :
          jar.who \in Accounts /\ jar' = CookiesAfter(q) /\ jar'.who # jar.who =>
            q.sent # jar.who \/ ~q.calm
              \/ q.a.path \in {"/auth/login", "/auth/logout", "/auth/reset"}
  <2> SUFFICES ASSUME Respect,
                      NEW q \in (reqs \ reqs') \cup (other \ other'),
                      jar.who \in Accounts, jar' = CookiesAfter(q), jar'.who # jar.who
               PROVE  q.sent # jar.who \/ ~q.calm \/ q.a.path \in Takers
    BY DEF Takers
  <2>1. jar'.who = IF q.ans.set = "keep" THEN jar.who ELSE q.ans.set
    BY DEF CookiesAfter
  <2>2. Respectful(q)
    BY DEF Respect
  <2> QED
    BY <2>1, <2>2 DEF Respectful
<1> QED
  BY <1>1, <1>2, <1>3, PTL DEF Spec, SessionTaken

-----------------------------------------------------------------------------
(* Every answer, whoever asks *)

\* An answer to r and the rows after it.
Answered(r, d, o) ==
  /\ DOMAIN o[1] = AnswerFields
  /\ RowsOK(o[2]) /\ d.guests <= o[2].guests
  /\ o[1].set \in {"keep"} \cup Identities(o[2])
  /\ o[1].status = 303 => o[1].to \in Landings(IF o[1].set = "keep" THEN r.who ELSE o[1].set)

\* A mild answer is one.
LEMMA MildAnswered ==
  ASSUME NEW d, RowsOK(d), NEW r, r.who \in Identities(d),
         NEW o, Mild(o[1], r.who), Wrote(d, o[2])
  PROVE  Answered(r, d, o)
<1>1. RowsOK(o[2]) /\ o[2].guests = d.guests /\ d.guests <= o[2].guests
  BY DEF Wrote, RowsOK
<1>2. r.who \in Identities(o[2])
  BY <1>1, IdentitiesAre
<1> QED
  BY <1>1, <1>2 DEF Answered, Mild

\* Under /auth no handler redirects by 303, and a session is the user's or none.
LEMMA AuthAnswers ==
  ASSUME NEW r, NEW a \in authRoutes(r)
  PROVE  DOMAIN a = AnswerFields /\ a.set \in {"keep", "user", "none"} /\ a.status # 303
<1>1. \A status, v : LET b == Show(status, v) IN
        DOMAIN b = AnswerFields /\ b.set = "keep" /\ b.status = status
  BY DEF Show, AnswerFields
<1>2. \A status, path : LET b == SetHXRedirect(status, path) IN
        DOMAIN b = AnswerFields /\ b.set = "keep" /\ b.status = status
  BY DEF SetHXRedirect, Show, AnswerFields
<1>3. \A status : LET b == Error(status) IN
        DOMAIN b = AnswerFields /\ b.set = "keep" /\ b.status = status
  BY <1>1 DEF Error
<1>4. \A status : LET b == authFeedback(status) IN
        DOMAIN b = AnswerFields /\ b.set = "keep" /\ b.status = status
  BY <1>1 DEF authFeedback
<1> DEFINE signs(S) == \A b \in S : /\ DOMAIN b = AnswerFields
                                    /\ b.set \in {"keep", "user", "none"} /\ b.status # 303
<1>5. \A v : signs({Show(200, v)})
  BY <1>1
<1>6. signs({Error(429)}) /\ signs({Error(405)})
  BY <1>3
<1>7. signs(AuthLoginPost(r))
  BY <1>2, <1>4 DEF AuthLoginPost, SetSession, AnswerFields
<1>8. signs(AuthSignupPost(r)) /\ signs(AuthRecoverPost(r))
  BY <1>4 DEF AuthSignupPost, AuthRecoverPost
<1>9. signs(AuthResetPost(r))
  BY <1>2, <1>4 DEF AuthResetPost
<1>10. signs(AuthResetPage(r))
  <2> DEFINE page == Show(200, V("ResetPage", {"valid"}, {}))
             blank == Show(200, V("ResetPage", {}, {}))
  <2>1. /\ DOMAIN page = AnswerFields /\ page.status = 200
        /\ DOMAIN blank = AnswerFields /\ blank.set = "keep" /\ blank.status = 200
    BY <1>1
  <2>2. AuthResetPage(r) = {IF r.valid /\ r.fault # "auth"
                            THEN [page EXCEPT !.set = "user", !.as = "user"] ELSE blank}
    BY DEF AuthResetPage
  <2> HIDE DEF page, blank
  <2> DEFINE signed == [page EXCEPT !.set = "user", !.as = "user"]
  <2>3. DOMAIN signed = AnswerFields /\ signed.set = "user" /\ signed.status = 200
    BY <2>1 DEF AnswerFields
  <2>4. AuthResetPage(r) \subseteq {signed, blank}
    BY <2>2
  <2> HIDE DEF signed
  <2> QED
    BY <2>1, <2>3, <2>4
<1>11. signs(AuthLogoutPost)
  BY <1>2 DEF AuthLogoutPost, SetSession, AnswerFields
<1> HIDE DEF signs
<1>12. signs(authRoutes(r))
  BY <1>5, <1>6, <1>7, <1>8, <1>9, <1>10, <1>11 DEF authRoutes
<1> QED
  BY <1>12 DEF signs

\* Without a session: the login, and the cookies cleared.
LEMMA LoginAnswers ==
  ASSUME NEW d, RowsOK(d), NEW r, r.who \in Identities(d), ~validateSession(r, r.who),
         NEW o \in AuthMiddleware(r, d)
  PROVE  Answered(r, d, o)
<1>1. o = <<[Cleared(toLogin(r), r.who) EXCEPT !.as = "none"], d>>
  BY DEF AuthMiddleware, Identified, Reply
<1>2. Mild(toLogin(r), "none") /\ toLogin(r).status \in {303, 401}
      /\ (toLogin(r).status = 303 => toLogin(r).to = "/auth/page")
  <2>1. Mild(SeeOther("/auth/page"), "none") /\ Mild(SetHXRedirect(401, "/auth/page"), "none")
    BY MildSeeOther, MildRedirect DEF Landings
  <2>2. /\ SeeOther("/auth/page").status = 303 /\ SeeOther("/auth/page").to = "/auth/page"
        /\ SetHXRedirect(401, "/auth/page").status = 401
    BY DEF SeeOther, SetHXRedirect, Show
  <2> QED
    BY <2>1, <2>2 DEF toLogin
<1> DEFINE a == toLogin(r)
<1> HIDE DEF a
<1>3. o[1] = [Cleared(a, r.who) EXCEPT !.as = "none"] /\ o[2] = d
  BY <1>1 DEF a
<1>4. /\ DOMAIN o[1] = AnswerFields /\ o[1].set \in {"keep", "none"}
      /\ o[1].status = a.status /\ o[1].to = a.to
  BY <1>2, <1>3 DEF a, Mild, Cleared, AnswerFields
<1>5. d.guests <= d.guests
  BY DEF RowsOK
<1> QED
  BY <1>2, <1>3, <1>4, <1>5 DEF a, Answered, Identities, Landings

\* Without one where none is needed: the cookies cleared.
LEMMA ClearedAnswers ==
  ASSUME NEW d, RowsOK(d), NEW r, r.who \in Identities(d), ~validateSession(r, r.who), NEW s,
         NEW o \in OptionalAuth(r, r.who, d, s)
  PROVE  Answered(r, d, o)
<1>1. OptionalAuth(r, r.who, d, s) =
        Identified({<<Cleared(p[1], r.who), p[2]>> : p \in Admitted(r, "none", d, s)}, "none")
  BY DEF OptionalAuth, Admitted
<1>2. PICK p \in Admitted(r, "none", d, s) :
        o = <<[Cleared(p[1], r.who) EXCEPT !.as = "none"], p[2]>>
  BY <1>1 DEF Identified
<1>3. Mild(p[1], "none") /\ Wrote(d, p[2])
  BY MildAdmitted DEF AllMild
<1>4. /\ DOMAIN o[1] = AnswerFields /\ o[1].set \in {"keep", "none"}
      /\ o[1].status = p[1].status /\ o[1].to = p[1].to /\ o[2] = p[2]
  BY <1>2, <1>3 DEF Mild, Cleared, AnswerFields
<1>5. RowsOK(o[2]) /\ d.guests <= o[2].guests
  BY <1>3, <1>4 DEF Wrote, RowsOK
<1>6. o[1].status = 303 => o[1].to \in Landings("none") /\ \A who : o[1].to \in Landings(who)
  BY <1>3, <1>4, AccountsAre DEF Mild, Landings
<1> QED
  BY <1>4, <1>5, <1>6 DEF Answered, Identities

\* A first contact: the guest account is the cookie's.
LEMMA GuestAnswers ==
  ASSUME NEW d, RowsOK(d), NEW r, NEW s, GuestSession(r, d, s), NEW o \in learnGroup(r, d, s)
  PROVE  Answered(r, d, o)
<1> DEFINE g == Guest(d.guests + 1)
           e == [d EXCEPT !.guests = @ + 1]
<1>1. g \in Accounts /\ r.fault # "auth"
  BY GuestAssumption DEF GuestSession, RowsOK, Accounts, Guests
<1>2. RowsOK(e) /\ e.guests = d.guests + 1 /\ g \in Identities(e)
  BY GuestAssumption DEF GuestSession, RowsOK, RowFields, Identities, Signed
<1>3. PICK p \in OptionalAuth(r, g, e, s) :
        o = <<IF p[1].set = "keep" THEN SetSession(p[1], g) ELSE p[1], p[2]>>
  BY DEF learnGroup
<1> HIDE DEF g, e
<1>4. Mild(p[1], g) /\ Wrote(e, p[2])
  BY <1>1, <1>3, MildOptional DEF AllMild
<1>5. /\ DOMAIN o[1] = AnswerFields /\ o[1].set = g /\ o[2] = p[2]
      /\ o[1].status = p[1].status /\ o[1].to = p[1].to
  BY <1>1, <1>3, <1>4, AccountsAre DEF Mild, SetSession, AnswerFields
<1>6. RowsOK(o[2]) /\ o[2].guests = d.guests + 1
  BY <1>2, <1>4, <1>5 DEF Wrote
<1>7. d.guests <= o[2].guests /\ g \in Identities(o[2])
  BY <1>2, <1>6, IdentitiesAre DEF RowsOK
<1> QED
  BY <1>1, <1>4, <1>5, <1>6, <1>7, AccountsAre DEF Answered, Mild

\* Whatever is asked, the answer is one: session known, redirect to a page.
LEMMA ServeAnswers ==
  ASSUME NEW d, RowsOK(d), NEW r, r.who \in Identities(d), NEW s, NEW o \in Serve(r, d, s)
  PROVE  Answered(r, d, o)
<1>1. \A status : status # 303 => AllMild(Reply(Error(status), d), r.who, d)
  BY MildError, MildReply
<1>2. ASSUME NEW p \in AuthMiddleware(r, d) PROVE Answered(r, d, p)
  <2>1. CASE validateSession(r, r.who)
    BY <2>1, MildValidated, MildAnswered DEF validateSession, AllMild
  <2> QED
    BY <2>1, LoginAnswers
<1>3. ASSUME NEW p \in learnGroup(r, d, s) PROVE Answered(r, d, p)
  <2>1. CASE GuestSession(r, d, s)
    BY <2>1, GuestAnswers
  <2>2. CASE ~GuestSession(r, d, s) /\ validateSession(r, r.who)
    BY <2>2, MildOptional, MildAnswered DEF learnGroup, validateSession, AllMild
  <2>3. CASE ~GuestSession(r, d, s) /\ ~validateSession(r, r.who)
    BY <2>3, ClearedAnswers DEF learnGroup
  <2> QED
    BY <2>1, <2>2, <2>3
<1>4. ASSUME NEW a \in authRoutes(r) PROVE Answered(r, d, <<a, d>>)
  <2>1. d.guests <= d.guests
    BY DEF RowsOK
  <2> QED
    BY <2>1, AuthAnswers DEF Answered, Identities
<1>5. ASSUME NEW a \in publicRoutes(r) PROVE Answered(r, d, <<a, d>>)
  BY MildPublic, MildAnswered DEF Wrote
<1>6. CASE r.fault = "limit" \/ ~CSRF(r) \/ r.path \in UnknownPaths
  BY <1>1, <1>6, MildAnswered DEF Serve, AllMild
<1>7. CASE ~(r.fault = "limit" \/ ~CSRF(r) \/ r.path \in UnknownPaths)
  BY <1>2, <1>3, <1>4, <1>5, <1>7 DEF Serve
<1> QED
  BY <1>6, <1>7

-----------------------------------------------------------------------------
(* A redirect leads to a page *)

\* The pages redirects lead to do not redirect.
LEMMA FlashcardsLand ==
  ASSUME NEW n, n.verb = "GET",
         n.path \in {"/learn/flashcards", "/learn/flashcards?check=1", "/dashboard"},
         NEW u, NEW d, NEW s, NEW o \in learnRoutes(n, u, d, s)
  PROVE  o[1].status # 303
<1>1. \A status, v : Show(status, v).status = status
  BY DEF Show
<1>2. ASSUME NEW p \in flashcardsPage(n, u, d) PROVE p[1].status # 303
  BY <1>1, <1>2 DEF flashcardsPage, Reply, Error
<1>3. CASE n.path \in {"/learn/flashcards", "/learn/flashcards?check=1"}
  <2>1. learnRoutes(n, u, d, s) = flashcardsPage(n, u, d)
    BY <1>3 DEF learnRoutes, flashcardKnownAction, flashcardDeleteAction
  <2> QED
    BY <1>2, <2>1
<1>4. CASE n.path = "/dashboard"
  <2>1. learnRoutes(n, u, d, s) = Reply(DashboardPage_(u, d), d)
    BY <1>4 DEF learnRoutes, flashcardKnownAction, flashcardDeleteAction
  <2> QED
    BY <1>1, <2>1 DEF Reply, DashboardPage_
<1> QED
  BY <1>3, <1>4

\* Following a 303 never meets another: its page does not redirect.
LEMMA LandingServe ==
  ASSUME NEW n, n.verb = "GET", n.fault = "none", n.path \in Landings(n.who),
         NEW d, NEW s, NEW o \in Serve(n, d, s)
  PROVE  o[1].status # 303
<1> USE DEF UnknownPaths, ProtectedPaths, LearnPaths, AuthPaths, CredentialPosts, CSRF
<1>1. CASE n.path = "/auth/page"
  <2>1. Serve(n, d, s) = {<<a, d>> : a \in authRoutes(n)}
    BY <1>1 DEF Serve, flashcardKnownAction, flashcardDeleteAction
  <2> QED
    BY <2>1, AuthAnswers
<1>2. CASE n.path = "/profile" /\ n.who \in Accounts
  <2>1. Serve(n, d, s) = AuthMiddleware(n, d)
    BY <1>2 DEF Serve
  <2>2. AuthMiddleware(n, d) = Identified(protectedRoutes(n, n.who, d), n.who)
    BY <1>2 DEF AuthMiddleware, validateSession, LoaderFails
  <2>3. protectedRoutes(n, n.who, d) = Reply(Show(200, profilePage(n.who, d)), d)
    BY <1>2 DEF protectedRoutes
  <2> DEFINE page == Show(200, profilePage(n.who, d))
  <2>4. DOMAIN page = AnswerFields /\ page.status = 200
    BY DEF Show, AnswerFields
  <2> HIDE DEF page
  <2>5. o = <<[page EXCEPT !.as = n.who], d>>
    BY <2>1, <2>2, <2>3 DEF Identified, Reply, page
  <2> QED
    BY <2>4, <2>5 DEF AnswerFields
<1>3. CASE n.path \in {"/learn/flashcards", "/learn/flashcards?check=1", "/dashboard"}
  <2>1. Serve(n, d, s) = learnGroup(n, d, s)
    BY <1>3 DEF Serve
  <2>2. ASSUME NEW who, NEW e, NEW p \in OptionalAuth(n, who, e, s),
               who \in Accounts \/ ~validateSession(n, who)
        PROVE  DOMAIN p[1] = AnswerFields /\ p[1].status # 303
    <3> DEFINE u == IF validateSession(n, who) THEN who ELSE "none"
    <3>1. PICK q \in Admitted(n, u, e, s) :
            \/ p[1] = [q[1] EXCEPT !.as = u]
            \/ p[1] = [Cleared(q[1], who) EXCEPT !.as = u]
      <4>1. CASE u = "none"
        <5>1. OptionalAuth(n, who, e, s) =
                Identified({<<Cleared(q[1], who), q[2]>> : q \in Admitted(n, u, e, s)}, u)
          BY <4>1 DEF OptionalAuth, Admitted
        <5> HIDE DEF u
        <5>2. PICK x \in {<<Cleared(q[1], who), q[2]>> : q \in Admitted(n, u, e, s)} :
                p = <<[x[1] EXCEPT !.as = u], x[2]>>
          BY <2>2, <5>1 DEF Identified
        <5>3. PICK q \in Admitted(n, u, e, s) : x = <<Cleared(q[1], who), q[2]>>
          OBVIOUS
        <5>4. p[1] = [Cleared(q[1], who) EXCEPT !.as = u]
          BY <5>2, <5>3
        <5> QED
          BY <5>4
      <4>2. CASE u # "none"
        <5>1. OptionalAuth(n, who, e, s) = Identified(Admitted(n, u, e, s), u)
          BY <4>2 DEF OptionalAuth, Admitted
        <5> HIDE DEF u
        <5>2. PICK q \in Admitted(n, u, e, s) : p = <<[q[1] EXCEPT !.as = u], q[2]>>
          BY <2>2, <5>1 DEF Identified
        <5>3. p[1] = [q[1] EXCEPT !.as = u]
          BY <5>2
        <5> QED
          BY <5>3
      <4> QED
        BY <4>1, <4>2
    <3>2. Admitted(n, u, e, s) = learnRoutes(n, u, e, s)
      BY DEF Admitted, LoaderFails
    <3>3. u \in Accounts \cup {"none"}
      BY <2>2
    <3> HIDE DEF u
    <3>4. DOMAIN q[1] = AnswerFields
      BY <3>2, <3>3, MildLearn DEF AllMild, Mild
    <3>5. q[1].status # 303
      BY <1>3, <3>2, FlashcardsLand
    <3> QED
      BY <3>1, <3>4, <3>5 DEF Cleared, AnswerFields
  <2>3. CASE GuestSession(n, d, s)
    <3>1. PICK g, e, p :
            /\ p \in OptionalAuth(n, g, e, s)
            /\ o[1] = IF p[1].set = "keep" THEN SetSession(p[1], g) ELSE p[1]
      BY <2>1, <2>3 DEF learnGroup
    <3>2. g \in Accounts \/ ~validateSession(n, g)
      BY DEF validateSession
    <3> QED
      BY <2>2, <3>1, <3>2 DEF SetSession, AnswerFields
  <2>4. CASE ~GuestSession(n, d, s)
    <3>1. n.who \in Accounts \/ ~validateSession(n, n.who)
      BY DEF validateSession
    <3> QED
      BY <2>1, <2>2, <2>4, <3>1 DEF learnGroup
  <2> QED
    BY <2>3, <2>4
<1> QED
  BY <1>1, <1>2, <1>3 DEF Landings

\* What a request brings in the end is no redirect.
LEMMA FollowAnswers ==
  ASSUME NEW d, RowsOK(d), NEW r, r.who \in Identities(d), RequestFields \subseteq DOMAIN r,
         NEW o, Answered(r, d, o), NEW p \in Follow(r, o)
  PROVE  /\ RowsOK(p[2]) /\ d.guests <= p[2].guests
         /\ p[1].set \in {"keep"} \cup Identities(p[2]) /\ p[1].status # 303
<1>1. CASE o[1].status # 303
  BY <1>1, FollowIs DEF Answered
<1>2. CASE o[1].status = 303
  <2> DEFINE n == Next303(r, o[1])
  <2>1. /\ n.verb = "GET" /\ n.fault = "none" /\ n.path = o[1].to
        /\ n.who = IF o[1].set = "keep" THEN r.who ELSE o[1].set
    BY NextIs
  <2>2. n.who \in Identities(o[2]) /\ n.path \in Landings(n.who)
    BY <1>2, <2>1, IdentitiesAre DEF Answered
  <2> HIDE DEF n
  <2>3. PICK q \in Serve(n, o[2], site) : p = <<Then(o[1], q[1]), q[2]>>
    BY <1>2, FollowIs DEF n
  <2>4. Answered(n, o[2], q)
    BY <2>2, <2>3, ServeAnswers DEF Answered
  <2>5. q[1].status # 303
    BY <2>1, <2>2, <2>3, LandingServe
  <2>6. d.guests <= q[2].guests /\ RowsOK(q[2])
    BY <2>4 DEF Answered, RowsOK
  <2>7. o[1].set \in {"keep"} \cup Identities(q[2])
    BY <2>4, IdentitiesAre DEF Answered
  <2>8. p[1].status = q[1].status /\ p[1].set \in {o[1].set, q[1].set} /\ p[2] = q[2]
    BY <2>3, <2>4 DEF Then, Answered, AnswerFields
  <2> QED
    BY <2>4, <2>5, <2>6, <2>7, <2>8 DEF Answered
<1> QED
  BY <1>1, <1>2

-----------------------------------------------------------------------------
(* Kinds *)

\* An answer under way is one the browser can act on.
Pending(q) == q.ans.set \in {"keep"} \cup Identities(db) /\ q.csrf \in 0 .. issued

Typed ==
  /\ Shapes
  /\ RowsOK(db)
  /\ jar.who \in Identities(db)
  /\ issued \in 0 .. MaxToken
  /\ jar.csrf \in 0 .. issued
  /\ tab.token \in 0 .. issued
  /\ \A q \in reqs : q.ans.status # 303
  /\ \A q \in reqs \cup other : Pending(q)
  /\ left \in [upsets: Nat, sends: Nat]

\* The first state is of its kind.
LEMMA InitTyped == Init => Typed
<1> SUFFICES ASSUME Init PROVE Typed
  OBVIOUS
<1>1. RowsOK(db)
  <2>1. db = [cards |-> [u \in Accounts |-> {}], used |-> {}, guests |-> 0, promoted |-> {}]
    BY DEF Init
  <2>2. 0 \in 0 .. MaxGuests
    BY GuestAssumption
  <2> QED
    BY <2>1, <2>2 DEF RowsOK, RowFields
<1>2. jar.who \in Identities(db)
  BY DEF Init, Identities
<1>3. left \in [upsets: Nat, sends: Nat]
  BY BrowserAssumption DEF Init
<1>4. jar.csrf = 0 /\ tab.token = 0 /\ issued = 0
  BY DEF Init
<1>6. 0 \in 0 .. MaxToken /\ 0 \in 0 .. 0
  BY BrowserAssumption
<1>5. reqs = {} /\ other = {}
  BY DEF Init
<1> QED
  BY <1>1, <1>2, <1>3, <1>4, <1>5, <1>6, InitShapes DEF Typed

\* More rows and more tokens: what was under way still is of its kind.
LEMMA StillPending ==
  ASSUME Typed, RowsOK(db'), db.guests <= db'.guests, issued' \in {issued, issued + 1}
  PROVE  /\ \A q : Pending(q) => Pending(q)'
         /\ Identities(db) \subseteq Identities(db')
         /\ 0 .. issued \subseteq 0 .. issued'
<1>1. Identities(db) \subseteq Identities(db')
  BY IdentitiesAre DEF Typed
<1>2. 0 .. issued \subseteq 0 .. issued'
  BY BrowserAssumption DEF Typed
<1> QED
  BY <1>1, <1>2 DEF Pending

\* A request brings an answer of its kind, ...
LEMMA SendTyped ==
  ASSUME Typed, NEW a, NEW r, Sends(a, r), Shapes', tab'.token = tab.token
  PROVE  Typed'
<1>1. PICK o \in Answers(r) :
        /\ db' = o[2]
        /\ reqs' = reqs \cup
             {[a |-> a, ans |-> o[1], anon |-> IsAnonymous(o[1].as, o[2]),
               issues |-> IssuesToken(r), csrf |-> TokenOf(r), sent |-> r.who,
               calm |-> r.fault # "auth", lost |-> a.hole \notin DOMAIN tab.at]}
  BY DEF Sends, Send
<1>2. /\ RowsOK(db') /\ db.guests <= db'.guests
      /\ o[1].set \in {"keep"} \cup Identities(db') /\ o[1].status # 303
  <2>1. PICK p \in Serve(r, db, site) : o \in Follow(r, p)
    BY DEF Answers
  <2>2. r.who \in Identities(db) /\ RequestFields \subseteq DOMAIN r
    BY DEF Sends, Typed
  <2>3. Answered(r, db, p)
    BY <2>2, ServeAnswers DEF Typed
  <2> QED
    BY <1>1, <2>1, <2>2, <2>3, FollowAnswers DEF Typed
<1>3. /\ issued' = IF IssuesToken(r) THEN issued + 1 ELSE issued
      /\ IssuesToken(r) => issued < MaxToken
      /\ jar' = jar /\ other' = other
  BY DEF Sends, Send
<1>4. issued' \in 0 .. MaxToken /\ TokenOf(r) \in 0 .. issued'
  BY <1>3, BrowserAssumption DEF Sends, Typed, TokenOf
<1>5. /\ \A q : Pending(q) => Pending(q)'
      /\ Identities(db) \subseteq Identities(db')
      /\ 0 .. issued \subseteq 0 .. issued'
  BY <1>2, <1>3, StillPending
<1>6. left' \in [upsets: Nat, sends: Nat]
  <2>1. /\ r.fault = "none" \/ left.upsets > 0
        /\ left.sends > 0
        /\ left' = [upsets |-> IF r.fault = "none" THEN left.upsets ELSE left.upsets - 1,
                    sends  |-> IF left.sends = Endless THEN Endless ELSE left.sends - 1]
    BY DEF Sends, Send
  <2> QED
    BY <2>1 DEF Typed, Endless
<1>7. PICK q : /\ q.ans = o[1] /\ q.csrf = TokenOf(r)
               /\ reqs' = reqs \cup {q}
  <2> DEFINE q == [a |-> a, ans |-> o[1], anon |-> IsAnonymous(o[1].as, o[2]),
                   issues |-> IssuesToken(r), csrf |-> TokenOf(r), sent |-> r.who,
                   calm |-> r.fault # "auth", lost |-> a.hole \notin DOMAIN tab.at]
  <2>1. q.ans = o[1] /\ q.csrf = TokenOf(r)
    OBVIOUS
  <2>2. reqs' = reqs \cup {q}
    BY <1>1
  <2> QED
    BY <2>1, <2>2
<1>9. Pending(q)' /\ q.ans.status # 303
  BY <1>2, <1>4, <1>7 DEF Pending
<1>10. \A p \in (reqs \cup other)' : Pending(p)'
  BY <1>3, <1>5, <1>7, <1>9 DEF Typed
<1> QED
  BY <1>2, <1>3, <1>4, <1>5, <1>6, <1>7, <1>9, <1>10 DEF Typed

\* ... using one leaves the rest of theirs, ...
LEMMA DeliverTyped == ASSUME Typed, Deliver, Shapes' PROVE Typed'
<1>1. PICK q \in reqs :
        /\ jar' = CookiesAfter(q)
        /\ DeliverLoad(q) \/ DeliverRedirect(q) \/ DeliverFragment(q) \/ DeliverNothing(q)
        /\ issued' = issued /\ db' = db /\ other' = other /\ left' = left
  BY DEF Deliver
<1>2. Pending(q) /\ jar'.csrf \in {jar.csrf, q.csrf}
      /\ jar'.who = IF q.ans.set = "keep" THEN jar.who ELSE q.ans.set
  BY <1>1 DEF Typed, CookiesAfter
<1>3. jar'.who \in Identities(db) /\ jar'.csrf \in 0 .. issued
  BY <1>2 DEF Typed, Pending
<1>4. tab'.token \in {tab.token, q.csrf}
  <2>1. ASSUME DeliverLoad(q) PROVE tab'.token = q.csrf
    <3>1. tab' = [at |-> Load(q.ans.view), as |-> q.ans.as, anon |-> q.anon,
                  token |-> q.csrf, demo |-> "", next |-> ""]
      BY <2>1 DEF DeliverLoad
    <3> QED
      BY <3>1
  <2>2. DeliverRedirect(q) \/ DeliverFragment(q) \/ DeliverNothing(q) => tab'.token = tab.token
    BY DEF DeliverRedirect, DeliverFragment, DeliverNothing, Typed, Shapes, TabFields
  <2> QED
    BY <1>1, <2>1, <2>2
<1>5. ASSUME NEW p \in reqs' PROVE \E s \in reqs : p.ans = s.ans /\ p.csrf = s.csrf
  <2>1. CASE DeliverFragment(q)
    <3>1. PICK s \in reqs : p = [s EXCEPT !.lost = Detached(q, s)]
      BY <1>5, <2>1 DEF DeliverFragment
    <3> QED
      BY <3>1 DEF Typed, Shapes, ReqFields
  <2>2. CASE DeliverLoad(q) \/ DeliverRedirect(q) \/ DeliverNothing(q)
    BY <1>5, <2>2 DEF DeliverLoad, DeliverRedirect, DeliverNothing
  <2> QED
    BY <1>1, <2>1, <2>2
<1>6. \A p \in reqs' : p.ans.status # 303 /\ Pending(p)
  BY <1>5 DEF Typed, Pending
<1>7. \A p : Pending(p)' <=> Pending(p)
  BY <1>1 DEF Pending
<1>8. \A p \in (reqs \cup other)' : Pending(p)'
  BY <1>1, <1>6, <1>7 DEF Typed
<1> QED
  BY <1>1, <1>2, <1>3, <1>4, <1>6, <1>8 DEF Typed, Pending

\* ... and another tab's request brings one too.
LEMMA OtherSendTyped == ASSUME Typed, OtherSend, Shapes' PROVE Typed'
<1>1. PICK a, r : /\ SendElsewhere(a, r)
                  /\ r.cookie = jar.csrf /\ r.who = jar.who /\ RequestFields \subseteq DOMAIN r
  BY OtherSends
<1> DEFINE sent == [r EXCEPT !.sent = jar.csrf]
<1>2. sent.who = jar.who
  BY <1>1 DEF RequestFields
<1>3. jar' = jar /\ tab' = tab /\ reqs' = reqs
  BY <1>1 DEF SendElsewhere
<1>4. PICK o \in Serve(sent, db, site) :
        /\ db' = o[2]
        /\ other' = {[ans |-> o[1], a |-> a, issues |-> IssuesToken(r), csrf |-> TokenOf(r),
                      sent |-> r.who, calm |-> TRUE]}
  <2>1. \E o \in Serve(sent, db, site) :
          /\ o[1].status # 404
          /\ db' = o[2]
          /\ other' = {[ans |-> o[1], a |-> a, issues |-> IssuesToken(r), csrf |-> TokenOf(r),
                        sent |-> r.who, calm |-> TRUE]}
          /\ marks' =
               [marks EXCEPT
                  !.overlapped = @ \/ (IssuesToken(r) /\ \E q \in reqs : q.issues),
                  !.gone = @ \cup (AllCards(db) \ AllCards(o[2]))]
    <3> USE <1>1 DEF SendElsewhere
    <3> QED
      OBVIOUS
  <2> HIDE DEF sent
  <2> QED
    BY <2>1, Zenon
<1> HIDE DEF sent
<1>5. Answered(sent, db, o)
  BY <1>2, ServeAnswers DEF Typed
<1>6. issued' \in 0 .. MaxToken /\ TokenOf(r) \in 0 .. issued' /\ issued' \in {issued, issued + 1}
  <2>1. /\ IssuesToken(r) => issued < MaxToken
        /\ issued' = IF IssuesToken(r) THEN issued + 1 ELSE issued
    BY <1>1 DEF SendElsewhere
  <2> QED
    BY <1>1, <2>1, BrowserAssumption DEF Typed, TokenOf
<1>7. /\ \A p : Pending(p) => Pending(p)'
      /\ Identities(db) \subseteq Identities(db')
      /\ 0 .. issued \subseteq 0 .. issued'
  BY <1>4, <1>5, <1>6, StillPending DEF Answered
<1>8. PICK q : q.ans = o[1] /\ q.csrf = TokenOf(r) /\ other' = {q}
  <2> DEFINE q == [ans |-> o[1], a |-> a, issues |-> IssuesToken(r), csrf |-> TokenOf(r),
                   sent |-> r.who, calm |-> TRUE]
  <2>1. q.ans = o[1] /\ q.csrf = TokenOf(r)
    OBVIOUS
  <2>2. other' = {q}
    BY <1>4
  <2> QED
    BY <2>1, <2>2
<1>9. Pending(q)'
  BY <1>4, <1>5, <1>6, <1>8 DEF Answered, Pending
<1>10. \A p \in (reqs \cup other)' : Pending(p)'
  BY <1>3, <1>7, <1>8, <1>9 DEF Typed
<1>11. left' \in [upsets: Nat, sends: Nat]
  BY <1>1 DEF SendElsewhere, Upset, Typed
<1> QED
  BY <1>3, <1>4, <1>5, <1>6, <1>7, <1>10, <1>11 DEF Typed, Answered

\* So that every step keeps the kinds.
LEMMA StepTyped == ASSUME Typed, [Next]_vars PROVE Typed'
<1>s. Shapes'
  BY StepShapes DEF Typed
<1>1. CASE Click
  <2>1. tab'.token = tab.token
    BY <1>1 DEF Click, Typed, Shapes, TabFields
  <2> QED
    BY <1>s, <1>1, <2>1, ClickSends, SendTyped
<1>2. CASE Navigate
  <2>1. tab'.token = tab.token
    <3>1. tab' = [tab EXCEPT !.next = ""]
      BY <1>2 DEF Navigate
    <3> QED
      BY <3>1 DEF Typed, Shapes, TabFields
  <2> QED
    BY <1>s, <1>2, <2>1, NavigateSends, SendTyped
<1>3. CASE OtherDeliver
  <2>1. PICK q \in other : jar' = CookiesAfter(q)
    BY <1>3 DEF OtherDeliver
  <2>2. Pending(q) /\ jar'.csrf \in {jar.csrf, q.csrf}
        /\ jar'.who = IF q.ans.set = "keep" THEN jar.who ELSE q.ans.set
    BY <2>1 DEF Typed, CookiesAfter
  <2>3. /\ other' = {} /\ issued' = issued /\ db' = db /\ tab' = tab /\ reqs' = reqs
        /\ left' = left
    BY <1>3 DEF OtherDeliver
  <2>4. \A p : Pending(p)' <=> Pending(p)
    BY <2>3 DEF Pending
  <2> QED
    BY <1>s, <2>2, <2>3, <2>4 DEF Typed, Pending
<1>4. CASE SessionLapses \/ SessionDies \/ CsrfExpires
  <2>1. /\ issued' = issued /\ db' = db /\ tab' = tab /\ reqs' = reqs /\ other' = other
        /\ jar'.who \in {jar.who, "none", "dead"} /\ jar'.csrf \in {jar.csrf, 0}
    BY <1>4 DEF SessionLapses, SessionDies, CsrfExpires, Typed, Shapes
  <2>2. left' \in [upsets: Nat, sends: Nat]
    BY <1>4 DEF SessionLapses, SessionDies, CsrfExpires, Upset, Typed
  <2>3. \A p : Pending(p)' <=> Pending(p)
    BY <2>1 DEF Pending
  <2>4. jar'.who \in Identities(db) /\ jar'.csrf \in 0 .. issued
    BY <2>1 DEF Typed, Identities
  <2> QED
    BY <1>s, <2>1, <2>2, <2>3, <2>4 DEF Typed
<1>5. CASE UNCHANGED vars
  BY <1>s, <1>5 DEF vars, Typed, Pending
<1> QED
  BY <1>s, <1>1, <1>2, <1>3, <1>4, <1>5, DeliverTyped, OtherSendTyped DEF Next

\* The property the runs check is part of the invariant.
LEMMA TypedKinds == ASSUME Typed PROVE Kinds
<1>1. RowsOK(db)
  BY DEF Typed
<1>2. Identities(db) \subseteq Sessions
  BY <1>1, IdentitiesAre
<1>3. /\ jar.who \in Identities(db)
      /\ jar.csrf \in 0 .. issued /\ issued \in 0 .. MaxToken /\ tab.token \in 0 .. issued
      /\ left.upsets \in Nat /\ left.sends \in Nat
  BY DEF Typed
<1>4. /\ \A u \in Accounts : db.cards[u] \subseteq db.used
      /\ db.used \subseteq Cards /\ db.promoted \subseteq Guests
  BY <1>1 DEF RowsOK
<1>5. \A q \in reqs : q.ans.status # 303 /\ q.ans.set \in {"keep"} \cup Sessions
  BY <1>2 DEF Typed, Pending
<1> QED
  BY <1>3, <1>4, <1>5 DEF Kinds, Identities, Signed

\* For any number of cards, tokens, requests and upsets: every cookie stands
\* for an account that exists, every card shown was created, and following one
\* redirect never meets another (GuestSession, the handlers' SeeOther, AuthMiddleware).
THEOREM BrowserKinds == Spec => []Kinds
<1>1. Typed /\ [Next]_vars => Typed'
  BY StepTyped
<1>2. ASSUME Typed PROVE Kinds
  BY <1>2, TypedKinds
<1> QED
  BY <1>1, <1>2, InitTyped, PTL DEF Spec

-----------------------------------------------------------------------------
(* What the templates may write.  A control is an element that sends; most are *)
(* like any other (Control), a flashcard's forms and a sentinel are their own. *)

CardActions == {flashcardKnownAction, flashcardDeleteAction}
ScrollPath == "/patterns/api/scroll"
CounterPath == "/patterns/api/counter"
CounterHoles == {"oob-counter-btn", "oob-total"}
Sentinels == {Sentinel(p) : p \in 1 .. 4}
ListPaths == {"/learn/flashcards", "/learn/flashcards?check=1"}
CardNames == {"FlashcardsPage", "FlashcardList", "FlashcardCard"}
ScrollNames == {"PatternScrollPage", "PatternScrollSentinel"}

Control(a) ==
  /\ a.how # "load"
  /\ a.hole \notin Cards \cup Sentinels \cup {"page", "oob-total"}
  /\ a.path \notin CardActions \cup {ScrollPath, "/patterns"}
  /\ a.path = CounterPath <=> a.hole = "oob-counter-btn"
  /\ a.verb = "GET" => a.path \notin ListPaths
  /\ a.plain => a.path \notin DemoPaths
CardControl(a, c) ==
  \E path \in CardActions : a = Plain(CSRFField(Post(path, {c}, c, "self")))
SentinelControl(a, p) == a = Get(ScrollPath, {p}, Sentinel(p), "self")

\* A template call with the arguments the program gives it.
Proper(v) ==
  /\ v.name = "QuizPage" => v.flags \cap QuizCards # {}
  /\ v.name \in CardNames => v.of \subseteq Cards
  /\ v.name = "FlashcardCard" => \E c \in Cards : v = V("FlashcardCard", {}, {c})
  /\ v.name = "PatternScrollPage" => \E p \in 1 .. 4 : v = PatternScroll(p)
  /\ v.name = "PatternScrollSentinel" => \E p \in 1 .. 4 : v = V("PatternScrollSentinel", {}, {p})

\* What a template may first put in a hole.
Fills(h, v) ==
  /\ v.name \notin {"QuizPage", "FlashcardsPage", "FlashcardList", "PatternsPage", "PatternScrollPage"}
  /\ v.name = "FlashcardCard" => h \in Cards /\ v = V("FlashcardCard", {}, {h})
  /\ v.name = "PatternScrollSentinel" => h \in Sentinels
  /\ h \in CounterHoles => v.of = {0}
  /\ h \in Cards => v.name = "FlashcardCard"
  /\ \A p \in 1 .. 4 : h = Sentinel(p) => v = V("PatternScrollSentinel", {}, {p})

AppHoles == {"auth-messages", "profile-form", "password-form", "upgrade-card", "quiz-card",
             "save-offer", "isolation-result", "widget-quiz", "widget-flashcards"}
DemoHoles ==
  {"swap-demo", "search-results", "edit", "favorite", "typeahead-results", "toast-demo-status",
   "skeleton", "tab-demo-panel", "bulk-demo-result", "polling", "oob-counter-btn", "oob-total",
   "confirm-demo-target", "vt-card", "limit-log", "slow-out", "sentinel-1"}

Sound(m, H) ==
  /\ \A a \in m.does : Control(a)
  /\ m.links \cap DemoPaths = {}
  /\ DOMAIN m.holes \subseteq H
  /\ \A h \in DOMAIN m.holes : Fills(h, m.holes[h])

-----------------------------------------------------------------------------
(* The invariant *)

\* A template call where it belongs.
Belongs(h, v) ==
  /\ Proper(v)
  /\ h = "page" => v.name \notin {"FlashcardCard"} \cup ScrollNames
  /\ h # "page" => v.name \notin {"FlashcardsPage", "FlashcardList", "PatternsPage"}
  /\ v.name = "FlashcardCard" => h \in Cards /\ v = V("FlashcardCard", {}, {h})
  /\ v.name \in ScrollNames => h \in Sentinels
  /\ \A p \in 1 .. 4 : h = Sentinel(p) => v \in {V("PatternScrollSentinel", {}, {p}), PatternScroll(p)}
Placed(at) == "page" \in DOMAIN at /\ \A h \in DOMAIN at : Belongs(h, at[h])

\* The pages of the list follow each other.
Shown(at, p) == Sentinel(p) \in DOMAIN at /\ at[Sentinel(p)] = PatternScroll(p)
Chained(at) == \A p \in 1 .. 3 : Shown(at, p) <=> Sentinel(p + 1) \in DOMAIN at

\* The counter's two regions agree.
Agree(at) == CounterHoles \subseteq DOMAIN at => at["oob-counter-btn"].of = at["oob-total"].of

\* What an element sends, and the answer it asks for.
Element(a) ==
  \/ Control(a)
  \/ \E c \in Cards : CardControl(a, c)
  \/ \E p \in 1 .. 4 : SentinelControl(a, p)
Apt(q) ==
  /\ Proper(q.ans.view)
  /\ q.ans.view.name # "PatternScrollSentinel"
  /\ q.ans.nav \notin DemoPaths
  /\ q.a.how = "load" => q.ans.view.name \notin {"FlashcardCard", "PatternScrollPage"}
  /\ q.a.how # "load" =>
       /\ Element(q.a)
       /\ q.ans.view.name \notin {"FlashcardsPage", "FlashcardList", "PatternsPage"}
       /\ q.ans.view.name = "FlashcardCard" =>
            q.a.path \in CardActions /\ q.ans.view = V("FlashcardCard", {}, q.a.of)
       /\ q.ans.view.name = "PatternScrollPage" => q.a.path = ScrollPath
       /\ q.ans.view.name = "PatternCounterResponse" => q.a.path = CounterPath
       /\ q.a.path = CounterPath /\ Swaps(q.ans) => q.ans.view.name = "PatternCounterResponse"
       /\ q.a.path = ScrollPath /\ Swaps(q.ans) =>
            \A p \in 1 .. 4 : q.a.of = {p} => q.ans.view = PatternScroll(p)

\* The element is in the document, in the hole it would be replaced with.
Held(at, a) ==
  /\ a.hole \in DOMAIN at
  /\ \A c \in Cards : CardControl(a, c) => c \in DOMAIN at /\ at[c] = V("FlashcardCard", {}, {c})
  /\ \A p \in 1 .. 4 : SentinelControl(a, p) =>
       Sentinel(p) \in DOMAIN at /\ at[Sentinel(p)] = V("PatternScrollSentinel", {}, {p})

\* An answer under way is one its request asks for, and its element is there or
\* the answer is lost.
Settled(at, q) == Apt(q) /\ (q.a.how # "load" /\ ~q.lost => Held(at, q.a))

Documented ==
  /\ Placed(tab.at) /\ Chained(tab.at) /\ Agree(tab.at)
  /\ \A q \in reqs : Settled(tab.at, q)
  /\ tab.next \notin DemoPaths

\* No card has two owners.
Owned(d) == \A u, w \in Accounts : u # w => d.cards[u] \cap d.cards[w] = {}
\* The cards S are shown as u's: they are, or were deleted since; and nobody else's.
ShownTo(S, u, d) ==
  /\ S # {} => u \in Accounts
  /\ S \subseteq d.used
  /\ \A w \in Accounts : w # u => S \cap d.cards[w] = {}
\* So are those of an answer under way, and gone has those deleted since.
Rightful(q, d, gone) ==
  LET S == CardsOf(q.ans.view) IN
  /\ ShownTo(S, q.ans.as, d)
  /\ S # {} => S \subseteq d.cards[q.ans.as] \cup gone

\* A delete that was done, and whose answer will reach the page.
Deleting(q, c) ==
  /\ q.a.path = flashcardDeleteAction /\ c \in q.a.of
  /\ q.a.how # "load" =>
       q.ans.view = Nothing /\ q.ans.status = 200 /\ q.ans.nav = "" /\ ~q.lost
Accounted ==
  /\ Owned(db)
  /\ ShownTo(CardsIn(tab.at), tab.as, db)
  /\ \A q \in reqs : Rightful(q, db, marks.gone)
  /\ \A c \in CardsIn(tab.at) : tab.as \in Accounts =>
       c \in db.cards[tab.as] \cup marks.gone \/ \E q \in reqs : Deleting(q, c)

\* The parts of a template, one by one: text, ...
LEMMA TextSound == ASSUME NEW H PROVE Sound(Text, H)
BY DEF Sound, Text

\* ... elements with an id, ...
LEMMA IdsSound == ASSUME NEW H, NEW S PROVE Sound(Ids(S), H)
BY DEF Sound, Ids, Text

\* ... links, to anything but a demo's endpoint, ...
LEMMA LinksSound == ASSUME NEW H, NEW S, S \cap DemoPaths = {} PROVE Sound(Links(S), H)
BY DEF Sound, Links, Text

\* ... controls, ...
LEMMA DoesSound == ASSUME NEW H, NEW S, \A a \in S : Control(a) PROVE Sound(Does(S), H)
BY DEF Sound, Does, Text

\* ... a call of another template, ...
LEMMA HoleSound == ASSUME NEW H, NEW h \in H, NEW v, Fills(h, v) PROVE Sound(Hole(h, v), H)
<1>1. /\ Hole(h, v).does = {} /\ Hole(h, v).links = {}
      /\ Hole(h, v).holes = Filled(h, v)
  BY DEF Hole, Text
<1>2. DOMAIN Filled(h, v) = {h} /\ Filled(h, v)[h] = v
  BY DEF Filled
<1> QED
  BY <1>1, <1>2 DEF Sound

\* ... and two parts after each other, where the later one fills a hole last.
LEMMA JoinSound == ASSUME NEW H, NEW m, NEW n, Sound(m, H), Sound(n, H) PROVE Sound(m ++ n, H)
<1>1. /\ (m ++ n).does = m.does \cup n.does
      /\ (m ++ n).links = m.links \cup n.links
      /\ (m ++ n).holes = m.holes \uplus n.holes
  BY DEF ++
<1>2. DOMAIN (m.holes \uplus n.holes) = DOMAIN m.holes \cup DOMAIN n.holes
  BY DEF \uplus
<1>3. \A h \in DOMAIN (m.holes \uplus n.holes) :
        \/ h \in DOMAIN m.holes /\ (m.holes \uplus n.holes)[h] = m.holes[h]
        \/ h \in DOMAIN n.holes /\ (m.holes \uplus n.holes)[h] = n.holes[h]
  BY DEF \uplus
<1> QED
  BY <1>1, <1>2, <1>3 DEF Sound

\* The ids of the four sentinels.
LEMMA SentinelsAre ==
  /\ Sentinel(1) = "sentinel-1" /\ Sentinel(2) = "sentinel-2"
  /\ Sentinel(3) = "sentinel-3" /\ Sentinel(4) = "sentinel-4"
  /\ Sentinels = {"sentinel-1", "sentinel-2", "sentinel-3", "sentinel-4"}
<1>1. /\ Sentinel(1) = "sentinel-1" /\ Sentinel(2) = "sentinel-2"
      /\ Sentinel(3) = "sentinel-3" /\ Sentinel(4) = "sentinel-4"
  BY DEF Sentinel
<1>2. 1 .. 4 = {1, 2, 3, 4}
  OBVIOUS
<1> QED
  BY <1>1, <1>2 DEF Sentinels

\* No id of the application or a demo is a card's, nor one's the other's.
LEMMA HolesAre ==
  /\ \A h \in AppHoles \cup DemoHoles \cup Sentinels \cup {"page", "body", "first-run-steps"} :
       h \notin Cards
  /\ \A h \in AppHoles \cup {"page", "body", "first-run-steps"} :
       h \notin Sentinels /\ h \notin DemoHoles /\ h \notin CounterHoles
  /\ \A h \in DemoHoles : h \in Sentinels => h = Sentinel(1)
BY CardAssumption, SentinelsAre DEF Regions, AppHoles, DemoHoles, CounterHoles

ControlFields == {"verb", "path", "of", "hole", "how", "plain", "field"}

\* A form or a button, with or without its own action and its hidden token.
LEMMA SendsWhat ==
  ASSUME NEW verb, NEW path, NEW of, NEW hole, NEW how
  PROVE  LET b == Hx(verb, path, of, hole, how) IN
         \A a \in {b, Plain(b), CSRFField(b), Plain(CSRFField(b))} :
           /\ a.verb = verb /\ a.path = path /\ a.of = of /\ a.hole = hole /\ a.how = how
           /\ ~b.plain /\ ~CSRFField(b).plain
<1> DEFINE b == Hx(verb, path, of, hole, how)
<1>1. /\ b.verb = verb /\ b.path = path /\ b.of = of /\ b.hole = hole /\ b.how = how
      /\ ~b.plain /\ DOMAIN b = ControlFields
  BY DEF Hx, ControlFields
<1> HIDE DEF b
<1>2. \A a \in {b, Plain(b), CSRFField(b), Plain(CSRFField(b))} :
        a.verb = b.verb /\ a.path = b.path /\ a.of = b.of /\ a.hole = b.hole /\ a.how = b.how
  BY <1>1 DEF Plain, CSRFField, ControlFields
<1>3. ~CSRFField(b).plain
  BY <1>1 DEF CSRFField, ControlFields
<1> QED
  BY <1>1, <1>2, <1>3 DEF b

\* A control of the application: htmx or plain, it is no demo's.
LEMMA AppControl ==
  ASSUME NEW verb, NEW path, NEW of, NEW hole \in AppHoles \cup {"body", "first-run-steps"}, NEW how,
         how # "load", path \notin DemoPaths \cup CardActions \cup {"/patterns"},
         verb = "GET" => path \notin ListPaths
  PROVE  LET b == Hx(verb, path, of, hole, how) IN
         /\ Control(b) /\ Control(Plain(b)) /\ Control(CSRFField(b)) /\ Control(Plain(CSRFField(b)))
<1> DEFINE b == Hx(verb, path, of, hole, how)
<1>1. ScrollPath \in DemoPaths /\ CounterPath \in DemoPaths
  BY DEF ScrollPath, CounterPath, DemoPaths
<1>2. hole \notin Cards \cup Sentinels \cup {"page", "oob-total", "oob-counter-btn"}
  BY HolesAre DEF AppHoles
<1>3. \A a \in {b, Plain(b), CSRFField(b), Plain(CSRFField(b))} :
           /\ a.verb = verb /\ a.path = path /\ a.of = of /\ a.hole = hole /\ a.how = how
  BY SendsWhat
<1> HIDE DEF b
<1>4. ASSUME NEW a, a.verb = verb, a.path = path, a.hole = hole, a.how = how PROVE Control(a)
  BY <1>1, <1>2, <1>4 DEF Control
<1> QED
  BY <1>3, <1>4 DEF b

\* A control of a demo, for htmx only.
LEMMA DemoControl ==
  ASSUME NEW verb, NEW path \in DemoPaths \ {ScrollPath}, NEW of,
         NEW hole \in DemoHoles \ {"oob-total", "sentinel-1"}, NEW how,
         how # "load", path = CounterPath <=> hole = "oob-counter-btn"
  PROVE  Control(Hx(verb, path, of, hole, how))
<1>1. /\ path \notin CardActions /\ path # "/patterns" /\ path \notin ListPaths
  BY DEF DemoPaths, CardActions, flashcardKnownAction, flashcardDeleteAction, ListPaths
<1>2. hole \notin Cards \cup Sentinels \cup {"page", "oob-total"}
  BY HolesAre, SentinelsAre DEF DemoHoles
<1> DEFINE a == Hx(verb, path, of, hole, how)
<1>3. /\ a.verb = verb /\ a.path = path /\ a.of = of /\ a.hole = hole /\ a.how = how /\ ~a.plain
  BY SendsWhat
<1> HIDE DEF a
<1>4. Control(a)
  BY <1>1, <1>2, <1>3 DEF Control
<1> QED
  BY <1>4 DEF a

\* One form or button of the application.
LEMMA FormSound ==
  ASSUME NEW H, NEW verb, NEW path, NEW of,
         NEW hole \in AppHoles \cup {"body", "first-run-steps"}, NEW how,
         how # "load", path \notin DemoPaths \cup CardActions \cup {"/patterns"},
         verb = "GET" => path \notin ListPaths
  PROVE  LET b == Hx(verb, path, of, hole, how) IN
         /\ Sound(Does({b}), H) /\ Sound(Does({Plain(b)}), H)
         /\ Sound(Does({CSRFField(b)}), H) /\ Sound(Does({Plain(CSRFField(b))}), H)
<1> DEFINE b == Hx(verb, path, of, hole, how)
<1>1. Control(b) /\ Control(Plain(b)) /\ Control(CSRFField(b)) /\ Control(Plain(CSRFField(b)))
  BY AppControl
<1> HIDE DEF b
<1>2. ASSUME NEW a, Control(a) PROVE Sound(Does({a}), H)
  BY <1>2, DoesSound
<1> QED
  BY <1>1, <1>2 DEF b

\* A page that loads app.js, ...
LEMMA AppSound ==
  ASSUME NEW H, NEW m, NEW n, Sound(m ++ n, H) PROVE Sound([(m ++ n) EXCEPT !.app = TRUE], H)
<1>1. LET b == [(m ++ n) EXCEPT !.app = TRUE] IN
        b.does = (m ++ n).does /\ b.links = (m ++ n).links /\ b.holes = (m ++ n).holes
  BY DEF ++
<1> QED
  BY <1>1 DEF Sound

\* ... and the layout around any page, add no control of another kind.
LEMMA BaseSound ==
  ASSUME NEW H, NEW user, NEW main, Sound(main, H) PROVE Sound(Base(user, main), H)
<1>1. Sound(navLinks, H) /\ Sound(darkModeToggle, H) /\ Sound(toastNotifications, H) /\ Sound(footer, H)
  BY LinksSound, TextSound DEF navLinks, darkModeToggle, toastNotifications, footer, DemoPaths
<1>2. Sound(userMenu, H) /\ Sound(Links({"/auth/page"}), H) /\ Sound(Links({"/"}), H)
  BY LinksSound, IdsSound, JoinSound DEF userMenu, DemoPaths
<1>3. Sound(Either(user, userMenu, Links({"/auth/page"})), H)
  BY <1>2, Zenon DEF Either
<1>4. Sound(header(user), H)
  BY <1>1, <1>2, <1>3, IdsSound, JoinSound, Zenon DEF header
<1> DEFINE body == Ids({"main-content"}) ++ header(user) ++ main ++ footer
<1>5. Sound(body, H)
  BY <1>1, <1>4, IdsSound, JoinSound, Zenon
<1> HIDE DEF body
<1>6. Sound([(body ++ toastNotifications) EXCEPT !.app = TRUE], H)
  BY <1>1, <1>5, JoinSound, AppSound
<1> QED
  BY <1>6, Zenon DEF Base, body

\* What the application first puts in a hole of its own may be there.
LEMMA AppFills ==
  ASSUME NEW H, AppHoles \subseteq H, NEW h \in AppHoles, NEW name, NEW flags, NEW of,
         name \notin CardNames \cup ScrollNames \cup {"QuizPage", "PatternsPage"}
  PROVE  Sound(Hole(h, V(name, flags, of)), H)
<1>1. h \notin Cards \cup Sentinels \cup CounterHoles
  BY HolesAre
<1>2. V(name, flags, of).name = name
  BY DEF V
<1>3. \A p \in 1 .. 4 : Sentinel(p) \in Sentinels
  BY DEF Sentinels
<1>4. Fills(h, V(name, flags, of))
  BY <1>1, <1>2, <1>3 DEF Fills, CardNames, ScrollNames
<1> QED
  BY <1>4, HoleSound

\* Signing in, and the recovery of a password.
LEMMA AuthSound ==
  ASSUME NEW H, AppHoles \subseteq H
  PROVE  /\ Sound(AuthPage, H) /\ Sound(RecoverPage, H) /\ Sound(LogoutPage, H)
         /\ \A valid : Sound(ResetPage(valid), H)
<1>1. \A S : Sound(Ids(S), H)
  BY IdsSound
<1>2. \A S : S \cap DemoPaths = {} => Sound(Links(S), H)
  BY LinksSound
<1>3. Sound(authMessages, H)
  <2>1. Sound(Hole("auth-messages", V("", {}, {})), H)
    BY AppFills DEF AppHoles, CardNames, ScrollNames
  <2> QED
    BY <1>1, <2>1, JoinSound, Zenon DEF authMessages, Nothing
<1>4. \A path \in CredentialPosts : Sound(Does({CSRFField(Post(path, {}, "auth-messages", "inner"))}), H)
  <2>1. ASSUME NEW path \in CredentialPosts
        PROVE  Sound(Does({CSRFField(Hx("POST", path, {}, "auth-messages", "inner"))}), H)
    BY FormSound DEF CredentialPosts, AppHoles, DemoPaths, CardActions, flashcardKnownAction,
       flashcardDeleteAction
  <2> QED
    BY <2>1, Zenon DEF Post
<1>5. Sound(Does({CSRFField(Post("/auth/logout", {}, "body", "body"))}), H)
  <2>1. Sound(Does({CSRFField(Hx("POST", "/auth/logout", {}, "body", "body"))}), H)
    <3>1. "/auth/logout" \notin DemoPaths \cup CardActions \cup {"/patterns"}
      BY DEF DemoPaths, CardActions, flashcardKnownAction, flashcardDeleteAction
    <3> QED
      BY <3>1, FormSound
  <2> QED
    BY <2>1, Zenon DEF Post
<1> USE <1>1, <1>3, JoinSound, BaseSound
<1>6. Sound(AuthPage, H)
  <2>1. /\ Sound(Links({"/auth/page?mode=login", "/auth/page?mode=signup"}), H)
        /\ Sound(Links({"/auth/recover"}), H)
    BY <1>2 DEF DemoPaths
  <2>2. Sound(loginPanel, H) /\ Sound(signupPanel, H)
    <3>1. "/auth/login" \in CredentialPosts /\ "/auth/signup" \in CredentialPosts
      BY DEF CredentialPosts
    <3> QED
      BY <1>4, <2>1, <3>1, Zenon DEF loginPanel, signupPanel
  <2> QED
    BY <2>1, <2>2, Zenon DEF AuthPage
<1>7. Sound(RecoverPage, H)
  <2>1. Sound(Links({"/auth/page"}), H)
    BY <1>2 DEF DemoPaths
  <2>2. "/auth/recover" \in CredentialPosts
    BY DEF CredentialPosts
  <2> QED
    BY <1>4, <2>1, <2>2, Zenon DEF RecoverPage
<1>8. Sound(LogoutPage, H)
  <2>1. Sound(Links({"/"}), H)
    BY <1>2 DEF DemoPaths
  <2> QED
    BY <1>5, <2>1, Zenon DEF LogoutPage
<1>9. ASSUME NEW valid PROVE Sound(ResetPage(valid), H)
  <2>1. Sound(Links({"/auth/recover"}), H)
    BY <1>2 DEF DemoPaths
  <2>2. "/auth/reset" \in CredentialPosts
    BY DEF CredentialPosts
  <2> QED
    BY <1>4, <2>1, <2>2, Zenon DEF ResetPage, Either
<1> QED
  BY <1>6, <1>7, <1>8, <1>9

\* The paths of the application's forms and buttons.
FormPaths ==
  {"/auth/logout", "/profile", "/profile/password", "/learn/upgrade", "/first-run/profile",
   "/first-run/ctas", "/learn/quiz/{slug}/answer", "/learn/quiz/{slug}/answer?topic",
   "/learn/quiz?q", "/learn/quiz?q&topic", "/learn/quiz", "/learn/flashcards/isolation",
   "/dashboard/widgets/quiz", "/dashboard/widgets/flashcards"}

FormHoles == AppHoles \cup {"body", "first-run-steps"}
Ways == {"inner", "outer", "self", "body"}
\* Every such control is sound, however it is written.
LEMMA AppForm ==
  ASSUME NEW H, NEW path \in FormPaths, NEW of, NEW hole \in FormHoles, NEW how \in Ways
  PROVE  /\ Sound(Does({Get(path, of, hole, how)}), H)
         /\ Sound(Does({Plain(Get(path, of, hole, how))}), H)
         /\ Sound(Does({Plain(CSRFField(Post(path, of, hole, how)))}), H)
<1>1. path \notin DemoPaths \cup CardActions \cup {"/patterns"} \cup ListPaths
  BY DEF FormPaths, DemoPaths, CardActions, flashcardKnownAction, flashcardDeleteAction, ListPaths
<1>2. \A verb : LET b == Hx(verb, path, of, hole, how) IN
        /\ Sound(Does({b}), H) /\ Sound(Does({Plain(b)}), H)
        /\ Sound(Does({Plain(CSRFField(b))}), H)
  BY <1>1, FormSound DEF FormHoles, Ways
<1> QED
  BY <1>2, Zenon DEF Get, Post

\* The profile, upgrading and the first run.
LEMMA AccountSound ==
  ASSUME NEW H, AppHoles \subseteq H
  PROVE  /\ Sound(ProfileForm, H) /\ Sound(PasswordForm, H) /\ Sound(GuestBanner, H)
         /\ \A guest : Sound(ProfilePage(guest), H)
         /\ \A success : Sound(UpgradeForm(success), H)
         /\ \A registered, success : Sound(UpgradePage(registered, success), H)
         /\ \A profile, ctas : Sound(FirstRunExperience(profile, ctas), H)
<1>1. \A S : Sound(Ids(S), H)
  BY IdsSound
<1>2. /\ Sound(Links({"/learn/upgrade"}), H) /\ Sound(Links({"/learn/quiz"}), H)
      /\ Sound(Links({"/settings/security", "/dashboard"}), H)
  BY LinksSound DEF DemoPaths
<1>f. /\ Sound(Does({Plain(CSRFField(Post("/profile", {}, "profile-form", "inner")))}), H)
      /\ Sound(Does({Plain(CSRFField(Post("/profile/password", {}, "password-form", "inner")))}), H)
      /\ Sound(Does({Plain(CSRFField(Post("/auth/logout", {}, "body", "body")))}), H)
      /\ Sound(Does({Plain(CSRFField(Post("/learn/upgrade", {}, "upgrade-card", "outer")))}), H)
      /\ Sound(Does({Get("/first-run/profile", {}, "first-run-steps", "inner")}), H)
      /\ Sound(Does({Get("/first-run/ctas", {}, "first-run-steps", "inner")}), H)
  <2>1. /\ "/profile" \in FormPaths /\ "/profile/password" \in FormPaths
        /\ "/auth/logout" \in FormPaths /\ "/learn/upgrade" \in FormPaths
        /\ "/first-run/profile" \in FormPaths /\ "/first-run/ctas" \in FormPaths
        /\ "profile-form" \in FormHoles /\ "password-form" \in FormHoles
        /\ "upgrade-card" \in FormHoles /\ "body" \in FormHoles
        /\ "first-run-steps" \in FormHoles
        /\ "inner" \in Ways /\ "outer" \in Ways /\ "body" \in Ways
    BY DEF FormPaths, FormHoles, AppHoles, Ways
  <2> QED
    BY <2>1, AppForm, Zenon
<1> USE <1>1, <1>2, JoinSound, BaseSound
<1>3. Sound(ProfileForm, H) /\ Sound(PasswordForm, H) /\ Sound(GuestBanner, H)
  BY Zenon DEF ProfileForm, PasswordForm, GuestBanner
<1>4. ASSUME NEW guest PROVE Sound(ProfilePage(guest), H)
  <2>1. /\ Sound(Hole("profile-form", V("ProfileForm", {}, {})), H)
        /\ Sound(Hole("password-form", V("PasswordForm", {}, {})), H)
    BY AppFills DEF AppHoles, CardNames, ScrollNames
  <2> QED
    BY <1>f, <2>1, Zenon DEF ProfilePage, Either
<1>5. ASSUME NEW success PROVE Sound(UpgradeForm(success), H)
  BY <1>f, Zenon DEF UpgradeForm, Either
<1>6. ASSUME NEW registered, NEW success PROVE Sound(UpgradePage(registered, success), H)
  <2>1. Sound(Hole("upgrade-card", V("UpgradeForm", IF success THEN {"success"} ELSE {}, {})), H)
    BY AppFills DEF AppHoles, CardNames, ScrollNames
  <2> QED
    BY <2>1, Zenon DEF UpgradePage, Either
<1>7. ASSUME NEW profile, NEW ctas PROVE Sound(FirstRunExperience(profile, ctas), H)
  <2>2. Sound(firstRunWelcome, H) /\ Sound(firstRunProfile, H) /\ Sound(firstRunCTAs, H)
    BY <1>3, <1>f, Zenon DEF firstRunWelcome, firstRunProfile, firstRunCTAs
  <2> QED
    BY <2>2, TextSound, Zenon DEF FirstRunExperience, If
<1> QED
  BY <1>3, <1>4, <1>5, <1>6, <1>7

\* What a visitor without identity sees, home and the static pages.
LEMMA PublicSound ==
  ASSUME NEW H
  PROVE  /\ Sound(QuizTeaser, H) /\ Sound(FlashcardsTeaser, H) /\ Sound(DashboardTeaser, H)
         /\ Sound(HomePage, H) /\ Sound(TermsPage, H) /\ Sound(PrivacyPage, H)
<1>1. \A S : Sound(Ids(S), H)
  BY IdsSound
<1>2. /\ Sound(Links({"/auth/page", "/auth/page?mode=signup"}), H)
      /\ Sound(Links({"/learn/quiz"}), H) /\ Sound(Links({"/learn/quiz", "/learn/flashcards"}), H)
      /\ Sound(Links({"/patterns"} \cup homeSurfaces), H)
      /\ Sound(Links({quizTopicURL, "/learn/quiz"}), H)
  BY LinksSound DEF DemoPaths, homeSurfaces, quizTopicURL
<1> QED
  BY <1>1, <1>2, JoinSound, BaseSound, TextSound, Zenon
  DEF QuizTeaser, FlashcardsTeaser, DashboardTeaser, signIn, HomePage, TermsPage, PrivacyPage,
      explainer, perfStats

\* The dashboard and its widgets.
LEMMA DashboardSound ==
  ASSUME NEW H, AppHoles \subseteq H
  PROVE  /\ \A flags : Sound(DashboardPage(flags), H)
         /\ Sound(QuizWidgetSkeleton, H) /\ Sound(FlashcardWidgetSkeleton, H)
         /\ \A some : Sound(QuizProgressWidget(some), H) /\ Sound(FlashcardProgressWidget(some), H)
<1>1. \A S : Sound(Ids(S), H)
  BY IdsSound
<1>2. /\ Sound(Links({"/learn/quiz"}), H) /\ Sound(Links({"/learn/quiz?q"}), H)
      /\ \A some : Sound(Links({IF some THEN "/learn/flashcards" ELSE "/learn/quiz"}), H)
  BY LinksSound DEF DemoPaths
<1>4. /\ Sound(Does({Plain(Get("/dashboard/widgets/quiz", {}, "widget-quiz", "self"))}), H)
      /\ Sound(Does({Plain(Get("/dashboard/widgets/flashcards", {}, "widget-flashcards", "self"))}), H)
  <2>1. /\ "/dashboard/widgets/quiz" \in FormPaths
        /\ "/dashboard/widgets/flashcards" \in FormPaths
        /\ "widget-quiz" \in FormHoles /\ "widget-flashcards" \in FormHoles /\ "self" \in Ways
    BY DEF FormPaths, FormHoles, AppHoles, Ways
  <2> QED
    BY <2>1, AppForm, Zenon
<1> USE <1>1, <1>2, JoinSound, BaseSound, TextSound
<1>3. /\ Sound(Hole("widget-quiz", V("QuizWidgetSkeleton", {}, {})), H)
      /\ Sound(Hole("widget-flashcards", V("FlashcardWidgetSkeleton", {}, {})), H)
  BY AppFills DEF AppHoles, CardNames, ScrollNames
<1>5. ASSUME NEW flags PROVE Sound(DashboardPage(flags), H)
  BY <1>3, AccountSound, PublicSound, Zenon DEF DashboardPage, If, Either
<1>6. Sound(QuizWidgetSkeleton, H) /\ Sound(FlashcardWidgetSkeleton, H)
  BY <1>4, Zenon DEF QuizWidgetSkeleton, FlashcardWidgetSkeleton, skeleton
<1>7. ASSUME NEW some PROVE Sound(QuizProgressWidget(some), H) /\ Sound(FlashcardProgressWidget(some), H)
  BY Zenon DEF QuizProgressWidget, FlashcardProgressWidget, If
<1> QED
  BY <1>5, <1>6, <1>7

\* The quiz: whatever card the page holds, it is one of the quiz's.
LEMMA QuizSound ==
  ASSUME NEW H, AppHoles \subseteq H
  PROVE  /\ Sound(QuizEmptyState, H) /\ Sound(saveOffer, H)
         /\ \A flags, q : Sound(QuizQuestionCard(flags, q), H) /\ Sound(QuizResult(flags, q), H)
         /\ \A flags, of : flags \cap QuizCards # {} => Sound(QuizPage(flags, of), H)
<1>1. \A S : Sound(Ids(S), H)
  BY IdsSound
<1>2. Sound(Links({"/patterns"}), H)
  BY LinksSound DEF DemoPaths
<1>3. ASSUME NEW flags
      PROVE  quizAnswerAction(flags) \in FormPaths /\ quizNextURL(flags) \in FormPaths
  BY DEF quizAnswerAction, quizNextURL, FormPaths
<1>4. /\ "quiz-card" \in FormHoles /\ "inner" \in Ways /\ "/learn/quiz" \in FormPaths
  BY DEF FormPaths, FormHoles, AppHoles, Ways
<1>5. Sound(saveOffer, H)
  <2>1. "save-offer" \in AppHoles \cup {"body", "first-run-steps"}
    BY DEF AppHoles
  <2>2. "/learn/flashcards" \notin DemoPaths \cup CardActions \cup {"/patterns"}
    BY DEF DemoPaths, CardActions, flashcardKnownAction, flashcardDeleteAction
  <2>3. Sound(Does({Plain(CSRFField(Hx("POST", "/learn/flashcards", {}, "save-offer", "self")))}), H)
    BY <2>1, <2>2, FormSound
  <2> QED
    BY <2>3, Zenon DEF saveOffer, Post
<1>6. ASSUME NEW flags, NEW q PROVE Sound(QuizQuestionCard(flags, q), H)
  BY <1>3, <1>4, AppForm, Zenon DEF QuizQuestionCard
<1>7. ASSUME NEW flags, NEW q PROVE Sound(QuizResult(flags, q), H)
  <2>1. Sound(Hole("save-offer", V("saveOffer", {}, {})), H)
    BY AppFills DEF AppHoles, CardNames, ScrollNames
  <2>2. /\ Sound(Does({Plain(Get(quizNextURL(flags), q, "quiz-card", "inner"))}), H)
        /\ Sound(Does({Plain(Get("/learn/quiz", {}, "quiz-card", "inner"))}), H)
    BY <1>3, <1>4, AppForm, Zenon
  <2>3. Sound(QuizScoreBadge, H)
    BY TextSound DEF QuizScoreBadge
  <2> QED
    BY <1>2, <2>1, <2>2, <2>3, JoinSound, TextSound, Zenon DEF QuizResult, If
<1>8. ASSUME NEW flags, NEW of, flags \cap QuizCards # {} PROVE Sound(QuizPage(flags, of), H)
  <2> DEFINE card == CHOOSE c \in QuizCards : c \in flags
             main == If("banner" \in flags, GuestBanner)
                       ++ If(card = "QuizQuestionCard", QuizScoreBadge)
                       ++ Ids({"quiz-card"})
                       ++ Hole("quiz-card", V(card, flags \ {card, "banner"}, of))
  <2>1. card \in QuizCards
    BY <1>8
  <2>2. QuizPage(flags, of) = Base(FALSE, main)
    BY Zenon DEF QuizPage
  <2> HIDE DEF card
  <2>3. Sound(Hole("quiz-card", V(card, flags \ {card, "banner"}, of)), H)
    BY <2>1, AppFills DEF AppHoles, CardNames, ScrollNames, QuizCards
  <2>4. Sound(QuizScoreBadge, H) /\ Sound(GuestBanner, H)
    BY TextSound, AccountSound DEF QuizScoreBadge
  <2>5. Sound(main, H)
    BY <1>1, <2>3, <2>4, JoinSound, TextSound, Zenon DEF If
  <2> HIDE DEF main
  <2> QED
    BY <2>2, <2>5, BaseSound, Zenon
<1> QED
  BY <1>5, <1>6, <1>7, <1>8, TextSound DEF QuizEmptyState

\* The flashcards, all but the forms of a card: a list has a hole for each card.
LEMMA FlashcardsSound ==
  ASSUME NEW cards, cards \subseteq Cards, NEW H, AppHoles \cup cards \subseteq H
  PROVE  /\ Sound(FlashcardList(cards), H) /\ \A flags : Sound(FlashcardsPage(flags, cards), H)
         /\ Sound(FlashcardSaved, H) /\ Sound(runCheck, H) /\ Sound(noCards, H)
         /\ Sound(IsolationResult, H)
<1>1. \A S : Sound(Ids(S), H)
  BY IdsSound
<1>2. /\ Sound(Links({"/learn/quiz"}), H) /\ Sound(Links({"/learn/flashcards"}), H)
      /\ Sound(Links({"/learn/flashcards?check=1"}), H)
  BY LinksSound DEF DemoPaths
<1>3. Sound(runCheck, H) /\ Sound(IsolationResult, H)
  <2>1. /\ "/learn/flashcards/isolation" \in FormPaths /\ "isolation-result" \in FormHoles
        /\ "inner" \in Ways
    BY DEF FormPaths, FormHoles, AppHoles, Ways
  <2>2. Sound(Does({Get("/learn/flashcards/isolation", {}, "isolation-result", "inner")}), H)
    BY <2>1, AppForm, Zenon
  <2> QED
    BY <1>2, <2>2, JoinSound, Zenon DEF runCheck, IsolationResult
<1>4. Sound(FlashcardList(cards), H)
  <2> DEFINE list == [Text EXCEPT !.holes = [c \in cards |-> V("FlashcardCard", {}, {c})]]
  <2>1. Sound(list, H)
    <3>1. /\ list.does = {} /\ list.links = {} /\ DOMAIN list.holes = cards
          /\ \A c \in cards : list.holes[c] = V("FlashcardCard", {}, {c})
      BY DEF Text
    <3>2. ASSUME NEW c \in cards PROVE Fills(c, V("FlashcardCard", {}, {c}))
      <4>1. c \notin CounterHoles /\ \A p \in 1 .. 4 : c # Sentinel(p)
        BY CardAssumption, SentinelsAre DEF CounterHoles, Regions, Sentinels
      <4>2. V("FlashcardCard", {}, {c}).name = "FlashcardCard"
        BY DEF V
      <4> QED
        BY <4>1, <4>2 DEF Fills
    <3> HIDE DEF list
    <3> QED
      BY <3>1, <3>2 DEF Sound
  <2> HIDE DEF list
  <2>2. FlashcardList(cards) \in {FlashcardsEmptyState, list}
    BY DEF FlashcardList, list
  <2> QED
    BY <1>2, <2>1, <2>2 DEF FlashcardsEmptyState
<1>5. ASSUME NEW flags PROVE Sound(FlashcardsPage(flags, cards), H)
  <2>1. ASSUME NEW ran \in BOOLEAN, NEW has \in BOOLEAN PROVE Sound(IsolationPanel(ran, has), H)
    <3>1. \A name \in {"IsolationResult", "runCheck", "noCards"} :
            Sound(Hole("isolation-result", V(name, {}, {})), H)
      BY AppFills DEF AppHoles, CardNames, ScrollNames
    <3> DEFINE first == CASE ran      -> V("IsolationResult", {}, {})
                          [] has      -> V("runCheck", {}, {})
                          [] OTHER    -> V("noCards", {}, {})
    <3>2. first \in {V("IsolationResult", {}, {}), V("runCheck", {}, {}), V("noCards", {}, {})}
      OBVIOUS
    <3> HIDE DEF first
    <3>3. Sound(Hole("isolation-result", first), H)
      BY <3>1, <3>2
    <3> QED
      BY <1>1, <3>3, JoinSound, Zenon DEF IsolationPanel, first
  <2>2. Sound(GuestBanner, H) /\ Sound(FlashcardsTeaser, H)
    BY AccountSound, PublicSound
  <2>3. ("ran" \in flags) \in BOOLEAN /\ (cards # {}) \in BOOLEAN
    OBVIOUS
  <2> QED
    BY <1>1, <1>4, <2>1, <2>2, <2>3, JoinSound, BaseSound, TextSound, Zenon
    DEF FlashcardsPage, If, Either
<1> QED
  BY <1>2, <1>3, <1>4, <1>5 DEF FlashcardSaved, noCards

DemoAsks == DemoPaths \ {ScrollPath, CounterPath}
DemoSpots == DemoHoles \ {"oob-counter-btn", "oob-total", "sentinel-1"}

Manners == {"inner", "self", "selfInner", "append"}

\* A control of a demo that has no rule of its own, ...
LEMMA DemoDoes ==
  ASSUME NEW H, NEW verb, NEW path \in DemoAsks, NEW hole \in DemoSpots,
         NEW how \in Manners
  PROVE  \A of : Sound(Does({Hx(verb, path, of, hole, how)}), H)
<1>1. \A of : Control(Hx(verb, path, of, hole, how))
  BY DemoControl DEF DemoAsks, DemoSpots, Manners
<1> QED
  BY <1>1, DoesSound

\* ... and what it first shows.
LEMMA DemoFills ==
  ASSUME NEW hole \in DemoSpots, NEW name, NEW flags, NEW of,
         name \notin CardNames \cup ScrollNames \cup {"QuizPage", "PatternsPage"}
  PROVE  Sound(Hole(hole, V(name, flags, of)), DemoHoles)
<1>1. hole \in DemoHoles /\ hole \notin Cards \cup Sentinels \cup CounterHoles
  BY HolesAre, SentinelsAre DEF DemoSpots, CounterHoles
<1>2. V(name, flags, of).name = name
  BY DEF V
<1>3. \A p \in 1 .. 4 : Sentinel(p) \in Sentinels
  BY DEF Sentinels
<1>4. Fills(hole, V(name, flags, of))
  BY <1>1, <1>2, <1>3 DEF Fills, CardNames, ScrollNames
<1> QED
  BY <1>1, <1>4, HoleSound

\* The fragments of the demos that send again.
LEMMA FragmentsSound ==
  ASSUME NEW H
  PROVE  /\ Sound(PatternEditDisplay, H) /\ Sound(PatternEditForm, H) /\ Sound(confirmButton, H)
         /\ Sound(PatternCounterBadge, H)
         /\ \A n : /\ Sound(PatternFavoriteButton(n), H) /\ Sound(PatternCounterButton(n), H)
                   /\ Sound(PatternTransitionCard(n), H)
<1>1. \A S : Sound(Ids(S), H)
  BY IdsSound
<1>2. /\ "/patterns/api/edit/{id}" \in DemoAsks /\ "/patterns/api/favorite/{id}" \in DemoAsks
      /\ "/patterns/api/confirm" \in DemoAsks /\ "/patterns/api/transition" \in DemoAsks
      /\ "edit" \in DemoSpots /\ "favorite" \in DemoSpots /\ "confirm-demo-target" \in DemoSpots
      /\ "vt-card" \in DemoSpots /\ "self" \in Manners /\ "inner" \in Manners
  BY DEF DemoAsks, DemoSpots, DemoPaths, DemoHoles, ScrollPath, CounterPath, Manners
<1>3. /\ Sound(Does({Hx("GET", "/patterns/api/edit/{id}", {}, "edit", "self")}), H)
      /\ Sound(Does({Hx("PUT", "/patterns/api/edit/{id}", {}, "edit", "self")}), H)
      /\ Sound(Does({Hx("POST", "/patterns/api/confirm", {}, "confirm-demo-target", "inner")}), H)
      /\ \A n : Sound(Does({Hx("POST", "/patterns/api/favorite/{id}", n, "favorite", "self")}), H)
      /\ \A n : Sound(Does({Hx("GET", "/patterns/api/transition", n, "vt-card", "inner")}), H)
  BY <1>2, DemoDoes, Zenon
<1>4. ASSUME NEW n
      PROVE  Sound(Does({Hx("POST", "/patterns/api/counter", n, "oob-counter-btn", "self")}), H)
  <2>1. Control(Hx("POST", "/patterns/api/counter", n, "oob-counter-btn", "self"))
    BY DemoControl DEF DemoPaths, DemoHoles, ScrollPath, CounterPath
  <2> QED
    BY <2>1, DoesSound
<1> QED
  BY <1>1, <1>3, <1>4, JoinSound, Zenon
  DEF PatternEditDisplay, PatternEditForm, confirmButton, PatternCounterBadge,
      PatternFavoriteButton, PatternCounterButton, PatternTransitionCard, Get, Post

\* A part of the showcase.
Demos(m) == Sound(m, DemoHoles)

\* The demos are put together like the pages are: parts, ...
LEMMA DemosPlain ==
  /\ Demos(Text) /\ \A S : Demos(Ids(S))
  /\ \A S : Sound(Does(S), DemoHoles) => Demos(Does(S))
  /\ \A h, v : Sound(Hole(h, v), DemoHoles) => Demos(Hole(h, v))
BY TextSound, IdsSound DEF Demos

\* ... one after the other, ...
LEMMA DemosJoin == ASSUME NEW m, NEW n, Demos(m), Demos(n) PROVE Demos(m ++ n)
BY JoinSound DEF Demos

\* ... the counter's two regions, at the same count, ...
LEMMA DemosCounter ==
  Demos(Hole("oob-counter-btn", V("PatternCounterButton", {}, {0}))
         ++ Hole("oob-total", V("PatternCounterBadge", {}, {0})))
<1> DEFINE m == Hole("oob-counter-btn", V("PatternCounterButton", {}, {0}))
           n == Hole("oob-total", V("PatternCounterBadge", {}, {0}))
<1>1. ASSUME NEW h \in CounterHoles, NEW name \in {"PatternCounterButton", "PatternCounterBadge"}
      PROVE  Sound(Hole(h, V(name, {}, {0})), DemoHoles)
  <2>1. h \in DemoHoles /\ h \notin Cards \cup Sentinels
    BY HolesAre, SentinelsAre DEF CounterHoles, DemoHoles
  <2>2. V(name, {}, {0}).name = name /\ V(name, {}, {0}).of = {0}
    BY DEF V
  <2>3. \A p \in 1 .. 4 : Sentinel(p) \in Sentinels
    BY DEF Sentinels
  <2>4. Fills(h, V(name, {}, {0}))
    BY <2>1, <2>2, <2>3 DEF Fills
  <2> QED
    BY <2>1, <2>4, HoleSound
<1>2. Demos(m) /\ Demos(n)
  BY <1>1 DEF CounterHoles, Demos
<1> QED
  BY <1>2, DemosJoin

\* ... and the first sentinel of the endless list.
LEMMA DemosSentinel == Demos(Hole(Sentinel(1), V("PatternScrollSentinel", {}, {1})))
<1>1. Sentinel(1) \in DemoHoles /\ Sentinel(1) \in Sentinels /\ Sentinel(1) \notin CounterHoles
      /\ Sentinel(1) \notin Cards /\ \A p \in 1 .. 4 : Sentinel(p) = Sentinel(1) => p = 1
  BY SentinelsAre, HolesAre DEF DemoHoles, CounterHoles
<1>2. V("PatternScrollSentinel", {}, {1}).name = "PatternScrollSentinel"
  BY DEF V
<1>3. Fills(Sentinel(1), V("PatternScrollSentinel", {}, {1}))
  BY <1>1, <1>2 DEF Fills
<1> QED
  BY <1>1, <1>3, HoleSound, DemosPlain

\* Every demo, and so every section, is one of those.
LEMMA EveryDemo == ASSUME NEW slug PROVE Demos(patternDemo(slug))
<1>1. /\ \A hole \in DemoSpots : Demos(inner(hole))
      /\ \A hole \in DemoSpots, name \in {"PatternEditDisplay", "PatternFavoriteButton",
                                           "confirmButton", "PatternTransitionCard", ""} :
           \A of : Demos(Hole(hole, V(name, {}, of)))
  <2>1. ASSUME NEW hole \in DemoSpots,
               NEW name \in {"PatternEditDisplay", "PatternFavoriteButton", "confirmButton",
                             "PatternTransitionCard", ""}, NEW of
        PROVE  Demos(Hole(hole, V(name, {}, of)))
    <3>1. name \notin CardNames \cup ScrollNames \cup {"QuizPage", "PatternsPage"}
      BY DEF CardNames, ScrollNames
    <3> QED
      BY <3>1, DemoFills, DemosPlain
  <2>2. ASSUME NEW hole \in DemoSpots PROVE Demos(inner(hole))
    BY <2>1, DemosPlain, DemosJoin, Zenon DEF inner, Nothing
  <2> QED
    BY <2>1, <2>2
<1>2. ASSUME NEW verb, NEW path \in DemoAsks, NEW hole \in DemoSpots, NEW how \in Manners
      PROVE  Demos(Does({Hx(verb, path, {}, hole, how)}))
  <2>1. Sound(Does({Hx(verb, path, {}, hole, how)}), DemoHoles)
    BY DemoDoes, Zenon
  <2> QED
    BY <2>1, DemosPlain, Zenon
<1>3. /\ "/patterns/api/swap" \in DemoAsks /\ "/patterns/api/search" \in DemoAsks
      /\ "/patterns/api/typeahead" \in DemoAsks /\ "/patterns/api/toast" \in DemoAsks
      /\ "/patterns/api/skeleton" \in DemoAsks /\ "/patterns/api/tab/{name}" \in DemoAsks
      /\ "/patterns/api/bulk" \in DemoAsks /\ "/patterns/api/time" \in DemoAsks
      /\ "/patterns/api/slow" \in DemoAsks /\ "/patterns/api/limited" \in DemoAsks
      /\ "swap-demo" \in DemoSpots /\ "search-results" \in DemoSpots /\ "edit" \in DemoSpots
      /\ "favorite" \in DemoSpots /\ "typeahead-results" \in DemoSpots
      /\ "toast-demo-status" \in DemoSpots /\ "skeleton" \in DemoSpots
      /\ "tab-demo-panel" \in DemoSpots /\ "bulk-demo-result" \in DemoSpots
      /\ "polling" \in DemoSpots /\ "confirm-demo-target" \in DemoSpots
      /\ "vt-card" \in DemoSpots /\ "limit-log" \in DemoSpots /\ "slow-out" \in DemoSpots
      /\ "inner" \in Manners /\ "selfInner" \in Manners /\ "append" \in Manners
  BY DEF DemoAsks, DemoSpots, DemoPaths, DemoHoles, ScrollPath, CounterPath, Manners
<1>4. /\ Demos(Does({Get("/patterns/api/swap", {}, "swap-demo", "inner")}))
      /\ Demos(Does({Get("/patterns/api/search", {}, "search-results", "inner")}))
      /\ Demos(Does({Get("/patterns/api/typeahead", {}, "typeahead-results", "inner")}))
      /\ Demos(Does({Get("/patterns/api/skeleton", {}, "skeleton", "selfInner")}))
      /\ Demos(Does({Post("/patterns/api/bulk", {}, "bulk-demo-result", "inner")}))
      /\ Demos(Does({Get("/patterns/api/time", {}, "polling", "selfInner")}))
      /\ Demos(Does({Get("/patterns/api/limited", {}, "limit-log", "append")}))
      /\ Demos(Does({Get("/patterns/api/slow", {}, "slow-out", "inner")}))
  BY <1>2, <1>3, Zenon DEF Get, Post
<1>9. /\ Demos(Does({Post("/patterns/api/toast", {kind}, "toast-demo-status", "inner") : kind \in 1 .. 3}))
      /\ Demos(Does({Get("/patterns/api/tab/{name}", {t}, "tab-demo-panel", "inner") : t \in 1 .. 3}))
  <2> DEFINE toasts == {Post("/patterns/api/toast", {kind}, "toast-demo-status", "inner") : kind \in 1 .. 3}
             tabs == {Get("/patterns/api/tab/{name}", {t}, "tab-demo-panel", "inner") : t \in 1 .. 3}
  <2>1. ASSUME NEW of
        PROVE  /\ Control(Post("/patterns/api/toast", of, "toast-demo-status", "inner"))
               /\ Control(Get("/patterns/api/tab/{name}", of, "tab-demo-panel", "inner"))
    <3>1. \A verb : \A path \in DemoAsks, hole \in DemoSpots : Control(Hx(verb, path, of, hole, "inner"))
      BY DemoControl DEF DemoAsks, DemoSpots
    <3> QED
      BY <1>3, <3>1, Zenon DEF Get, Post
  <2>2. (\A a \in toasts : Control(a)) /\ \A a \in tabs : Control(a)
    BY <2>1
  <2> HIDE DEF toasts, tabs
  <2>3. Demos(Does(toasts)) /\ Demos(Does(tabs))
    BY <2>2, DoesSound, DemosPlain
  <2> QED
    BY <2>3 DEF toasts, tabs
<1>5. \A S : Demos(Ids(S))
  BY DemosPlain
<1>6. /\ \A hole \in {"skeleton", "polling"} : Demos(Hole(hole, Nothing))
      /\ Demos(Hole("edit", V("PatternEditDisplay", {}, {})))
      /\ Demos(Hole("favorite", V("PatternFavoriteButton", {}, {0})))
      /\ Demos(Hole("confirm-demo-target", V("confirmButton", {}, {})))
      /\ Demos(Hole("vt-card", V("PatternTransitionCard", {}, {0})))
      /\ \A hole \in {"swap-demo", "search-results", "typeahead-results", "toast-demo-status",
                      "tab-demo-panel", "bulk-demo-result", "limit-log", "slow-out"} :
           Demos(inner(hole))
  BY <1>1, <1>3 DEF Nothing
<1>7. /\ Demos(Does({Get("/patterns/api/swap", {}, "swap-demo", "inner")}) ++ inner("swap-demo"))
      /\ Demos(Ids({"live-search-input"}) ++ inner("search-results")
                  ++ Does({Get("/patterns/api/search", {}, "search-results", "inner")}))
      /\ Demos(Ids({"edit-demo"}) ++ Hole("edit", V("PatternEditDisplay", {}, {})))
      /\ Demos(Ids({"inline-validation-email"}))
      /\ Demos(Hole("favorite", V("PatternFavoriteButton", {}, {0})))
      /\ Demos(Ids({"typeahead-input", "typeahead-indicator"}) ++ inner("typeahead-results")
                  ++ Does({Get("/patterns/api/typeahead", {}, "typeahead-results", "inner")}))
      /\ Demos(Ids({"toast-demo-result"}) ++ inner("toast-demo-status")
                  ++ Does({Post("/patterns/api/toast", {kind}, "toast-demo-status", "inner") : kind \in 1 .. 3}))
      /\ Demos(Hole("skeleton", Nothing)
                  ++ Does({Get("/patterns/api/skeleton", {}, "skeleton", "selfInner")}))
  BY <1>4, <1>5, <1>6, <1>9, DemosJoin, Zenon
<1>8. /\ Demos(inner("tab-demo-panel")
                  ++ Does({Get("/patterns/api/tab/{name}", {t}, "tab-demo-panel", "inner") : t \in 1 .. 3}))
      /\ Demos(inner("bulk-demo-result")
                  ++ Does({Post("/patterns/api/bulk", {}, "bulk-demo-result", "inner")}))
      /\ Demos(Hole("polling", Nothing)
                  ++ Does({Get("/patterns/api/time", {}, "polling", "selfInner")}))
      /\ Demos(Ids({"confirm-demo-target", "confirm-demo-title"})
                  ++ Hole("confirm-demo-target", V("confirmButton", {}, {})))
      /\ Demos(Ids({"vt-card"}) ++ Hole("vt-card", V("PatternTransitionCard", {}, {0})))
      /\ Demos(inner("limit-log") ++ Does({Get("/patterns/api/limited", {}, "limit-log", "append")}))
      /\ Demos(Ids({"slow-spin"}) ++ inner("slow-out")
                  ++ Does({Get("/patterns/api/slow", {}, "slow-out", "inner")}))
      /\ Demos(Ids({"demo-modal-title"}))
  BY <1>4, <1>5, <1>6, <1>9, DemosJoin, Zenon
<1> QED
  BY <1>7, <1>8, DemosCounter, DemosSentinel, DemosPlain, Zenon DEF patternDemo

\* Functions merged have the holes of all, each as one of them has it.
LEMMA MergedIs ==
  ASSUME NEW F
  PROVE  /\ DOMAIN Merged(F) = UNION {DOMAIN f : f \in F}
         /\ \A x \in DOMAIN Merged(F) : \E f \in F : x \in DOMAIN f /\ Merged(F)[x] = f[x]
<1>1. DOMAIN Merged(F) = UNION {DOMAIN f : f \in F}
  BY DEF Merged
<1>2. ASSUME NEW x \in DOMAIN Merged(F)
      PROVE  \E f \in F : x \in DOMAIN f /\ Merged(F)[x] = f[x]
  <2> DEFINE f == CHOOSE g \in F : x \in DOMAIN g
  <2>1. f \in F /\ x \in DOMAIN f
    BY <1>1
  <2>2. Merged(F)[x] = f[x]
    BY <1>1 DEF Merged
  <2> QED
    BY <2>1, <2>2
<1> QED
  BY <1>1, <1>2

\* So sections that are the demos' make a page that is.
LEMMA DemosTogether ==
  ASSUME NEW f, \A i \in DOMAIN f : Demos(f[i]) PROVE Demos(Together(f))
<1> DEFINE F == {f[i].holes : i \in DOMAIN f}
<1>1. /\ Together(f).does = UNION {f[i].does : i \in DOMAIN f}
      /\ Together(f).links = UNION {f[i].links : i \in DOMAIN f}
      /\ Together(f).holes = Merged(F)
  BY DEF Together
<1>2. DOMAIN Merged(F) = UNION {DOMAIN g : g \in F}
  BY MergedIs
<1>3. ASSUME NEW h \in DOMAIN Merged(F)
      PROVE  \E i \in DOMAIN f : h \in DOMAIN f[i].holes /\ Merged(F)[h] = f[i].holes[h]
  <2>1. PICK g \in F : h \in DOMAIN g /\ Merged(F)[h] = g[h]
    BY MergedIs, Zenon
  <2>2. PICK i \in DOMAIN f : g = f[i].holes
    OBVIOUS
  <2> QED
    BY <2>1, <2>2
<1> HIDE DEF F
<1> QED
  BY <1>1, <1>3 DEF Sound, Demos

\* The page of all the patterns.
LEMMA ShowcaseSound == Demos(PatternsPage)
<1>1. ASSUME NEW slug PROVE Demos(patternSection(slug))
  BY EveryDemo, DemosPlain, DemosJoin, Zenon DEF patternSection, patternSource
<1>2. ASSUME NEW g PROVE Demos(patternCategorySection(g))
  <2> DEFINE f == [slug \in g.sections |-> patternSection(slug)]
  <2>1. \A slug \in DOMAIN f : Demos(f[slug])
    BY <1>1
  <2> HIDE DEF f
  <2>2. Demos(Together(f))
    BY <2>1, DemosTogether
  <2> QED
    BY <2>2, DemosPlain, DemosJoin, Zenon DEF patternCategorySection, f
<1> DEFINE f == [i \in DOMAIN patternGroups |-> patternCategorySection(patternGroups[i])]
<1>3. \A i \in DOMAIN f : Demos(f[i])
  BY <1>2
<1> HIDE DEF f
<1>4. Demos(Together(f))
  BY <1>3, DemosTogether
<1>5. Demos(Base(FALSE, Together(f)))
  BY <1>4, BaseSound DEF Demos
<1> QED
  BY <1>5, Zenon DEF PatternsPage, f

ListNames == {"FlashcardsPage", "FlashcardList"}

\* What a template call of the application writes.
LEMMA AppRendered ==
  ASSUME NEW v, Proper(v), NEW H, AppHoles \subseteq H, v.name \in ListNames => v.of \subseteq H,
         v.name \notin {"PatternsPage", "FlashcardCard"} \cup ScrollNames
  PROVE  Sound(Render(v), H)
<1>1. CASE v.name = "QuizPage"
  <2>1. Render(v) = QuizPage(v.flags, v.of)
    BY <1>1, Zenon DEF Render
  <2> QED
    BY <1>1, <2>1, QuizSound DEF Proper
<1>2. CASE v.name \in ListNames
  <2>1. v.of \subseteq Cards /\ AppHoles \cup v.of \subseteq H
    BY <1>2 DEF Proper, ListNames, CardNames
  <2>2. /\ v.name = "FlashcardsPage" => Render(v) = FlashcardsPage(v.flags, v.of)
        /\ v.name = "FlashcardList" => Render(v) = FlashcardList(v.of)
    BY Zenon DEF Render
  <2> QED
    BY <1>2, <2>1, <2>2, FlashcardsSound DEF ListNames
<1>3. CASE v.name \notin ListNames \cup {"QuizPage"}
  <2> DEFINE D == {"QuizPage", "FlashcardsPage", "FlashcardList", "PatternsPage", "FlashcardCard",
                   "PatternScrollPage", "PatternScrollSentinel"}
  <2>1. v.name \notin D
    BY <1>3 DEF ListNames, ScrollNames
  <2>2. Sound(Text, H)
    BY TextSound
  <2>3. /\ Sound(AuthPage, H) /\ Sound(RecoverPage, H) /\ Sound(LogoutPage, H)
        /\ \A valid : Sound(ResetPage(valid), H)
    BY AuthSound
  <2>4. /\ Sound(ProfileForm, H) /\ Sound(PasswordForm, H)
        /\ \A guest : Sound(ProfilePage(guest), H)
        /\ \A success : Sound(UpgradeForm(success), H)
        /\ \A registered, success : Sound(UpgradePage(registered, success), H)
        /\ \A profile, ctas : Sound(FirstRunExperience(profile, ctas), H)
    BY AccountSound
  <2>5. /\ Sound(QuizTeaser, H) /\ Sound(FlashcardsTeaser, H) /\ Sound(DashboardTeaser, H)
        /\ Sound(HomePage, H) /\ Sound(TermsPage, H) /\ Sound(PrivacyPage, H)
    BY PublicSound
  <2>6. /\ Sound(QuizEmptyState, H) /\ Sound(saveOffer, H)
        /\ \A flags, q : Sound(QuizQuestionCard(flags, q), H) /\ Sound(QuizResult(flags, q), H)
    BY QuizSound
  <2>7. Sound(FlashcardSaved, H) /\ Sound(runCheck, H) /\ Sound(noCards, H) /\ Sound(IsolationResult, H)
    <3>1. {} \subseteq Cards /\ AppHoles \cup {} \subseteq H
      OBVIOUS
    <3> QED
      BY <3>1, FlashcardsSound, Zenon
  <2>8. /\ \A flags : Sound(DashboardPage(flags), H)
        /\ Sound(QuizWidgetSkeleton, H) /\ Sound(FlashcardWidgetSkeleton, H)
        /\ \A some : Sound(QuizProgressWidget(some), H) /\ Sound(FlashcardProgressWidget(some), H)
    BY DashboardSound
  <2>9. /\ Sound(PatternEditDisplay, H) /\ Sound(PatternEditForm, H) /\ Sound(confirmButton, H)
        /\ Sound(PatternCounterBadge, H)
        /\ \A n : /\ Sound(PatternFavoriteButton(n), H) /\ Sound(PatternCounterButton(n), H)
                  /\ Sound(PatternTransitionCard(n), H)
    BY FragmentsSound
  <2> QED
    BY <2>1, <2>2, <2>3, <2>4, <2>5, <2>6, <2>7, <2>8, <2>9, Zenon DEF Render
<1> QED
  BY <1>1, <1>2, <1>3

\* A card writes its own two forms, and nothing else that sends.
LEMMA CardRendered ==
  ASSUME NEW c
  PROVE  /\ Render(V("FlashcardCard", {}, {c})).holes = <<>>
         /\ \A a \in Render(V("FlashcardCard", {}, {c})).does : CardControl(a, c)
         /\ Render(V("FlashcardCard", {}, {c})).links = {}
<1>1. Render(V("FlashcardCard", {}, {c})) = FlashcardCard(CHOOSE x \in {c} : TRUE)
  BY Zenon DEF Render, V
<1>2. (CHOOSE x \in {c} : TRUE) = c
  OBVIOUS
<1>3. Render(V("FlashcardCard", {}, {c})) = FlashcardCard(c)
  BY <1>1, <1>2
<1>4. FlashcardCard(c).holes = <<>> /\ FlashcardCard(c).links = {}
  BY DEF FlashcardCard, Does, Text
<1>5. \A a \in FlashcardCard(c).does : CardControl(a, c)
  BY DEF FlashcardCard, Does, Text, CardControl, CardActions
<1> QED
  BY <1>3, <1>4, <1>5

\* A sentinel asks for its page, and nothing else.
LEMMA SentinelRendered ==
  ASSUME NEW p
  PROVE  /\ Render(V("PatternScrollSentinel", {}, {p})).holes = <<>>
         /\ \A a \in Render(V("PatternScrollSentinel", {}, {p})).does : SentinelControl(a, p)
         /\ Render(V("PatternScrollSentinel", {}, {p})).links = {}
<1>1. Render(V("PatternScrollSentinel", {}, {p})) = PatternScrollSentinel(CHOOSE x \in {p} : TRUE)
  BY Zenon DEF Render, V
<1>2. (CHOOSE x \in {p} : TRUE) = p
  OBVIOUS
<1>3. Render(V("PatternScrollSentinel", {}, {p})) = PatternScrollSentinel(p)
  BY <1>1, <1>2
<1>4. PatternScrollSentinel(p).holes = <<>> /\ PatternScrollSentinel(p).links = {}
  BY DEF PatternScrollSentinel, Does, Text
<1>5. \A a \in PatternScrollSentinel(p).does : SentinelControl(a, p)
  BY DEF PatternScrollSentinel, Does, Text, SentinelControl, ScrollPath
<1> QED
  BY <1>3, <1>4, <1>5

\* The items of a page of the list: the first positions of each.
LEMMA ScrollIs ==
  /\ scrollStart(1) = 0  /\ scrollEnd(1) = 5
  /\ scrollStart(2) = 5  /\ scrollEnd(2) = 10
  /\ scrollStart(3) = 10 /\ scrollEnd(3) = 15
  /\ scrollStart(4) = 15 /\ scrollEnd(4) = 20
  /\ patternStubData = 20
BY DEF scrollStart, scrollEnd, patternStubData, patternScrollPerPage, Min

\* A page of the list ends in the sentinel of the next, the last one in none.
LEMMA ScrollRendered ==
  ASSUME NEW p \in 1 .. 4
  PROVE  LET m == Render(PatternScroll(p)) IN
         /\ m.does = {} /\ m.links = {}
         /\ p < 4 => /\ DOMAIN m.holes = {Sentinel(p + 1)}
                     /\ m.holes[Sentinel(p + 1)] = V("PatternScrollSentinel", {}, {p + 1})
         /\ p = 4 => DOMAIN m.holes = {}
<1>1. scrollEnd(p) = patternStubData <=> p = 4
  BY ScrollIs
<1>2. PatternScroll(p) = V("PatternScrollPage", IF p = 4 THEN {} ELSE {"more"}, {p})
  BY <1>1 DEF PatternScroll
<1> DEFINE v == PatternScroll(p)
<1>3. v.name = "PatternScrollPage" /\ ("more" \in v.flags <=> p # 4) /\ v.of = {p}
  BY <1>2 DEF V
<1> HIDE DEF v
<1>4. Render(v) = PatternScrollPage("more" \in v.flags, CHOOSE x \in v.of : TRUE)
  BY <1>3, Zenon DEF Render
<1>5. (CHOOSE x \in v.of : TRUE) = p
  BY <1>3
<1>6. Render(v) = IF p # 4 THEN Hole(Sentinel(p + 1), V("PatternScrollSentinel", {}, {p + 1})) ELSE Text
  BY <1>3, <1>4, <1>5 DEF PatternScrollPage, If
<1> QED
  BY <1>6 DEF v, Hole, Filled, Text

Bare == {"FlashcardCard"} \cup ScrollNames

\* The holes of the application a template call may bring.
Owns(v) == AppHoles \cup (IF v.name \in ListNames THEN v.of ELSE {})

\* Whatever call is rendered, one of these says what it writes.
LEMMA CasesRendered ==
  ASSUME NEW v, Proper(v)
  PROVE  \/ /\ v.name = "PatternsPage"
            /\ Sound(Render(v), DemoHoles)
         \/ /\ v.name = "FlashcardCard"
            /\ \E c \in Cards : v = V("FlashcardCard", {}, {c})
         \/ /\ v.name = "PatternScrollSentinel"
            /\ \E p \in 1 .. 4 : v = V("PatternScrollSentinel", {}, {p})
         \/ /\ v.name = "PatternScrollPage"
            /\ \E p \in 1 .. 4 : v = PatternScroll(p)
         \/ /\ v.name \notin {"PatternsPage"} \cup Bare
            /\ Sound(Render(v), Owns(v))
<1>1. CASE v.name = "PatternsPage"
  <2>1. Render(v) = PatternsPage
    BY <1>1, Zenon DEF Render
  <2>2. Sound(Render(v), DemoHoles)
    BY <2>1, ShowcaseSound DEF Demos
  <2> QED
    BY <1>1, <2>2
<1>2. CASE v.name \in {"FlashcardCard", "PatternScrollSentinel", "PatternScrollPage"}
  BY <1>2 DEF Proper
<1>5. CASE v.name \notin {"PatternsPage"} \cup Bare
  <2>1. AppHoles \subseteq Owns(v) /\ (v.name \in ListNames => v.of \subseteq Owns(v))
    BY DEF Owns
  <2>2. v.name \notin {"PatternsPage", "FlashcardCard"} \cup ScrollNames
    BY <1>5 DEF Bare
  <2>3. Sound(Render(v), Owns(v))
    BY <2>1, <2>2, AppRendered
  <2> QED
    BY <1>5, <2>3
<1> QED
  BY <1>1, <1>2, <1>5 DEF Bare, ScrollNames

\* In short: no link leads to a demo's endpoint, ...
LEMMA RenderedLinks == ASSUME NEW v, Proper(v) PROVE Render(v).links \cap DemoPaths = {}
<1>1. \A H : Sound(Render(v), H) => Render(v).links \cap DemoPaths = {}
  BY DEF Sound
<1>2. \A c : v = V("FlashcardCard", {}, {c}) => Render(v).links = {}
  BY CardRendered
<1>3. \A p : v = V("PatternScrollSentinel", {}, {p}) => Render(v).links = {}
  BY SentinelRendered
<1>4. \A p \in 1 .. 4 : v = PatternScroll(p) => Render(v).links = {}
  BY ScrollRendered
<1> QED
  BY <1>1, <1>2, <1>3, <1>4, CasesRendered

\* ... a control is one of the three, and a card's is in its card, ...
LEMMA RenderedDoes ==
  ASSUME NEW v, Proper(v), NEW a \in Render(v).does
  PROVE  \/ Control(a)
         \/ \E c \in Cards : v = V("FlashcardCard", {}, {c}) /\ CardControl(a, c)
         \/ \E p \in 1 .. 4 : v = V("PatternScrollSentinel", {}, {p}) /\ SentinelControl(a, p)
<1>1. \A H : Sound(Render(v), H) => Control(a)
  BY DEF Sound
<1>2. \A c : v = V("FlashcardCard", {}, {c}) => CardControl(a, c)
  BY CardRendered
<1>3. \A p : v = V("PatternScrollSentinel", {}, {p}) => SentinelControl(a, p)
  BY SentinelRendered
<1>4. \A p \in 1 .. 4 : v # PatternScroll(p)
  BY ScrollRendered
<1> QED
  BY <1>1, <1>2, <1>3, <1>4, CasesRendered

\* ... a hole is filled with what belongs there, ...
LEMMA RenderedFills ==
  ASSUME NEW v, Proper(v), v.name # "PatternScrollPage", NEW h \in DOMAIN Render(v).holes
  PROVE  Fills(h, Render(v).holes[h])
<1>1. \A H : Sound(Render(v), H) => Fills(h, Render(v).holes[h])
  BY DEF Sound
<1>0. DOMAIN <<>> = {}
  OBVIOUS
<1>2. \A c : v # V("FlashcardCard", {}, {c})
  BY <1>0, CardRendered
<1>3. \A p : v # V("PatternScrollSentinel", {}, {p})
  BY <1>0, SentinelRendered
<1> QED
  BY <1>1, <1>2, <1>3, CasesRendered

\* ... and which holes there are.
LEMMA RenderedHoles ==
  ASSUME NEW v, Proper(v)
  PROVE  /\ v.name = "PatternsPage" => DOMAIN Render(v).holes \subseteq DemoHoles
         /\ v.name \in {"FlashcardCard", "PatternScrollSentinel"} => DOMAIN Render(v).holes = {}
         /\ v.name \notin {"PatternsPage"} \cup Bare => DOMAIN Render(v).holes \subseteq Owns(v)
<1>1. \A H : Sound(Render(v), H) => DOMAIN Render(v).holes \subseteq H
  BY DEF Sound
<1>0. DOMAIN <<>> = {}
  OBVIOUS
<1>2. \A c : v = V("FlashcardCard", {}, {c}) => DOMAIN Render(v).holes = {}
  BY <1>0, CardRendered
<1>3. \A p : v = V("PatternScrollSentinel", {}, {p}) => DOMAIN Render(v).holes = {}
  BY <1>0, SentinelRendered
<1> QED
  BY <1>1, <1>2, <1>3, CasesRendered DEF Bare, ScrollNames

\* What first fills a hole is a call the program makes, and no page or list.
LEMMA FillsProper ==
  ASSUME NEW h, NEW v, Fills(h, v)
  PROVE  Proper(v) /\ v.name \notin {"PatternsPage", "PatternScrollPage"} \cup ListNames
<1>1. v.name = "FlashcardCard" => \E c \in Cards : v = V("FlashcardCard", {}, {c})
  BY DEF Fills
<1>2. v.name = "FlashcardCard" => v.of \subseteq Cards
  BY <1>1 DEF V
<1>3. v.name = "PatternScrollSentinel" => \E p \in 1 .. 4 : v = V("PatternScrollSentinel", {}, {p})
  BY DEF Fills, Sentinels
<1> QED
  BY <1>1, <1>2, <1>3 DEF Fills, Proper, CardNames, ListNames

\* What a hole brings with it belongs to the application.
LEMMA Deeper ==
  ASSUME NEW v, Proper(v), NEW h \in DOMAIN Render(v).holes, NEW w, w = Render(v).holes[h],
         NEW x \in DOMAIN Render(w).holes
  PROVE  x \in AppHoles /\ Fills(x, Render(w).holes[x])
<1>1. Proper(w) /\ w.name \notin {"PatternsPage", "PatternScrollPage"} \cup ListNames
  <2>1. CASE v.name = "PatternScrollPage"
    <3>1. PICK p \in 1 .. 4 : v = PatternScroll(p)
      BY <2>1 DEF Proper
    <3> DEFINE m == Render(PatternScroll(p))
    <3>a. /\ p < 4 => /\ DOMAIN m.holes = {Sentinel(p + 1)}
                      /\ m.holes[Sentinel(p + 1)] = V("PatternScrollSentinel", {}, {p + 1})
          /\ p = 4 => DOMAIN m.holes = {}
      BY ScrollRendered
    <3>b. h \in DOMAIN m.holes /\ w = m.holes[h]
      BY <3>1
    <3> HIDE DEF m
    <3>2. p < 4 /\ w = V("PatternScrollSentinel", {}, {p + 1})
      BY <3>a, <3>b
    <3>3. Render(w).holes = <<>>
      BY <3>2, SentinelRendered
    <3> QED
      BY <3>3
  <2>2. CASE v.name # "PatternScrollPage"
    BY <2>2, RenderedFills, FillsProper
  <2> QED
    BY <2>1, <2>2
<1>2. Fills(x, Render(w).holes[x])
  BY <1>1, RenderedFills
<1>3. w.name \notin {"FlashcardCard", "PatternScrollSentinel"}
  BY <1>1, RenderedHoles
<1>4. DOMAIN Render(w).holes \subseteq Owns(w)
  BY <1>1, <1>3, RenderedHoles DEF Bare, ScrollNames
<1> QED
  BY <1>1, <1>2, <1>4 DEF Owns

\* A call brings its own holes, and at most the application's below them.
LEMMA WithinIs ==
  ASSUME NEW v, Proper(v)
  PROVE  /\ \A h \in DOMAIN Render(v).holes : h \in DOMAIN Within(v) /\ Within(v)[h] = Render(v).holes[h]
         /\ \A h \in DOMAIN Within(v) :
              \/ h \in DOMAIN Render(v).holes
              \/ h \in AppHoles /\ Fills(h, Within(v)[h])
<1> DEFINE one == Render(v).holes
           two == {Render(one[h]).holes : h \in DOMAIN one}
<1>1. Within(v) = one \uplus Merged(two)
  BY DEF Within
<1>2. ASSUME NEW x \in DOMAIN Merged(two)
      PROVE  x \in AppHoles /\ Fills(x, Merged(two)[x])
  <2>1. PICK f \in two : x \in DOMAIN f /\ Merged(two)[x] = f[x]
    BY MergedIs, Zenon
  <2>2. PICK h \in DOMAIN one : f = Render(one[h]).holes
    OBVIOUS
  <2>3. x \in AppHoles /\ Fills(x, f[x])
    BY <2>1, <2>2, Deeper
  <2> QED
    BY <2>1, <2>3
<1> HIDE DEF one, two
<1>3. /\ DOMAIN Within(v) = DOMAIN one \cup DOMAIN Merged(two)
      /\ \A h \in DOMAIN one : Within(v)[h] = one[h]
      /\ \A h \in DOMAIN Merged(two) \ DOMAIN one : Within(v)[h] = Merged(two)[h]
  BY <1>1 DEF \uplus
<1>4. \A h \in DOMAIN Within(v) : h \in DOMAIN one \/ (h \in AppHoles /\ Fills(h, Within(v)[h]))
  BY <1>2, <1>3
<1> QED
  BY <1>3, <1>4 DEF one

\* What comes with a template call.
LEMMA WithinFills ==
  ASSUME NEW v, Proper(v), v.name # "PatternScrollPage", NEW h \in DOMAIN Within(v)
  PROVE  Fills(h, Within(v)[h])
BY WithinIs, RenderedFills

\* The ids of the application, the demos, the cards and the sentinels are apart.
LEMMA AppHolesAre ==
  /\ AppHoles \cap Sentinels = {} /\ AppHoles \cap CounterHoles = {} /\ AppHoles \cap Cards = {}
  /\ "page" \notin AppHoles
  /\ DemoHoles \cap Cards = {} /\ "page" \notin DemoHoles
  /\ DemoHoles \cap Sentinels = {"sentinel-1"}
<1>1. Sentinels = {"sentinel-1", "sentinel-2", "sentinel-3", "sentinel-4"}
  BY SentinelsAre
<1>2. AppHoles \subseteq Regions /\ DemoHoles \subseteq Regions
  BY DEF AppHoles, DemoHoles, Regions
<1>3. AppHoles \cap Cards = {} /\ DemoHoles \cap Cards = {}
  BY <1>2, CardAssumption, Zenon
<1>4. AppHoles \cap Sentinels = {} /\ AppHoles \cap CounterHoles = {} /\ "page" \notin AppHoles
  BY <1>1 DEF AppHoles, CounterHoles
<1>5. "page" \notin DemoHoles /\ DemoHoles \cap Sentinels = {"sentinel-1"}
  BY <1>1 DEF DemoHoles
<1> QED
  BY <1>3, <1>4, <1>5

\* Which holes come with a template call, ...
LEMMA WithinHoles ==
  ASSUME NEW v, Proper(v)
  PROVE  /\ v.name = "PatternsPage" => DOMAIN Within(v) \subseteq DemoHoles \cup AppHoles
         /\ v.name \in {"FlashcardCard", "PatternScrollSentinel"} => DOMAIN Within(v) \subseteq AppHoles
         /\ v.name \notin {"PatternsPage"} \cup Bare => DOMAIN Within(v) \subseteq Owns(v)
<1>1. /\ DOMAIN Render(v).holes \subseteq DOMAIN Within(v)
      /\ DOMAIN Within(v) \subseteq DOMAIN Render(v).holes \cup AppHoles
  BY WithinIs
<1>2. AppHoles \subseteq Owns(v)
  BY DEF Owns
<1>3. v.name = "PatternsPage" => DOMAIN Render(v).holes \subseteq DemoHoles
  BY RenderedHoles
<1>4. v.name \in {"FlashcardCard", "PatternScrollSentinel"} => DOMAIN Render(v).holes = {}
  BY RenderedHoles
<1>5. v.name \notin {"PatternsPage"} \cup Bare => DOMAIN Render(v).holes \subseteq Owns(v)
  BY RenderedHoles
<1> QED
  BY <1>1, <1>2, <1>3, <1>4, <1>5

\* ... and that a page of the list brings only the next sentinel.
LEMMA WithinScroll ==
  ASSUME NEW p \in 1 .. 4
  PROVE  /\ p < 4 => /\ Sentinel(p + 1) \in DOMAIN Within(PatternScroll(p))
                     /\ Within(PatternScroll(p))[Sentinel(p + 1)] = V("PatternScrollSentinel", {}, {p + 1})
         /\ \A h \in DOMAIN Within(PatternScroll(p)) : p < 4 /\ h = Sentinel(p + 1)
<1> DEFINE v == PatternScroll(p)
<1>1. v.name = "PatternScrollPage"
  BY DEF PatternScroll, V
<1>2. Proper(v)
  BY <1>1 DEF Proper, CardNames
<1>3. /\ p < 4 => /\ DOMAIN Render(v).holes = {Sentinel(p + 1)}
                  /\ Render(v).holes[Sentinel(p + 1)] = V("PatternScrollSentinel", {}, {p + 1})
      /\ p = 4 => DOMAIN Render(v).holes = {}
  BY ScrollRendered
<1>4. Within(v) = Render(v).holes \uplus Merged({Render(Render(v).holes[h]).holes : h \in DOMAIN Render(v).holes})
  BY DEF Within
<1> HIDE DEF v
<1>5. \A f \in {Render(Render(v).holes[h]).holes : h \in DOMAIN Render(v).holes} : f = <<>>
  <2> SUFFICES ASSUME NEW h \in DOMAIN Render(v).holes PROVE Render(Render(v).holes[h]).holes = <<>>
    OBVIOUS
  <2>1. Render(v).holes[h] = V("PatternScrollSentinel", {}, {p + 1})
    BY <1>3
  <2> QED
    BY <2>1, SentinelRendered
<1>6. DOMAIN Merged({Render(Render(v).holes[h]).holes : h \in DOMAIN Render(v).holes}) = {}
  BY <1>5 DEF Merged
<1>7. DOMAIN Within(v) = DOMAIN Render(v).holes
  BY <1>4, <1>6 DEF \uplus
<1>8. \A h \in DOMAIN Render(v).holes : Within(v)[h] = Render(v).holes[h]
  BY <1>2, WithinIs
<1> QED
  BY <1>3, <1>7, <1>8 DEF v

-----------------------------------------------------------------------------
(* What an answer shows and what it does to the cards *)

\* A view without a card, a list of them or a demo of its own rules.
Quiet(v) ==
  /\ v.name \notin CardNames \cup ScrollNames \cup {"PatternsPage", "PatternCounterResponse"}
  /\ v.name = "QuizPage" => v.flags \cap QuizCards # {}

Homes == {"/auth/page", "/dashboard"}
Navs == {"", "/profile", "/auth/page"}
Idle(r, a) ==
  /\ DOMAIN a = AnswerFields
  /\ Quiet(a.view)
  /\ a.nav \in Navs
  /\ r.htmx /\ a.status = 303 => a.to \in Homes
SameCards(d, e) == e.cards = d.cards /\ e.used = d.used
AllIdle(outcomes, r, d) == \A o \in outcomes : Idle(r, o[1]) /\ SameCards(d, o[2])

Modest(r, a) ==
  /\ Proper(a.view)
  /\ a.view.name # "PatternScrollSentinel"
  /\ a.nav \in Navs
  /\ a.view.name \in ListNames => ~r.htmx \/ (r.verb = "GET" /\ r.path \in ListPaths)
  /\ a.view.name = "PatternsPage" => r.path = "/patterns"
  /\ a.view.name = "FlashcardCard" =>
       r.htmx /\ r.path = flashcardKnownAction /\ a.view = V("FlashcardCard", {}, r.of)
  /\ a.view.name = "PatternScrollPage" => r.path = ScrollPath
  /\ a.view.name = "PatternCounterResponse" => r.path = CounterPath
  /\ r.path = ScrollPath /\ Swaps(a) => \A p \in 1 .. 4 : r.of = {p} => a.view = PatternScroll(p)
  /\ r.path = CounterPath /\ Swaps(a) => a.view.name = "PatternCounterResponse"
  /\ r.path \in {ScrollPath, CounterPath} => a.status # 303
  /\ r.htmx /\ a.status = 303 => a.to \in Homes

\* A card comes new, or goes when its owner deletes it.
Kept(r, d, o) ==
  /\ d.used \subseteq o[2].used
  /\ Owned(d) => Owned(o[2])
  /\ \A u \in Accounts : o[2].cards[u] \cap d.used \subseteq d.cards[u]
  /\ \A u \in Accounts : \A c \in d.cards[u] \ o[2].cards[u] :
       /\ r.path = flashcardDeleteAction /\ c \in r.of
       /\ r.htmx => o[1].view = Nothing /\ o[1].status = 200 /\ o[1].nav = ""

\* The cards an answer shows are those of the one it was made for.
ShowsTo(o, u) ==
  CardsOf(o[1].view) # {} => u \in Accounts /\ CardsOf(o[1].view) \subseteq o[2].cards[u]

Learned(r, u, d, o) ==
  /\ DOMAIN o[1] = AnswerFields
  /\ Modest(r, o[1])
  /\ Kept(r, d, o)
  /\ ShowsTo(o, u)
AllLearned(outcomes, r, u, d) == \A o \in outcomes : Learned(r, u, d, o)

\* Such a view shows no card, and is bound to no request.
LEMMA QuietModest ==
  ASSUME NEW v, Quiet(v)
  PROVE  /\ Proper(v) /\ CardsOf(v) = {}
         /\ v.name \notin ListNames \cup ScrollNames \cup {"PatternsPage", "PatternCounterResponse", "FlashcardCard"}
BY DEF Quiet, Proper, CardNames, ScrollNames, ListNames, CardsOf

\* A handler that leaves the cards alone loses none.
LEMMA SameKept ==
  ASSUME NEW r, NEW d, RowsOK(d), NEW o, SameCards(d, o[2])
  PROVE  Kept(r, d, o)
BY DEF SameCards, Kept, Owned, RowsOK

\* An answer that is idle shows and does only what it may.
LEMMA IdleLearned ==
  ASSUME NEW r, r.path \notin {ScrollPath, CounterPath}, NEW u, NEW d, RowsOK(d),
         NEW o, Idle(r, o[1]), SameCards(d, o[2])
  PROVE  Learned(r, u, d, o)
<1>1. Quiet(o[1].view)
  BY DEF Idle
<1>2. Modest(r, o[1])
  BY <1>1, QuietModest DEF Idle, Modest, ScrollNames
<1>3. ShowsTo(o, u)
  BY <1>1, QuietModest DEF ShowsTo
<1> QED
  BY <1>2, <1>3, SameKept DEF Learned, Idle

\* All but eight templates are quiet, ...
LEMMA QuietIs ==
  ASSUME NEW name, NEW flags, NEW of,
         name \notin {"QuizPage", "FlashcardsPage", "FlashcardList", "FlashcardCard", "PatternScrollPage",
                      "PatternScrollSentinel", "PatternsPage", "PatternCounterResponse"}
  PROVE  Quiet(V(name, flags, of))
BY DEF Quiet, V, CardNames, ScrollNames

\* ... showing one is idle, ...
LEMMA IdleShow == ASSUME NEW r, NEW status, status # 303, NEW v, Quiet(v) PROVE Idle(r, Show(status, v))
BY DEF Idle, Show, AnswerFields, Navs

\* ... so is an empty body or a line of text, ...
LEMMA QuietNothing == Quiet(Nothing) /\ Quiet(V("text", {}, {}))
BY QuietIs DEF Nothing

\* ... an error, ...
LEMMA IdleError == ASSUME NEW r, NEW status, status # 303 PROVE Idle(r, Error(status))
BY IdleShow, QuietNothing DEF Error

\* ... a redirect to a page that is no list's, or of a plain request, ...
LEMMA IdleSeeOther ==
  ASSUME NEW r, NEW path, ~r.htmx \/ path \in Homes PROVE Idle(r, SeeOther(path))
BY QuietNothing DEF Idle, SeeOther, Show, AnswerFields, Navs

\* ... and one by header.
LEMMA IdleRedirect ==
  ASSUME NEW r, NEW status, status # 303, NEW path \in Navs PROVE Idle(r, SetHXRedirect(status, path))
BY QuietNothing DEF Idle, SetHXRedirect, Show, AnswerFields

\* An idle answer, with the cards as they are, ...
LEMMA IdleReply ==
  ASSUME NEW r, NEW a, Idle(r, a), NEW d
  PROVE  /\ AllIdle(Reply(a, d), r, d)
         /\ \A e : SameCards(d, e) => AllIdle(Reply(a, e), r, d)
BY DEF AllIdle, Reply, SameCards

\* ... like the handlers' refusals ...
LEMMA IdleLoggedOut ==
  ASSUME NEW r, NEW d
  PROVE  /\ AllIdle(Reply(SeeOther("/auth/page"), d), r, d)
         /\ AllIdle(Reply(Error(403), d), r, d) /\ AllIdle(Reply(Error(404), d), r, d)
         /\ AllIdle(Reply(Error(405), d), r, d) /\ AllIdle(Reply(Error(429), d), r, d)
         /\ AllIdle(Reply(Error(500), d), r, d)
<1>1. Idle(r, SeeOther("/auth/page"))
  BY IdleSeeOther DEF Homes
<1>2. Idle(r, Error(403)) /\ Idle(r, Error(404)) /\ Idle(r, Error(405)) /\ Idle(r, Error(429))
      /\ Idle(r, Error(500))
  BY IdleError
<1> QED
  BY <1>1, <1>2, IdleReply

\* ... and the pages they show.
LEMMA IdleShown ==
  ASSUME NEW r, NEW d, NEW status, status # 303, NEW v, Quiet(v)
  PROVE  AllIdle(Reply(Show(status, v), d), r, d)
<1>1. Idle(r, Show(status, v))
  BY IdleShow
<1> QED
  BY <1>1, IdleReply

-----------------------------------------------------------------------------
(* The handlers *)

\* A card of the quiz, alone or in its page, is quiet, ...
LEMMA QuietQuiz ==
  ASSUME NEW name \in QuizCards, NEW flags, NEW of
  PROVE  /\ Quiet(V(name, flags, of))
         /\ name \in flags => Quiet(V("QuizPage", flags, of))
<1>1. Quiet(V(name, flags, of))
  BY QuietIs DEF QuizCards
<1>2. name \in flags => Quiet(V("QuizPage", flags, of))
  BY DEF Quiet, V, CardNames, ScrollNames
<1> QED
  BY <1>1, <1>2

\* ... so that the quiz is idle, ...
LEMMA IdleQuizPage ==
  ASSUME NEW r, NEW u, NEW d, NEW s PROVE AllIdle(quizPage(r, u, d, s), r, d)
<1>0. "QuizTeaser" \in QuizCards /\ "QuizEmptyState" \in QuizCards /\ "QuizQuestionCard" \in QuizCards
  BY DEF QuizCards
<1>1. /\ AllIdle(Reply(Quiz(r, u, d, 200, "QuizTeaser", {}, {}, FALSE), d), r, d)
      /\ AllIdle(Reply(Quiz(r, u, d, 200, "QuizEmptyState", {}, {}, FALSE), d), r, d)
  <2>1. /\ Idle(r, Quiz(r, u, d, 200, "QuizTeaser", {}, {}, FALSE))
        /\ Idle(r, Quiz(r, u, d, 200, "QuizEmptyState", {}, {}, FALSE))
    BY <1>0, QuietQuiz, IdleShow DEF Quiz
  <2> QED
    BY <2>1, IdleReply, Zenon
<1>2. ASSUME NEW asked
      PROVE  AllIdle({<<Quiz(r, u, d, 200, "QuizQuestionCard", TopicOf(r), {q}, TRUE), d>> :
                        q \in asked}, r, d)
  <2> DEFINE card(q) == Quiz(r, u, d, 200, "QuizQuestionCard", TopicOf(r), {q}, TRUE)
  <2>1. \A q : Idle(r, card(q))
    BY <1>0, QuietQuiz, IdleShow DEF Quiz
  <2> HIDE DEF card
  <2>2. AllIdle({<<card(q), d>> : q \in asked}, r, d)
    BY <2>1 DEF AllIdle, SameCards
  <2> QED
    BY <2>2 DEF card
<1>3. AllIdle(Reply(Error(500), d), r, d)
  BY IdleLoggedOut
<1> QED
  BY <1>1, <1>2, <1>3, Zenon DEF quizPage

\* ... answering a question is, ...
LEMMA IdleQuizAnswer ==
  ASSUME NEW r, NEW u, NEW d, NEW s PROVE AllIdle(quizAnswer(r, u, d, s), r, d)
<1>0. "QuizQuestionCard" \in QuizCards /\ "QuizResult" \in QuizCards
  BY DEF QuizCards
<1>1. AllIdle(Reply(Quiz(r, u, d, 422, "QuizQuestionCard", TopicOf(r), r.of, FALSE), d), r, d)
  <2> DEFINE a == Quiz(r, u, d, 422, "QuizQuestionCard", TopicOf(r), r.of, FALSE)
  <2>1. Idle(r, a)
    BY <1>0, QuietQuiz, IdleShow DEF Quiz
  <2> HIDE DEF a
  <2>2. AllIdle(Reply(a, d), r, d)
    BY <2>1, IdleReply
  <2> QED
    BY <2>2 DEF a
<1>2. ASSUME NEW flags, NEW of
      PROVE  AllIdle({<<Quiz(r, u, d, 200, "QuizResult", flags \cup offer, of, FALSE), d>> :
                        offer \in {{}, {"offer"}}}, r, d)
  <2> DEFINE result(offer) == Quiz(r, u, d, 200, "QuizResult", flags \cup offer, of, FALSE)
  <2>1. \A offer : Idle(r, result(offer))
    BY <1>0, QuietQuiz, IdleShow DEF Quiz
  <2> HIDE DEF result
  <2>2. AllIdle({<<result(offer), d>> : offer \in {{}, {"offer"}}}, r, d)
    BY <2>1 DEF AllIdle, SameCards
  <2> QED
    BY <2>2 DEF result
<1>3. CASE u = "none" \/ r.fault = "db" \/ ~r.valid
  <2> DEFINE again == Reply(Quiz(r, u, d, 422, "QuizQuestionCard", TopicOf(r), r.of, FALSE), d)
  <2>1. quizAnswer(r, u, d, s) \in {Reply(SeeOther("/auth/page"), d), Reply(Error(500), d), again}
    BY <1>3 DEF quizAnswer
  <2> HIDE DEF again
  <2>2. AllIdle(again, r, d)
    BY <1>1 DEF again
  <2> QED
    BY <2>1, <2>2, IdleLoggedOut
<1>4. CASE ~(u = "none" \/ r.fault = "db" \/ ~r.valid)
  <2> DEFINE q == CHOOSE i \in r.of : TRUE
             run == quizRun(s, q, TopicOf(r))
             next == {i \in Range(run) : i > q}
             flags == TopicOf(r) \cup (IF next = {} THEN {"done"} ELSE {})
             of == IF next = {} THEN {} ELSE {Min(next)}
  <2>1. quizAnswer(r, u, d, s) =
          {<<Quiz(r, u, d, 200, "QuizResult", flags \cup offer, of, FALSE), d>> :
             offer \in {{}, {"offer"}}}
    BY <1>4, Zenon DEF quizAnswer
  <2> HIDE DEF flags, of
  <2>2. AllIdle({<<Quiz(r, u, d, 200, "QuizResult", flags \cup offer, of, FALSE), d>> :
                   offer \in {{}, {"offer"}}}, r, d)
    BY <1>2, Zenon
  <2> QED
    BY <2>1, <2>2, Zenon
<1> QED
  BY <1>3, <1>4

\* ... and registering, which leaves the cards where they are.
LEMMA IdleUpgrade == ASSUME NEW r, NEW u, NEW d, RowsOK(d) PROVE AllIdle(UpgradeSubmit(r, u, d), r, d)
<1> DEFINE form(status, flags) == renderUpgradeForm(r, status, flags)
           done == [form(200, {"success"}) EXCEPT !.set = u]
           after == [d EXCEPT !.promoted = @ \cup {u}]
<1>0. \A flags : Quiet(V("UpgradePage", flags, {})) /\ Quiet(V("UpgradeForm", flags, {}))
  BY QuietIs
<1>1. Idle(r, form(200, {"success"})) /\ Idle(r, form(422, {}))
  BY <1>0, IdleShow DEF renderUpgradeForm
<1>2. Idle(r, done)
  BY <1>1 DEF Idle, AnswerFields
<1>3. SameCards(d, after)
  BY DEF SameCards, RowsOK, RowFields
<1>4. Idle(r, Show(200, V("UpgradePage", {"registered"}, {})))
  BY <1>0, IdleShow
<1> HIDE DEF form, done, after
<1>5. AllIdle(Reply(form(422, {}), d), r, d)
  BY <1>1, IdleReply
<1>6. AllIdle(Reply(Show(200, V("UpgradePage", {"registered"}, {})), d), r, d)
  BY <1>4, IdleReply
<1>7. AllIdle(Reply(done, after), r, d)
  BY <1>2, <1>3, IdleReply
<1>8. \/ UpgradeSubmit(r, u, d) \in {Reply(SeeOther("/auth/page"), d), Reply(form(422, {}), d),
                                    Reply(Show(200, V("UpgradePage", {"registered"}, {})), d)}
      \/ UpgradeSubmit(r, u, d) = Reply(done, after)
  BY DEF UpgradeSubmit, form, done, after
<1> QED
  BY <1>5, <1>6, <1>7, <1>8, IdleLoggedOut

\* What is idle is learned, whoever asks.
LEMMA AllIdleLearned ==
  ASSUME NEW r, r.path \notin {ScrollPath, CounterPath}, NEW u, NEW d, RowsOK(d),
         NEW S, AllIdle(S, r, d)
  PROVE  AllLearned(S, r, u, d)
BY IdleLearned DEF AllIdle, AllLearned

\* A page or a list of u's cards, as they are.
LEMMA ListLearned ==
  ASSUME NEW r, r.path \notin {ScrollPath, CounterPath}, NEW u, NEW d, RowsOK(d),
         NEW v, v.name \in ListNames, v.of \subseteq Cards, v.of # {} => u \in Accounts /\ v.of = d.cards[u],
         ~r.htmx \/ (r.verb = "GET" /\ r.path \in ListPaths)
  PROVE  AllLearned(Reply(Show(200, v), d), r, u, d)
<1> DEFINE a == Show(200, v)
<1>1. DOMAIN a = AnswerFields /\ a.view = v /\ a.status = 200 /\ a.nav = "" /\ a.status # 303
  BY DEF Show, AnswerFields
<1> HIDE DEF a
<1>2. Proper(v)
  BY DEF Proper, ListNames
<1>3. /\ v.name # "PatternScrollSentinel" /\ v.name # "PatternsPage" /\ v.name # "FlashcardCard"
      /\ v.name # "PatternScrollPage" /\ v.name # "PatternCounterResponse"
  BY DEF ListNames
<1>8. r.path # ScrollPath /\ r.path # CounterPath
  OBVIOUS
<1>10. a.nav \in Navs
  BY <1>1 DEF Navs
<1>9. a.status # 303
  BY <1>1
<1>4. Modest(r, a)
  BY <1>1, <1>2, <1>3, <1>8, <1>9, <1>10, Zenon DEF Modest
<1>5. Kept(r, d, <<a, d>>)
  BY SameKept DEF SameCards
<1>6. ShowsTo(<<a, d>>, u)
  BY <1>1 DEF ShowsTo, CardsOf
<1>7. Learned(r, u, d, <<a, d>>)
  BY <1>1, <1>4, <1>5, <1>6 DEF Learned
<1> QED
  BY <1>7 DEF AllLearned, Reply, a

\* The page of the flashcards, and its check.
LEMMA PageLearned ==
  ASSUME NEW r, r.verb = "GET", r.path \in ListPaths, NEW u \in Accounts \cup {"none"}, NEW d, RowsOK(d)
  PROVE  AllLearned(flashcardsPage(r, u, d), r, u, d)
<1>0. r.path \notin {ScrollPath, CounterPath}
  BY DEF ListPaths, ScrollPath, CounterPath
<1>1. AllLearned(Reply(Error(500), d), r, u, d)
  <2>1. AllIdle(Reply(Error(500), d), r, d)
    BY IdleLoggedOut
  <2> QED
    BY <1>0, <2>1, AllIdleLearned
<1>2. AllLearned(Reply(Show(200, V("FlashcardsTeaser", {}, {})), d), r, u, d)
  <2>1. Idle(r, Show(200, V("FlashcardsTeaser", {}, {})))
    BY QuietIs, IdleShow
  <2>2. AllIdle(Reply(Show(200, V("FlashcardsTeaser", {}, {})), d), r, d)
    BY <2>1, IdleReply, Zenon
  <2> QED
    BY <1>0, <2>2, AllIdleLearned
<1>3. AllLearned(Reply(Show(200, V("FlashcardsPage", {"teaser"}, {})), d), r, u, d)
  <2> DEFINE v == V("FlashcardsPage", {"teaser"}, {})
  <2>1. v.name \in ListNames /\ v.of = {}
    BY DEF V, ListNames
  <2> HIDE DEF v
  <2>2. AllLearned(Reply(Show(200, v), d), r, u, d)
    BY <1>0, <2>1, ListLearned
  <2> QED
    BY <2>2 DEF v
<1>4. ASSUME u # "none", NEW name \in ListNames, NEW flags
      PROVE  AllLearned(Reply(Show(200, V(name, flags, d.cards[u])), d), r, u, d)
  <2> DEFINE v == V(name, flags, d.cards[u])
  <2>1. v.name = name /\ v.of = d.cards[u]
    BY DEF V
  <2>2. u \in Accounts /\ d.cards[u] \subseteq Cards
    BY <1>4 DEF RowsOK
  <2> HIDE DEF v
  <2>3. AllLearned(Reply(Show(200, v), d), r, u, d)
    BY <1>0, <1>4, <2>1, <2>2, ListLearned
  <2> QED
    BY <2>3 DEF v
<1>5. "FlashcardsPage" \in ListNames /\ "FlashcardList" \in ListNames
  BY DEF ListNames
<1> QED
  BY <1>1, <1>2, <1>3, <1>4, <1>5, ZenonT(40) DEF flashcardsPage

\* After a form, htmx gets the fragment and a plain one a redirect.
LEMMA IdleAfterWrite ==
  ASSUME NEW r, NEW v, Quiet(v) PROVE Idle(r, AfterWrite(r, v))
BY IdleShow, IdleSeeOther DEF AfterWrite

\* A new card is nobody's yet, and comes to whoever asks.
LEMMA CreateLearned ==
  ASSUME NEW r, r.path \notin {ScrollPath, CounterPath}, NEW u \in Accounts \cup {"none"}, NEW d, RowsOK(d)
  PROVE  AllLearned(flashcardCreate(r, u, d), r, u, d)
<1>1. CASE u = "none" \/ ~r.valid \/ r.fault = "db"
  <2> DEFINE refused == Reply(Show(422, V("FlashcardSaveError", {}, {})), d)
  <2>1. AllIdle(refused, r, d)
    BY QuietIs, IdleShown
  <2>2. \/ flashcardCreate(r, u, d) = Reply(SeeOther("/auth/page"), d)
        \/ flashcardCreate(r, u, d) = Reply(Error(500), d)
        \/ flashcardCreate(r, u, d) = refused
    BY <1>1, Zenon DEF flashcardCreate
  <2> HIDE DEF refused
  <2>3. AllIdle(flashcardCreate(r, u, d), r, d)
    BY <2>1, <2>2, IdleLoggedOut
  <2> QED
    BY <2>3, AllIdleLearned
<1>2. CASE ~(u = "none" \/ ~r.valid \/ r.fault = "db")
  <2> DEFINE saved == AfterWrite(r, V("FlashcardSaved", {}, {}))
             after(c) == [d EXCEPT !.cards[u] = @ \cup {c}, !.used = @ \cup {c}]
  <2>1. Idle(r, saved)
    BY QuietIs, IdleAfterWrite
  <2>2. ASSUME NEW c \in Cards \ d.used PROVE Kept(r, d, <<saved, after(c)>>)
    <3>1. /\ after(c).used = d.used \cup {c}
          /\ after(c).cards = [d.cards EXCEPT ![u] = @ \cup {c}]
      BY DEF RowsOK, RowFields
    <3> HIDE DEF saved, after
    <3>2. u \in Accounts
      BY <1>2
    <3>3. \A w \in Accounts : after(c).cards[w] = IF w = u THEN d.cards[w] \cup {c} ELSE d.cards[w]
      BY <3>1, <3>2 DEF RowsOK
    <3>4. \A w \in Accounts : c \notin d.cards[w]
      BY <2>2 DEF RowsOK
    <3>5. ASSUME Owned(d) PROVE Owned(after(c))
      <4> SUFFICES ASSUME NEW w \in Accounts, NEW x \in Accounts, w # x
                   PROVE  after(c).cards[w] \cap after(c).cards[x] = {}
        BY DEF Owned
      <4>1. d.cards[w] \cap d.cards[x] = {}
        BY <3>5 DEF Owned
      <4> QED
        BY <3>3, <3>4, <4>1
    <3>6. \A w \in Accounts : after(c).cards[w] \cap d.used \subseteq d.cards[w]
      BY <2>2, <3>3
    <3>7. \A w \in Accounts : d.cards[w] \ after(c).cards[w] = {}
      BY <3>3
    <3> QED
      BY <3>1, <3>5, <3>6, <3>7 DEF Kept
  <2>3. flashcardCreate(r, u, d) = {<<saved, after(c)>> : c \in Cards \ d.used}
    BY <1>2, Zenon DEF flashcardCreate
  <2> HIDE DEF saved, after
  <2>4. Modest(r, saved) /\ DOMAIN saved = AnswerFields /\ CardsOf(saved.view) = {}
    <3>1. Learned(r, u, d, <<saved, d>>)
      BY <2>1, IdleLearned DEF SameCards
    <3>2. CardsOf(saved.view) = {}
      BY <2>1, QuietModest DEF Idle
    <3> QED
      BY <3>1, <3>2 DEF Learned
  <2>5. \A c \in Cards \ d.used : Learned(r, u, d, <<saved, after(c)>>)
    BY <2>2, <2>4 DEF Learned, ShowsTo
  <2> QED
    BY <2>3, <2>5 DEF AllLearned
<1> QED
  BY <1>1, <1>2

\* A card goes when its owner asks, and its form's answer is empty.
LEMMA DeleteLearned ==
  ASSUME NEW r, r.path = flashcardDeleteAction, NEW u \in Accounts \cup {"none"}, NEW d, RowsOK(d)
  PROVE  AllLearned(flashcardDelete(r, u, d), r, u, d)
<1>0. r.path \notin {ScrollPath, CounterPath}
  BY DEF ScrollPath, CounterPath, flashcardDeleteAction
<1>1. CASE u = "none" \/ r.fault = "db"
  <2>1. AllIdle(flashcardDelete(r, u, d), r, d)
    BY <1>1, IdleLoggedOut DEF flashcardDelete
  <2> QED
    BY <1>0, <2>1, AllIdleLearned
<1>2. CASE ~(u = "none" \/ r.fault = "db")
  <2> DEFINE done == AfterWrite(r, Nothing)
             after == [d EXCEPT !.cards[u] = @ \ r.of]
  <2>1. Idle(r, done)
    BY QuietNothing, IdleAfterWrite
  <2>2. r.htmx => done.view = Nothing /\ done.status = 200 /\ done.nav = ""
    BY DEF AfterWrite, Show
  <2>3. flashcardDelete(r, u, d) = {<<done, after>>}
    BY <1>2, Zenon DEF flashcardDelete, Reply
  <2>4. after.used = d.used /\ after.cards = [d.cards EXCEPT ![u] = @ \ r.of]
    BY DEF RowsOK, RowFields
  <2> HIDE DEF done, after
  <2>5. \A w \in Accounts : after.cards[w] = IF w = u THEN d.cards[w] \ r.of ELSE d.cards[w]
    BY <1>2, <2>4 DEF RowsOK
  <2>6. Kept(r, d, <<done, after>>)
    <3>1. Owned(d) => Owned(after)
      BY <2>5 DEF Owned
    <3>2. \A w \in Accounts : after.cards[w] \cap d.used \subseteq d.cards[w]
      BY <2>5
    <3>3. \A w \in Accounts : \A c \in d.cards[w] \ after.cards[w] : c \in r.of
      BY <2>5
    <3> QED
      BY <2>2, <2>4, <3>1, <3>2, <3>3 DEF Kept
  <2>7. Modest(r, done) /\ DOMAIN done = AnswerFields /\ CardsOf(done.view) = {}
    <3>1. Learned(r, u, d, <<done, d>>)
      BY <1>0, <2>1, IdleLearned DEF SameCards
    <3>2. CardsOf(done.view) = {}
      BY <2>1, QuietModest DEF Idle
    <3> QED
      BY <3>1, <3>2 DEF Learned
  <2>8. Learned(r, u, d, <<done, after>>)
    BY <2>6, <2>7 DEF Learned, ShowsTo
  <2> QED
    BY <2>3, <2>8 DEF AllLearned
<1> QED
  BY <1>1, <1>2

\* A click on a card's form says which card, a sentinel which page.
Asked(r) ==
  /\ r.htmx /\ r.path = flashcardKnownAction => \E c \in Cards : r.of = {c}
  /\ r.path = ScrollPath => \E p \in 1 .. 4 : r.of = {p}

\* Marking a card answers with that card, if it is the reader's.
LEMMA KnownLearned ==
  ASSUME NEW r, r.path = flashcardKnownAction, Asked(r), NEW u \in Accounts \cup {"none"}, NEW d, RowsOK(d)
  PROVE  AllLearned(flashcardSetKnown(r, u, d), r, u, d)
<1>0. r.path \notin {ScrollPath, CounterPath}
  BY DEF ScrollPath, CounterPath, flashcardKnownAction
<1>1. CASE u = "none" \/ r.fault = "db" \/ ~(r.of \subseteq d.cards[u]) \/ ~r.htmx
  <2>1. Idle(r, SeeOther("/learn/flashcards")) \/ r.htmx
    BY IdleSeeOther
  <2>2. \/ flashcardSetKnown(r, u, d) = Reply(SeeOther("/auth/page"), d)
        \/ flashcardSetKnown(r, u, d) \in {Reply(Error(500), d), Reply(Error(404), d)}
        \/ ~r.htmx /\ flashcardSetKnown(r, u, d) = Reply(SeeOther("/learn/flashcards"), d)
    BY <1>1 DEF flashcardSetKnown, AfterWrite
  <2>3. ~r.htmx => AllIdle(Reply(SeeOther("/learn/flashcards"), d), r, d)
    BY <2>1, IdleReply
  <2>4. AllIdle(flashcardSetKnown(r, u, d), r, d)
    BY <2>2, <2>3, IdleLoggedOut
  <2> QED
    BY <1>0, <2>4, AllIdleLearned
<1>2. CASE ~(u = "none" \/ r.fault = "db" \/ ~(r.of \subseteq d.cards[u]) \/ ~r.htmx)
  <2> DEFINE v == V("FlashcardCard", {}, r.of)
             a == Show(200, v)
  <2>1. flashcardSetKnown(r, u, d) = {<<a, d>>}
    BY <1>2, Zenon DEF flashcardSetKnown, AfterWrite, Reply
  <2>2. PICK c \in Cards : r.of = {c}
    BY <1>2 DEF Asked
  <2>3. v.name = "FlashcardCard" /\ v.of = r.of
    BY DEF V
  <2>4. Proper(v)
    BY <2>2, <2>3 DEF Proper
  <2>5. DOMAIN a = AnswerFields /\ a.view = v /\ a.status = 200 /\ a.nav = "" /\ a.status # 303
    BY DEF Show, AnswerFields
  <2>6. a.view = V("FlashcardCard", {}, r.of) /\ Proper(a.view)
    BY <2>4 DEF Show
  <2> HIDE DEF v, a
  <2>14. a.nav \in Navs
    BY <2>5 DEF Navs
  <2>12. a.status # 303
    BY <2>5
  <2>13. r.path # ScrollPath /\ r.path # CounterPath
    BY <1>0
  <2>11. /\ v.name \notin ListNames /\ v.name # "PatternScrollSentinel" /\ v.name # "PatternsPage"
         /\ v.name # "PatternScrollPage" /\ v.name # "PatternCounterResponse"
    BY <2>3 DEF ListNames
  <2>15. r.htmx /\ u \in Accounts /\ r.of \subseteq d.cards[u]
    BY <1>2
  <2>7. Modest(r, a)
    <3>2. /\ a.view.name \notin ListNames /\ a.view.name # "PatternScrollSentinel"
          /\ a.view.name # "PatternsPage" /\ a.view.name # "PatternScrollPage"
          /\ a.view.name # "PatternCounterResponse"
      BY <2>5, <2>11
    <3> QED
      BY <2>6, <3>2, <2>12, <2>13, <2>14, <2>15, Zenon DEF Modest
  <2>8. ShowsTo(<<a, d>>, u)
    <3>1. CardsOf(a.view) = r.of
      BY <2>3, <2>5 DEF CardsOf
    <3> QED
      BY <2>15, <3>1 DEF ShowsTo
  <2>9. Kept(r, d, <<a, d>>)
    BY SameKept DEF SameCards
  <2>10. Learned(r, u, d, <<a, d>>)
    BY <2>5, <2>7, <2>8, <2>9 DEF Learned
  <2> QED
    BY <2>1, <2>10 DEF AllLearned
<1> QED
  BY <1>1, <1>2

\* So every route under /learn.
LEMMA LearnLearned ==
  ASSUME NEW r, r.path \notin {ScrollPath, CounterPath}, Asked(r), NEW u \in Accounts \cup {"none"},
         NEW d, RowsOK(d), NEW s
  PROVE  AllLearned(learnRoutes(r, u, d, s), r, u, d)
<1>1. AllIdle(Reply(SeeOther("/auth/page"), d), r, d) /\ AllIdle(Reply(Error(500), d), r, d)
      /\ AllIdle(Reply(Error(405), d), r, d)
  BY IdleLoggedOut
<1>0. /\ \A flags : Quiet(V("DashboardPage", flags, {}))
      /\ \A flags : Quiet(V("QuizProgressWidget", flags, {}))
      /\ \A flags : Quiet(V("FlashcardProgressWidget", flags, {}))
      /\ Quiet(V("IsolationResult", {}, {})) /\ Quiet(V("DashboardTeaser", {}, {}))
      /\ \A flags : Quiet(V("UpgradePage", flags, {}))
  BY QuietIs
<1>4. AllIdle(flashcardIsolation(r, u, d), r, d)
  <2>1. Idle(r, Show(200, V("IsolationResult", {}, {})))
    BY <1>0, IdleShow
  <2>2. ~r.htmx => Idle(r, SeeOther("/learn/flashcards?check=1"))
    BY IdleSeeOther
  <2>3. /\ AllIdle(Reply(Show(200, V("IsolationResult", {}, {})), d), r, d)
        /\ ~r.htmx => AllIdle(Reply(SeeOther("/learn/flashcards?check=1"), d), r, d)
    BY <2>1, <2>2, IdleReply
  <2> QED
    BY <1>1, <2>3, Zenon DEF flashcardIsolation
<1>5. AllIdle(Reply(DashboardPage_(u, d), d), r, d)
  BY <1>0, IdleShown DEF DashboardPage_
<1>t. AllIdle(Reply(Show(200, V("DashboardTeaser", {}, {})), d), r, d)
  BY <1>0, IdleShown
<1>6. AllIdle(dashboardQuizWidget(r, u, d), r, d)
  <2>1. AllIdle({<<Show(200, V("QuizProgressWidget", attempted, {})), d>> : attempted \in {{}, {"some"}}}, r, d)
    BY <1>0, IdleShow DEF AllIdle, SameCards
  <2> QED
    BY <1>1, <1>t, <2>1, ZenonT(40) DEF dashboardQuizWidget
<1>7. AllIdle(dashboardFlashcardWidget(r, u, d), r, d)
  <2>1. \A flags : AllIdle(Reply(Show(200, V("FlashcardProgressWidget", flags, {})), d), r, d)
    BY <1>0, IdleShown
  <2> QED
    BY <1>1, <1>t, <2>1, ZenonT(40) DEF dashboardFlashcardWidget
<1>8. AllIdle(Reply(UpgradePage_(u, d), d), r, d)
  <2>1. \A flags : Idle(r, Show(200, V("UpgradePage", flags, {})))
    BY <1>0, IdleShow
  <2>2. Idle(r, SeeOther("/auth/page"))
    BY IdleSeeOther DEF Homes
  <2>3. Idle(r, UpgradePage_(u, d))
    BY <2>1, <2>2, Zenon DEF UpgradePage_
  <2> QED
    BY <2>3, IdleReply
<1>9. ASSUME NEW S, AllIdle(S, r, d) PROVE AllLearned(S, r, u, d)
  BY <1>9, AllIdleLearned
<1>10. r.path = "/learn/flashcards" /\ r.verb = "POST" => AllLearned(flashcardCreate(r, u, d), r, u, d)
  BY CreateLearned
<1>11. r.path \in {"/learn/flashcards", "/learn/flashcards?check=1"} /\ r.verb = "GET" =>
         AllLearned(flashcardsPage(r, u, d), r, u, d)
  BY PageLearned DEF ListPaths
<1>12. r.path = flashcardKnownAction => AllLearned(flashcardSetKnown(r, u, d), r, u, d)
  BY KnownLearned
<1>13. r.path = flashcardDeleteAction => AllLearned(flashcardDelete(r, u, d), r, u, d)
  BY DeleteLearned
<1>14. AllIdle(quizPage(r, u, d, s), r, d) /\ AllIdle(quizAnswer(r, u, d, s), r, d)
       /\ AllIdle(UpgradeSubmit(r, u, d), r, d)
  BY IdleQuizPage, IdleQuizAnswer, IdleUpgrade
<1>15. /\ AllLearned(Reply(Error(405), d), r, u, d)
       /\ AllLearned(flashcardIsolation(r, u, d), r, u, d)
       /\ AllLearned(Reply(DashboardPage_(u, d), d), r, u, d)
       /\ AllLearned(dashboardQuizWidget(r, u, d), r, u, d)
       /\ AllLearned(dashboardFlashcardWidget(r, u, d), r, u, d)
       /\ AllLearned(Reply(UpgradePage_(u, d), d), r, u, d)
       /\ AllLearned(quizPage(r, u, d, s), r, u, d) /\ AllLearned(quizAnswer(r, u, d, s), r, u, d)
       /\ AllLearned(UpgradeSubmit(r, u, d), r, u, d)
  BY <1>1, <1>4, <1>5, <1>6, <1>7, <1>8, <1>9, <1>14
<1> QED
  BY <1>10, <1>11, <1>12, <1>13, <1>15, Zenon DEF learnRoutes

-----------------------------------------------------------------------------
(* The middleware: what it adds to an answer leaves what it shows. *)

Meant(r, d, o) == Learned(r, o[1].as, d, o)

\* Headers and the session do not matter for that.
LEMMA SameLearned ==
  ASSUME NEW r, NEW u, NEW d, NEW o, Learned(r, u, d, o),
         NEW p, DOMAIN p[1] = AnswerFields, p[2] = o[2],
         p[1].view = o[1].view, p[1].nav = o[1].nav, p[1].status = o[1].status, p[1].to = o[1].to
  PROVE  Learned(r, u, d, p)
<1>1. Modest(r, o[1]) => Modest(r, p[1])
  BY DEF Modest, Swaps
<1>2. Kept(r, d, o) => Kept(r, d, p)
  BY DEF Kept
<1>3. ShowsTo(o, u) => ShowsTo(p, u)
  BY DEF ShowsTo
<1> QED
  BY <1>1, <1>2, <1>3 DEF Learned

\* Saying for whom the answer was made says whose the cards are.
LEMMA IdentifiedMeant ==
  ASSUME NEW r, NEW u, NEW d, NEW S, AllLearned(S, r, u, d), NEW p \in Identified(S, u)
  PROVE  Meant(r, d, p)
<1>1. PICK o \in S : p = <<[o[1] EXCEPT !.as = u], o[2]>>
  BY DEF Identified
<1>2. Learned(r, u, d, o)
  BY DEF AllLearned
<1>3. DOMAIN o[1] = AnswerFields
  BY <1>2 DEF Learned
<1>4. /\ DOMAIN p[1] = AnswerFields /\ p[2] = o[2] /\ p[1].as = u
      /\ p[1].view = o[1].view /\ p[1].nav = o[1].nav /\ p[1].status = o[1].status /\ p[1].to = o[1].to
  BY <1>1, <1>3 DEF AnswerFields
<1> QED
  BY <1>2, <1>4, SameLearned DEF Meant

\* The routes that need an account show no card, ...
LEMMA IdleProtected ==
  ASSUME NEW r, NEW u, NEW d PROVE AllIdle(protectedRoutes(r, u, d), r, d)
<1>0. /\ \A flags : Quiet(V("ProfilePage", flags, {})) /\ Quiet(V("ProfileForm", flags, {}))
      /\ \A flags : Quiet(V("PasswordForm", flags, {})) /\ Quiet(V("FirstRunExperience", flags, {}))
  BY QuietIs
<1>1. Quiet(profilePage(u, d))
  BY <1>0 DEF profilePage
<1>2. Idle(r, Error(500)) /\ Idle(r, Error(405))
  BY IdleError
<1>3. /\ ~r.htmx => Idle(r, SeeOther("/profile"))
      /\ Idle(r, SeeOther("/dashboard"))
  BY IdleSeeOther DEF Homes
<1>4. Idle(r, ProfileUpdate(r, u, d))
  <2>1. /\ Idle(r, Show(422, V("ProfileForm", {}, {}))) /\ Idle(r, Show(422, profilePage(u, d)))
        /\ Idle(r, Show(200, V("ProfileForm", {}, {})))
    BY <1>0, <1>1, IdleShow
  <2> QED
    BY <1>2, <1>3, <2>1 DEF ProfileUpdate
<1>5. Idle(r, ProfilePasswordUpdate(r, u, d))
  <2>1. \A status : status # 303 => Idle(r, renderPasswordForm(r, u, d, status))
    BY <1>0, <1>1, IdleShow DEF renderPasswordForm
  <2> QED
    BY <1>3, <2>1 DEF ProfilePasswordUpdate
<1>6. Idle(r, ShowFirstRunWelcome) /\ Idle(r, ShowFirstRunProfile)
  BY <1>0, IdleShow DEF ShowFirstRunWelcome, ShowFirstRunProfile
<1>7. Idle(r, ShowFirstRunCTAs(r))
  BY <1>0, <1>3, IdleShow DEF ShowFirstRunCTAs
<1>8. Idle(r, Show(200, profilePage(u, d)))
  BY <1>1, IdleShow
<1>r. \A a : Idle(r, a) => AllIdle(Reply(a, d), r, d)
  BY IdleReply
<1>9. /\ AllIdle(Reply(Show(200, profilePage(u, d)), d), r, d)
      /\ AllIdle(Reply(ProfileUpdate(r, u, d), d), r, d)
      /\ AllIdle(Reply(ProfilePasswordUpdate(r, u, d), d), r, d)
      /\ AllIdle(Reply(ShowFirstRunWelcome, d), r, d) /\ AllIdle(Reply(ShowFirstRunProfile, d), r, d)
      /\ AllIdle(Reply(ShowFirstRunCTAs(r), d), r, d) /\ AllIdle(Reply(Error(405), d), r, d)
  BY <1>2, <1>4, <1>5, <1>6, <1>7, <1>8, <1>r, Zenon
<1> QED
  BY <1>9, Zenon DEF protectedRoutes

\* ... nor does clearing a cookie or setting a session, ...
LEMMA IdleCleared ==
  ASSUME NEW r, NEW a, Idle(r, a), NEW who, NEW u
  PROVE  Idle(r, Cleared(a, who)) /\ Idle(r, [a EXCEPT !.as = u]) /\ Idle(r, SetSession(a, u))
BY DEF Idle, Cleared, SetSession, AnswerFields

\* ... the login that is answered without one, ...
LEMMA IdleLogin == ASSUME NEW r PROVE Idle(r, toLogin(r))
<1>0. "/auth/page" \in Navs
  BY DEF Navs
<1>1. Idle(r, SetHXRedirect(401, "/auth/page"))
  BY <1>0, IdleRedirect
<1>2. Idle(r, SeeOther("/auth/page"))
  BY IdleSeeOther DEF Homes
<1> QED
  BY <1>1, <1>2 DEF toLogin

\* ... and the loader's failure.
LEMMA IdleFails == ASSUME NEW r, NEW d PROVE AllIdle(LoaderFails(r, d), r, d)
<1>1. AllIdle(Reply(Error(500), d), r, d)
  BY IdleLoggedOut
<1>2. AllIdle({}, r, d)
  BY DEF AllIdle
<1> QED
  BY <1>1, <1>2 DEF LoaderFails

\* Past AuthMiddleware or refused by it.
LEMMA MiddlewareMeant ==
  ASSUME NEW r, r.path \notin {ScrollPath, CounterPath}, NEW d, RowsOK(d), NEW o \in AuthMiddleware(r, d)
  PROVE  Meant(r, d, o)
<1>1. CASE ~validateSession(r, r.who)
  <2>1. AllIdle(Reply(Cleared(toLogin(r), r.who), d), r, d)
    BY IdleLogin, IdleCleared, IdleReply
  <2>2. AuthMiddleware(r, d) = Identified(Reply(Cleared(toLogin(r), r.who), d), "none")
    BY <1>1, Zenon DEF AuthMiddleware
  <2>3. AllLearned(Reply(Cleared(toLogin(r), r.who), d), r, "none", d)
    BY <2>1, AllIdleLearned
  <2> QED
    BY <2>2, <2>3, IdentifiedMeant
<1>2. CASE validateSession(r, r.who)
  <2> DEFINE admitted == IF r.fault = "tier" /\ r.path = "/profile/password"
                         THEN Reply(Error(429), d) ELSE protectedRoutes(r, r.who, d)
  <2>1. AuthMiddleware(r, d) = Identified(admitted \cup LoaderFails(r, d), r.who)
    BY <1>2, Zenon DEF AuthMiddleware
  <2>2. AllIdle(admitted, r, d)
    <3>1. AllIdle(Reply(Error(429), d), r, d) /\ AllIdle(protectedRoutes(r, r.who, d), r, d)
      BY IdleLoggedOut, IdleProtected
    <3> QED
      BY <3>1, Zenon
  <2> HIDE DEF admitted
  <2>3. AllIdle(admitted \cup LoaderFails(r, d), r, d)
    BY <2>2, IdleFails DEF AllIdle
  <2>4. AllLearned(admitted \cup LoaderFails(r, d), r, r.who, d)
    BY <2>3, AllIdleLearned
  <2> QED
    BY <2>1, <2>4, IdentifiedMeant
<1> QED
  BY <1>1, <1>2

\* Past the limiter of the routes under /learn, ...
LEMMA AdmittedLearned ==
  ASSUME NEW r, r.path \notin {ScrollPath, CounterPath}, Asked(r), NEW u \in Accounts \cup {"none"},
         NEW d, RowsOK(d), NEW s
  PROVE  AllLearned(Admitted(r, u, d, s), r, u, d)
<1>1. AllLearned(LoaderFails(r, d), r, u, d)
  BY IdleFails, AllIdleLearned
<1>2. AllLearned(Reply(Error(429), d), r, u, d)
  <2>1. AllIdle(Reply(Error(429), d), r, d)
    BY IdleLoggedOut
  <2> QED
    BY <2>1, AllIdleLearned
<1>3. AllLearned(learnRoutes(r, u, d, s), r, u, d)
  BY LearnLearned
<1> QED
  BY <1>1, <1>2, <1>3 DEF AllLearned, Admitted

\* ... past OptionalAuth, ...
LEMMA OptionalMeant ==
  ASSUME NEW r, r.path \notin {ScrollPath, CounterPath}, Asked(r), NEW who, NEW d, RowsOK(d), NEW s,
         NEW o \in OptionalAuth(r, who, d, s)
  PROVE  Meant(r, d, o)
<1> DEFINE u == IF validateSession(r, who) THEN who ELSE "none"
           cleared == {<<Cleared(p[1], who), p[2]>> : p \in Admitted(r, u, d, s)}
<1>1. u \in Accounts \cup {"none"}
  BY DEF validateSession
<1>2. OptionalAuth(r, who, d, s) = Identified(IF u = "none" THEN cleared ELSE Admitted(r, u, d, s), u)
  BY Zenon DEF OptionalAuth, Admitted
<1> HIDE DEF u
<1>3. AllLearned(Admitted(r, u, d, s), r, u, d)
  BY <1>1, AdmittedLearned
<1>4. AllLearned(cleared, r, u, d)
  <2> SUFFICES ASSUME NEW p \in Admitted(r, u, d, s)
               PROVE  Learned(r, u, d, <<Cleared(p[1], who), p[2]>>)
    BY DEF AllLearned
  <2>1. Learned(r, u, d, p)
    BY <1>3 DEF AllLearned
  <2>2. DOMAIN p[1] = AnswerFields
    BY <2>1 DEF Learned
  <2> DEFINE a == Cleared(p[1], who)
  <2>3. /\ DOMAIN a = AnswerFields
        /\ a.view = p[1].view /\ a.nav = p[1].nav /\ a.status = p[1].status /\ a.to = p[1].to
    BY <2>2 DEF Cleared, AnswerFields
  <2> HIDE DEF a
  <2>4. Learned(r, u, d, <<a, p[2]>>)
    BY <2>1, <2>3, SameLearned
  <2> QED
    BY <2>4 DEF a
<1> HIDE DEF cleared
<1> QED
  BY <1>2, <1>3, <1>4, IdentifiedMeant

\* ... and with the guest account that a first contact makes.
LEMMA GroupMeant ==
  ASSUME NEW r, r.path \notin {ScrollPath, CounterPath}, Asked(r), NEW d, RowsOK(d), NEW s,
         NEW o \in learnGroup(r, d, s)
  PROVE  Meant(r, d, o)
<1>1. CASE ~GuestSession(r, d, s)
  BY <1>1, OptionalMeant DEF learnGroup
<1>2. CASE GuestSession(r, d, s)
  <2> DEFINE g == Guest(d.guests + 1)
             e == [d EXCEPT !.guests = @ + 1]
  <2>1. RowsOK(e) /\ e.cards = d.cards /\ e.used = d.used
    BY <1>2, GuestAssumption DEF GuestSession, RowsOK, RowFields
  <2>2. PICK p \in OptionalAuth(r, g, e, s) :
          o = <<IF p[1].set = "keep" THEN SetSession(p[1], g) ELSE p[1], p[2]>>
    BY <1>2 DEF learnGroup
  <2> HIDE DEF g, e
  <2>3. Meant(r, e, p)
    BY <2>1, <2>2, OptionalMeant
  <2>a. Owned(d) <=> Owned(e)
    BY <2>1 DEF Owned
  <2>b. Learned(r, p[1].as, e, p)
    BY <2>3 DEF Meant
  <2>c. Kept(r, e, p)
    BY <2>b DEF Learned
  <2>d. Kept(r, d, p)
    BY <2>1, <2>a, <2>c DEF Kept
  <2>4. Learned(r, p[1].as, d, p)
    BY <2>b, <2>d DEF Learned
  <2>5. DOMAIN p[1] = AnswerFields
    BY <2>4 DEF Learned
  <2>6. /\ DOMAIN o[1] = AnswerFields /\ o[2] = p[2] /\ o[1].as = p[1].as
        /\ o[1].view = p[1].view /\ o[1].nav = p[1].nav /\ o[1].status = p[1].status /\ o[1].to = p[1].to
    BY <2>2, <2>5 DEF SetSession, AnswerFields
  <2> QED
    BY <2>4, <2>6, SameLearned DEF Meant
<1> QED
  BY <1>1, <1>2

\* Under /auth no card is shown.
LEMMA IdleAuth == ASSUME NEW r, NEW a \in authRoutes(r) PROVE Idle(r, a)
<1> DEFINE idle(S) == \A b \in S : Idle(r, b)
<1>1. \A status : status # 303 => Idle(r, Error(status))
  BY IdleError
<1>2. \A status : status # 303 => Idle(r, authFeedback(status))
  BY QuietIs, IdleShow DEF authFeedback
<1>0. "/auth/page" \in Navs /\ "/profile" \in Navs
  BY DEF Navs
<1>3. Idle(r, SetHXRedirect(200, "/profile")) /\ Idle(r, SetHXRedirect(200, "/auth/page"))
  BY <1>0, IdleRedirect
<1>4. /\ idle({Show(200, V("RecoverPage", {}, {}))}) /\ idle({Show(200, V("LogoutPage", {}, {}))})
      /\ idle({Show(200, V("AuthPage", {}, {}))}) /\ idle({Error(429)}) /\ idle({Error(405)})
  BY <1>1, QuietIs, IdleShow
<1>5. idle(AuthLoginPost(r)) /\ idle(AuthLogoutPost)
  <2>1. Idle(r, SetSession(SetHXRedirect(200, "/profile"), "user"))
        /\ Idle(r, SetSession(SetHXRedirect(200, "/auth/page"), "none"))
    BY <1>3, IdleCleared
  <2> QED
    BY <1>2, <2>1 DEF AuthLoginPost, AuthLogoutPost
<1>6. idle(AuthSignupPost(r)) /\ idle(AuthRecoverPost(r))
  BY <1>2 DEF AuthSignupPost, AuthRecoverPost
<1>7. idle(AuthResetPost(r))
  BY <1>2, <1>3 DEF AuthResetPost
<1>8. idle(AuthResetPage(r))
  <2> DEFINE page == Show(200, V("ResetPage", {"valid"}, {}))
             blank == Show(200, V("ResetPage", {}, {}))
  <2>1. Idle(r, page) /\ Idle(r, blank)
    BY QuietIs, IdleShow
  <2>2. AuthResetPage(r) = {IF r.valid /\ r.fault # "auth"
                            THEN [page EXCEPT !.set = "user", !.as = "user"] ELSE blank}
    BY DEF AuthResetPage
  <2> HIDE DEF page, blank
  <2>3. Idle(r, [page EXCEPT !.set = "user", !.as = "user"])
    BY <2>1 DEF Idle, AnswerFields
  <2> QED
    BY <2>1, <2>2, <2>3
<1> HIDE DEF idle
<1>9. idle(authRoutes(r))
  BY <1>4, <1>5, <1>6, <1>7, <1>8, Zenon DEF authRoutes
<1> QED
  BY <1>9 DEF idle

\* A demo's fragment, or a page anyone may read.
LEMMA DemoResult ==
  ASSUME NEW r, r.path \in DemoPaths, r.path # "/patterns/api/limited", Asked(r)
  PROVE  \/ Quiet(PatternResult(r)) /\ r.path \notin {ScrollPath, CounterPath}
         \/ r.path = ScrollPath /\ \E p \in 1 .. 4 : r.of = {p} /\ PatternResult(r) = PatternScroll(p)
         \/ r.path = CounterPath /\ \E n : PatternResult(r) = V("PatternCounterResponse", {}, {n})
<1> DEFINE one == CHOOSE n \in r.of : TRUE
<1>1. CASE r.path = ScrollPath
  <2>1. PICK p \in 1 .. 4 : r.of = {p}
    BY <1>1 DEF Asked
  <2>2. one = p
    BY <2>1
  <2>3. PatternResult(r) = PatternScroll(one)
    BY <1>1 DEF PatternResult, ScrollPath
  <2> QED
    BY <1>1, <2>1, <2>2, <2>3
<1>2. CASE r.path = CounterPath
  <2>1. PatternResult(r) = PatternCounter(one)
    BY <1>2 DEF PatternResult, CounterPath
  <2> DEFINE next == IF one > 1000000 THEN 1 ELSE one + 1
  <2>2. PatternCounter(one) = V("PatternCounterResponse", {}, {next})
    BY DEF PatternCounter
  <2> HIDE DEF next, one
  <2> QED
    BY <1>2, <2>1, <2>2
<1>3. CASE r.path \notin {ScrollPath, CounterPath}
  <2>1. /\ Quiet(Nothing) /\ \A of : Quiet(V("PatternSwapResult", {}, of))
        /\ \A of : Quiet(V("PatternSearchResults", {}, of)) /\ Quiet(V("PatternEditDisplay", {}, of))
        /\ \A of : Quiet(V("PatternEditForm", {}, of)) /\ Quiet(V("PatternFavoriteButton", {}, of))
        /\ \A of : Quiet(V("PatternToastResult", {}, of)) /\ Quiet(V("PatternSkeletonContent", {}, of))
        /\ \A of : Quiet(V("PatternTabPanel", {}, of)) /\ Quiet(V("PatternBulkResult", {}, of))
        /\ \A of : Quiet(V("PatternTimeTick", {}, of)) /\ Quiet(V("PatternConfirmResult", {}, of))
        /\ \A of : Quiet(V("PatternTransitionCard", {}, of)) /\ Quiet(V("PatternSlowContent", {}, of))
    BY QuietIs, QuietNothing
  <2>2. Quiet(PatternSearch(r)) /\ Quiet(PatternEditSave) /\ Quiet(PatternFavorite(one))
        /\ Quiet(PatternTransition(one))
    BY <2>1 DEF PatternSearch, PatternEditSave, PatternFavorite, PatternTransition
  <2>3. r.path # "/patterns/api/scroll" /\ r.path # "/patterns/api/counter"
    BY <1>3 DEF ScrollPath, CounterPath
  <2>4. Quiet(PatternResult(r))
    BY <2>1, <2>2, <2>3 DEF PatternResult, DemoPaths
  <2> QED
    BY <1>3, <2>4
<1> QED
  BY <1>1, <1>2, <1>3

\* An answer without cards that leaves the rows alone.
LEMMA ShownMeant ==
  ASSUME NEW r, NEW d, RowsOK(d), NEW a, DOMAIN a = AnswerFields, Modest(r, a), CardsOf(a.view) = {}
  PROVE  Meant(r, d, <<a, d>>)
<1>1. Kept(r, d, <<a, d>>)
  BY SameKept DEF SameCards
<1> QED
  BY <1>1 DEF Meant, Learned, ShowsTo

\* An idle answer that leaves the rows alone.
LEMMA IdleMeant ==
  ASSUME NEW r, r.path \notin {ScrollPath, CounterPath}, NEW d, RowsOK(d), NEW a, Idle(r, a)
  PROVE  Meant(r, d, <<a, d>>)
BY IdleLearned DEF Meant, SameCards

\* A refusal before the routes are reached: text that is not swapped.
LEMMA RefusedMeant ==
  ASSUME NEW r, NEW d, RowsOK(d), NEW status, status = 403 \/ status = 404 \/ status = 429
  PROVE  Meant(r, d, <<Error(status), d>>)
<1> DEFINE a == Error(status)
<1>1. DOMAIN a = AnswerFields /\ a.view = V("text", {}, {}) /\ a.status = status /\ a.nav = ""
  BY DEF Error, Show, AnswerFields
<1>2. Quiet(V("text", {}, {})) /\ V("text", {}, {}).name = "text"
  BY QuietNothing DEF V
<1> HIDE DEF a
<1>8. a.view.name = "text" /\ Quiet(a.view)
  BY <1>1, <1>2
<1>9. a.status = 403 \/ a.status = 404 \/ a.status = 429
  BY <1>1
<1>3. ~Swaps(a) /\ a.status # 303
  <2>1. a.status \notin {200, 400, 401, 409, 422} /\ a.status # 303
    BY <1>9
  <2> QED
    BY <1>8, <2>1 DEF Swaps
<1>4. a.nav \in Navs
  BY <1>1 DEF Navs
<1>5. Proper(a.view) /\ CardsOf(a.view) = {}
  BY <1>8, QuietModest
<1>6. /\ a.view.name \notin ListNames /\ a.view.name # "PatternScrollSentinel"
      /\ a.view.name # "PatternsPage" /\ a.view.name # "FlashcardCard"
      /\ a.view.name # "PatternScrollPage" /\ a.view.name # "PatternCounterResponse"
  BY <1>1, <1>2 DEF ListNames
<1>7. Modest(r, a)
  BY <1>3, <1>4, <1>5, <1>6, Zenon DEF Modest
<1> QED
  BY <1>1, <1>5, <1>7, ShownMeant DEF a

\* The page a sentinel asks for, ...
LEMMA ScrollMeant ==
  ASSUME NEW r, r.path = ScrollPath, NEW d, RowsOK(d), NEW p \in 1 .. 4, r.of = {p}
  PROVE  Meant(r, d, <<Show(200, PatternScroll(p)), d>>)
<1> DEFINE v == PatternScroll(p)
           a == Show(200, v)
<1>1. v.name = "PatternScrollPage"
  BY DEF PatternScroll, V
<1>2. Proper(v)
  BY <1>1 DEF Proper, CardNames
<1>3. /\ DOMAIN a = AnswerFields /\ a.view = v /\ a.nav = "" /\ a.status # 303
  BY DEF Show, AnswerFields
<1>4. a.status # 303 /\ DOMAIN a = AnswerFields
  BY <1>3
<1>5. \A k \in 1 .. 4 : r.of = {k} => a.view = PatternScroll(k)
  <2>1. ASSUME NEW k \in 1 .. 4, r.of = {k} PROVE k = p
    BY <2>1
  <2> QED
    BY <1>3, <2>1
<1> HIDE DEF v, a
<1>6. a.nav \in Navs
  BY <1>3 DEF Navs
<1>7. Proper(a.view) /\ CardsOf(a.view) = {}
  BY <1>1, <1>2, <1>3 DEF CardsOf
<1>8. /\ a.view.name \notin ListNames /\ a.view.name # "PatternScrollSentinel"
      /\ a.view.name # "PatternsPage" /\ a.view.name # "FlashcardCard"
      /\ a.view.name # "PatternCounterResponse"
  BY <1>1, <1>3 DEF ListNames
<1>9. r.path = ScrollPath /\ r.path # CounterPath
  BY DEF ScrollPath, CounterPath
<1>10. Modest(r, a)
  BY <1>4, <1>5, <1>6, <1>7, <1>8, <1>9, Zenon DEF Modest
<1>11. Meant(r, d, <<a, d>>)
  BY <1>4, <1>7, <1>10, ShownMeant
<1> QED
  BY <1>11 DEF a, v

\* ... the counter's two regions, ...
LEMMA CounterMeant ==
  ASSUME NEW r, r.path = CounterPath, NEW d, RowsOK(d), NEW n
  PROVE  Meant(r, d, <<Show(200, V("PatternCounterResponse", {}, {n})), d>>)
<1> DEFINE v == V("PatternCounterResponse", {}, {n})
           a == Show(200, v)
<1>1. v.name = "PatternCounterResponse"
  BY DEF V
<1>3. /\ DOMAIN a = AnswerFields /\ a.view = v /\ a.nav = "" /\ a.status # 303
  BY DEF Show, AnswerFields
<1>4. a.status # 303 /\ DOMAIN a = AnswerFields
  BY <1>3
<1> HIDE DEF v, a
<1>2. Proper(v)
  BY <1>1 DEF Proper, CardNames
<1>6. a.nav \in Navs
  BY <1>3 DEF Navs
<1>7. Proper(a.view) /\ CardsOf(a.view) = {}
  BY <1>1, <1>2, <1>3 DEF CardsOf
<1>8. /\ a.view.name \notin ListNames /\ a.view.name # "PatternScrollSentinel"
      /\ a.view.name # "PatternsPage" /\ a.view.name # "FlashcardCard"
      /\ a.view.name # "PatternScrollPage" /\ a.view.name = "PatternCounterResponse"
  BY <1>1, <1>3 DEF ListNames
<1>9. r.path # ScrollPath /\ r.path = CounterPath
  BY DEF ScrollPath, CounterPath
<1>10. Modest(r, a)
  BY <1>4, <1>6, <1>7, <1>8, <1>9, Zenon DEF Modest
<1>11. Meant(r, d, <<a, d>>)
  BY <1>4, <1>7, <1>10, ShownMeant
<1> QED
  BY <1>11 DEF a, v

\* ... and the page of all the patterns.
LEMMA CatalogueMeant ==
  ASSUME NEW r, r.path = "/patterns", NEW d, RowsOK(d)
  PROVE  Meant(r, d, <<Show(200, V("PatternsPage", {}, {})), d>>)
<1> DEFINE a == Show(200, V("PatternsPage", {}, {}))
<1>1. DOMAIN a = AnswerFields /\ a.view.name = "PatternsPage" /\ a.nav = "" /\ a.status # 303
  BY DEF Show, AnswerFields, V
<1>2. a.status # 303
  BY <1>1
<1> HIDE DEF a
<1>3. a.nav \in Navs
  BY <1>1 DEF Navs
<1>4. Proper(a.view) /\ CardsOf(a.view) = {}
  BY <1>1 DEF Proper, CardNames, CardsOf
<1>5. /\ a.view.name \notin ListNames /\ a.view.name # "PatternScrollSentinel"
      /\ a.view.name # "FlashcardCard"
      /\ a.view.name # "PatternScrollPage" /\ a.view.name # "PatternCounterResponse"
  BY <1>1 DEF ListNames
<1>6. r.path # ScrollPath /\ r.path # CounterPath
  BY DEF ScrollPath, CounterPath
<1>7. Modest(r, a)
  BY <1>2, <1>3, <1>4, <1>5, <1>6, Zenon DEF Modest
<1> QED
  BY <1>1, <1>4, <1>7, ShownMeant DEF a

\* So every route anyone may use.
LEMMA PublicMeant ==
  ASSUME NEW r, Asked(r), NEW d, RowsOK(d), NEW a \in publicRoutes(r)
  PROVE  Meant(r, d, <<a, d>>)
<1>0. ScrollPath \in DemoPaths /\ CounterPath \in DemoPaths
  BY DEF ScrollPath, CounterPath, DemoPaths
<1>1. CASE r.path \in {"/", "/terms", "/privacy"}
  <2>1. Quiet(V("HomePage", {}, {})) /\ Quiet(V("TermsPage", {}, {})) /\ Quiet(V("PrivacyPage", {}, {}))
    BY QuietIs
  <2>2. \/ a = Show(200, V("HomePage", {}, {})) \/ a = Show(200, V("TermsPage", {}, {}))
        \/ a = Show(200, V("PrivacyPage", {}, {}))
    BY <1>1, Zenon DEF publicRoutes
  <2>3. Idle(r, a)
    BY <2>1, <2>2, IdleShow
  <2>4. r.path # ScrollPath /\ r.path # CounterPath
    BY <1>1 DEF ScrollPath, CounterPath
  <2> QED
    BY <2>3, <2>4, IdleMeant
<1>2. CASE r.path = "/patterns"
  <2>1. a = Show(200, V("PatternsPage", {}, {}))
    BY <1>2, Zenon DEF publicRoutes
  <2> QED
    BY <1>2, <2>1, CatalogueMeant
<1>3. CASE r.path \notin {"/", "/terms", "/privacy", "/patterns"}
  <2>1. PICK p \in PatternAnswers(r) : a = Show(p[1], p[2])
    <3>1. publicRoutes(r) = {Show(p[1], p[2]) : p \in PatternAnswers(r)}
      BY <1>3, Zenon DEF publicRoutes
    <3> QED
      BY <3>1
  <2>2. CASE r.path = "/patterns/api/limited"
    <3>1. Quiet(V("PatternLimitAllowed", {}, {})) /\ Quiet(V("PatternLimitRefused", {}, {}))
      BY QuietIs
    <3>2. PatternAnswers(r) = PatternLimited
      BY <2>2, Zenon DEF PatternAnswers
    <3>3. a = Show(200, V("PatternLimitAllowed", {}, {})) \/ a = Show(429, V("PatternLimitRefused", {}, {}))
      BY <2>1, <3>2 DEF PatternLimited
    <3>4. Idle(r, a)
      BY <3>1, <3>3, IdleShow
    <3>5. r.path # ScrollPath /\ r.path # CounterPath
      BY <2>2 DEF ScrollPath, CounterPath
    <3> QED
      BY <3>4, <3>5, IdleMeant
  <2>3. CASE r.path \in DemoPaths /\ r.path # "/patterns/api/limited"
    <3>1. PatternAnswers(r) = {<<200, PatternResult(r)>>}
      BY <2>3, Zenon DEF PatternAnswers
    <3>2. a = Show(200, PatternResult(r))
      BY <2>1, <3>1
    <3>3. CASE Quiet(PatternResult(r)) /\ r.path \notin {ScrollPath, CounterPath}
      BY <3>2, <3>3, IdleShow, IdleMeant
    <3>4. CASE r.path = ScrollPath /\ \E p1 \in 1 .. 4 : r.of = {p1} /\ PatternResult(r) = PatternScroll(p1)
      BY <3>2, <3>4, ScrollMeant
    <3>5. CASE r.path = CounterPath /\ \E n : PatternResult(r) = V("PatternCounterResponse", {}, {n})
      BY <3>2, <3>5, CounterMeant
    <3> QED
      BY <2>3, <3>3, <3>4, <3>5, DemoResult
  <2>4. CASE r.path \notin DemoPaths
    <3>1. r.path # "/patterns/api/limited"
      BY <2>4 DEF DemoPaths
    <3>2. PatternAnswers(r) = {<<404, V("text", {}, {})>>}
      BY <2>4, <3>1, Zenon DEF PatternAnswers
    <3>3. a = Error(404)
      BY <2>1, <3>2 DEF Error
    <3> QED
      BY <3>3, RefusedMeant
  <2> QED
    BY <2>2, <2>3, <2>4
<1> QED
  BY <1>1, <1>2, <1>3

\* Whatever the server answers shows what was asked for, the cards of the one it
\* was made for, and loses no card but one asked to go.
LEMMA ServeMeant ==
  ASSUME NEW r, Asked(r), NEW d, RowsOK(d), NEW s, NEW o \in Serve(r, d, s)
  PROVE  Meant(r, d, o)
<1>1. CASE r.fault = "limit" \/ ~CSRF(r) \/ r.path \in UnknownPaths
  <2>1. o = <<Error(429), d>> \/ o = <<Error(403), d>> \/ o = <<Error(404), d>>
    BY <1>1 DEF Serve, Reply
  <2>2. Meant(r, d, <<Error(429), d>>) /\ Meant(r, d, <<Error(403), d>>) /\ Meant(r, d, <<Error(404), d>>)
    BY RefusedMeant
  <2> QED
    BY <2>1, <2>2
<1>2. CASE ~(r.fault = "limit" \/ ~CSRF(r) \/ r.path \in UnknownPaths)
  <2>1. CASE r.path \in ProtectedPaths
    <3>1. o \in AuthMiddleware(r, d)
      BY <1>2, <2>1 DEF Serve
    <3>2. r.path \notin {ScrollPath, CounterPath}
      BY <2>1 DEF ProtectedPaths, ScrollPath, CounterPath
    <3> QED
      BY <3>1, <3>2, MiddlewareMeant
  <2>2. CASE r.path \notin ProtectedPaths /\ r.path \in LearnPaths
    <3>1. o \in learnGroup(r, d, s)
      BY <1>2, <2>2 DEF Serve
    <3>2. r.path \notin {ScrollPath, CounterPath}
      BY <2>2 DEF LearnPaths, ScrollPath, CounterPath, flashcardKnownAction, flashcardDeleteAction
    <3> QED
      BY <3>1, <3>2, GroupMeant
  <2>3. CASE r.path \notin ProtectedPaths /\ r.path \notin LearnPaths /\ r.path \in AuthPaths
    <3>1. PICK a \in authRoutes(r) : o = <<a, d>>
      BY <1>2, <2>3 DEF Serve
    <3>2. r.path \notin {ScrollPath, CounterPath}
      BY <2>3 DEF AuthPaths, CredentialPosts, ScrollPath, CounterPath
    <3> QED
      BY <3>1, <3>2, IdleAuth, IdleMeant
  <2>4. CASE r.path \notin ProtectedPaths /\ r.path \notin LearnPaths /\ r.path \notin AuthPaths
    <3>1. PICK a \in publicRoutes(r) : o = <<a, d>>
      BY <1>2, <2>4 DEF Serve
    <3> QED
      BY <3>1, PublicMeant
  <2> QED
    BY <2>1, <2>2, <2>3, <2>4
<1> QED
  BY <1>1, <1>2

\* The request that follows a redirect asks for a page without deleting anything.
LEMMA NextAsks ==
  ASSUME NEW r, RequestFields \subseteq DOMAIN r, NEW a, NEW who, a.to \in Landings(who)
  PROVE  /\ Next303(r, a).htmx = r.htmx
         /\ Asked(Next303(r, a))
         /\ Next303(r, a).path \notin {flashcardKnownAction, flashcardDeleteAction, ScrollPath,
                                       CounterPath, "/patterns"}
         /\ Next303(r, a).path \in Homes => Next303(r, a).path \notin ListPaths
<1>1. Next303(r, a).htmx = r.htmx /\ Next303(r, a).path = a.to
  BY DEF Next303, RequestFields
<1>2. a.to \notin {flashcardKnownAction, flashcardDeleteAction, ScrollPath, CounterPath, "/patterns"}
  BY DEF Landings, flashcardKnownAction, flashcardDeleteAction, ScrollPath, CounterPath
<1>3. a.to \in Homes => a.to \notin ListPaths
  BY DEF Homes, ListPaths
<1> QED
  BY <1>1, <1>2, <1>3 DEF Asked

\* A card that went was asked to, ...
LEMMA KeptLost ==
  ASSUME NEW r, NEW d, NEW o, Kept(r, d, o), NEW u \in Accounts, NEW c,
         c \in d.cards[u], c \notin o[2].cards[u]
  PROVE  r.path = flashcardDeleteAction /\ c \in r.of
BY DEF Kept

\* The answer a delete's form is replaced by.
Cleanly(a) == a.view = Nothing /\ a.status = 200 /\ a.nav = ""

\* ... and htmx was answered with nothing, ...
LEMMA KeptShown ==
  ASSUME NEW r, NEW d, NEW o, Kept(r, d, o), NEW u \in Accounts, NEW c,
         c \in d.cards[u], c \notin o[2].cards[u], r.htmx
  PROVE  Cleanly(o[1])
BY DEF Kept, Cleanly

\* ... or a redirect was the answer to a plain form.
LEMMA KeptRedirect ==
  ASSUME NEW r, NEW d, NEW o, Kept(r, d, o), o[1].status = 303
  PROVE  \A u \in Accounts : \A c \in d.cards[u] :
           c \notin o[2].cards[u] => r.path = flashcardDeleteAction /\ c \in r.of /\ ~r.htmx
<1> SUFFICES ASSUME NEW u \in Accounts, NEW c \in d.cards[u], c \notin o[2].cards[u]
             PROVE  r.path = flashcardDeleteAction /\ c \in r.of /\ ~r.htmx
  OBVIOUS
<1>1. r.path = flashcardDeleteAction /\ c \in r.of
  BY KeptLost
<1>2. ASSUME r.htmx PROVE o[1].status = 200
  <2>1. Cleanly(o[1])
    BY <1>2, KeptShown
  <2> QED
    BY <2>1 DEF Cleanly
<1> QED
  BY <1>1, <1>2

\* The first answer redirected and the second shows something: together.
LEMMA FollowKept ==
  ASSUME NEW r, NEW d, NEW o, Kept(r, d, o), o[1].status = 303,
         NEW n, n.path # flashcardDeleteAction, NEW q, Kept(n, o[2], q), NEW p, p[2] = q[2]
  PROVE  Kept(r, d, p)
<1>1. d.used \subseteq p[2].used /\ (Owned(d) => Owned(p[2]))
  BY DEF Kept
<1>2. \A u \in Accounts : p[2].cards[u] \cap d.used \subseteq d.cards[u]
  BY DEF Kept
<1>3. ASSUME NEW u \in Accounts, NEW c \in d.cards[u] \ p[2].cards[u]
      PROVE  r.path = flashcardDeleteAction /\ c \in r.of /\ ~r.htmx
  <2>1. c \in d.cards[u] /\ c \notin o[2].cards[u]
    BY <1>3 DEF Kept
  <2> QED
    BY <2>1, KeptRedirect
<1>4. ASSUME NEW u \in Accounts, NEW c \in d.cards[u] \ p[2].cards[u]
      PROVE  /\ r.path = flashcardDeleteAction /\ c \in r.of
             /\ r.htmx => p[1].view = Nothing /\ p[1].status = 200 /\ p[1].nav = ""
  <2>1. r.path = flashcardDeleteAction /\ c \in r.of /\ ~r.htmx
    BY <1>3, <1>4
  <2> QED
    BY <2>1
<1> QED
  BY <1>1, <1>2, <1>4 DEF Kept

\* What the target shows answers the first request as well.
LEMMA FollowModest ==
  ASSUME NEW r, NEW n, n.htmx = r.htmx, r.path \notin {ScrollPath, CounterPath},
         n.path \notin {flashcardKnownAction, ScrollPath, CounterPath, "/patterns"},
         r.htmx => n.path \notin ListPaths,
         NEW b, Modest(n, b), b.status # 303,
         NEW a, a.view = b.view, a.nav = b.nav, a.status = b.status
  PROVE  Modest(r, a)
<1>1. Proper(a.view) /\ a.view.name # "PatternScrollSentinel" /\ a.nav \in Navs
  BY DEF Modest
<1>2. a.view.name \in ListNames => ~r.htmx
  BY DEF Modest
<1>3. /\ a.view.name # "PatternsPage" /\ a.view.name # "FlashcardCard"
      /\ a.view.name # "PatternScrollPage" /\ a.view.name # "PatternCounterResponse"
  BY DEF Modest
<1>4. r.path # ScrollPath /\ r.path # CounterPath /\ a.status # 303
  OBVIOUS
<1> QED
  BY <1>1, <1>2, <1>3, <1>4, Zenon DEF Modest

\* A redirect followed, the answer is still one that was meant.
LEMMA FollowMeant ==
  ASSUME NEW d, RowsOK(d), NEW r, r.who \in Identities(d), RequestFields \subseteq DOMAIN r,
         NEW o, Answered(r, d, o), Meant(r, d, o), NEW p \in Follow(r, o)
  PROVE  Meant(r, d, p)
<1>1. CASE o[1].status # 303
  BY <1>1, FollowIs
<1>2. CASE o[1].status = 303
  <2> DEFINE n == Next303(r, o[1])
             who == IF o[1].set = "keep" THEN r.who ELSE o[1].set
  <2>1. /\ n.verb = "GET" /\ n.fault = "none" /\ n.path = o[1].to /\ n.who = who
    BY NextIs
  <2>2. who \in Identities(o[2]) /\ o[1].to \in Landings(who)
    BY <1>2, IdentitiesAre DEF Answered
  <2>3. PICK q \in Serve(n, o[2], site) : p = <<Then(o[1], q[1]), q[2]>>
    BY <1>2, FollowIs
  <2> HIDE DEF who
  <2>4. /\ n.htmx = r.htmx /\ Asked(n)
        /\ n.path \notin {flashcardKnownAction, flashcardDeleteAction, ScrollPath, CounterPath, "/patterns"}
        /\ n.path \in Homes => n.path \notin ListPaths
    BY <2>2, NextAsks
  <2> HIDE DEF n
  <2>5. RowsOK(o[2])
    BY DEF Answered
  <2>6. Meant(n, o[2], q)
    BY <2>3, <2>4, <2>5, ServeMeant
  <2>7. q[1].status # 303
    BY <2>1, <2>2, <2>3, LandingServe
  <2>8. DOMAIN q[1] = AnswerFields
    BY <2>6 DEF Meant, Learned
  <2>9. /\ DOMAIN p[1] = AnswerFields /\ p[2] = q[2] /\ p[1].as = q[1].as
        /\ p[1].view = q[1].view /\ p[1].nav = q[1].nav /\ p[1].status = q[1].status
    BY <2>3, <2>8 DEF Then, AnswerFields
  <2>10. Modest(r, o[1]) /\ Kept(r, d, o)
    BY DEF Meant, Learned
  <2>11. /\ r.path \notin {ScrollPath, CounterPath}
         /\ r.htmx => n.path \notin ListPaths
    BY <1>2, <2>1, <2>4, <2>10 DEF Modest
  <2>12. Modest(n, q[1]) /\ Kept(n, o[2], q) /\ ShowsTo(q, q[1].as)
    BY <2>6 DEF Meant, Learned
  <2>13. Modest(r, p[1])
    BY <2>4, <2>7, <2>9, <2>11, <2>12, FollowModest
  <2>14. Kept(r, d, p)
    BY <1>2, <2>4, <2>9, <2>10, <2>12, FollowKept
  <2>15. ShowsTo(p, p[1].as)
    BY <2>9, <2>12 DEF ShowsTo
  <2> QED
    BY <2>9, <2>13, <2>14, <2>15 DEF Meant, Learned
<1> QED
  BY <1>1, <1>2

\* What sending brings: an answer that is meant, and rows of their kind.
LEMMA SendMeant ==
  ASSUME Typed, NEW r, r.who = jar.who, RequestFields \subseteq DOMAIN r, Asked(r), NEW o \in Answers(r)
  PROVE  Meant(r, db, o) /\ RowsOK(o[2]) /\ o[1].status # 303
<1>1. PICK p \in Serve(r, db, site) : o \in Follow(r, p)
  BY DEF Answers
<1>2. RowsOK(db) /\ r.who \in Identities(db)
  BY DEF Typed
<1>3. Answered(r, db, p) /\ Meant(r, db, p)
  BY <1>1, <1>2, ServeAnswers, ServeMeant
<1> QED
  BY <1>1, <1>2, <1>3, FollowAnswers, FollowMeant

-----------------------------------------------------------------------------
(* What is put into the document *)

\* A page is at the root, and its holes are as it brings them.
LEMMA LoadIs ==
  ASSUME NEW v
  PROVE  /\ DOMAIN Load(v) = {"page"} \cup DOMAIN Within(v)
         /\ Load(v)["page"] = v
         /\ \A h \in DOMAIN Within(v) \ {"page"} : Load(v)[h] = Within(v)[h]
BY DEF Load, \uplus, Filled

\* bt is at with v in h.
Became(at, h, v, bt) ==
  /\ DOMAIN bt = {h} \cup DOMAIN Within(v) \cup (DOMAIN at \ DOMAIN Within(at[h]))
  /\ bt[h] = v
  /\ \A x \in DOMAIN Within(v) \ {h} : bt[x] = Within(v)[x]
  /\ \A x \in DOMAIN at \ (DOMAIN Within(at[h]) \cup DOMAIN Within(v) \cup {h}) : bt[x] = at[x]

\* Put is that: the holes of what was there go, those of what comes are added, and
\* the others stay.
LEMMA PutIs == ASSUME NEW at, NEW h, NEW v PROVE Became(at, h, v, Put(at, h, v))
<1> DEFINE W == Within(v)
           rest == [x \in DOMAIN at \ DOMAIN Within(at[h]) |-> at[x]]
<1>1. Put(at, h, v) = Filled(h, v) \uplus W \uplus rest
  BY DEF Put
<1>2. DOMAIN rest = DOMAIN at \ DOMAIN Within(at[h]) /\ \A x \in DOMAIN rest : rest[x] = at[x]
  OBVIOUS
<1> HIDE DEF rest
<1>3. /\ DOMAIN (Filled(h, v) \uplus W) = {h} \cup DOMAIN W
      /\ (Filled(h, v) \uplus W)[h] = v
      /\ \A x \in DOMAIN W \ {h} : (Filled(h, v) \uplus W)[x] = W[x]
  BY DEF Filled, \uplus
<1> DEFINE first == Filled(h, v) \uplus W
<1> HIDE DEF first, W
<1>4. /\ DOMAIN (first \uplus rest) = DOMAIN first \cup DOMAIN rest
      /\ \A x \in DOMAIN first : (first \uplus rest)[x] = first[x]
      /\ \A x \in DOMAIN rest \ DOMAIN first : (first \uplus rest)[x] = rest[x]
  BY DEF \uplus
<1>5. /\ DOMAIN first = {h} \cup DOMAIN W /\ first[h] = v
      /\ \A x \in DOMAIN W \ {h} : first[x] = W[x]
  BY <1>3 DEF first
<1>6. Put(at, h, v) = first \uplus rest
  BY <1>1 DEF first
<1>7. /\ DOMAIN Put(at, h, v) = {h} \cup DOMAIN W \cup (DOMAIN at \ DOMAIN Within(at[h]))
      /\ Put(at, h, v)[h] = v
      /\ \A x \in DOMAIN W \ {h} : Put(at, h, v)[x] = W[x]
  BY <1>2, <1>4, <1>5, <1>6
<1>8. \A x \in DOMAIN at \ (DOMAIN Within(at[h]) \cup DOMAIN W \cup {h}) : Put(at, h, v)[x] = at[x]
  BY <1>2, <1>4, <1>5, <1>6
<1> QED
  BY <1>7, <1>8 DEF W, Became

\* No sentinel is another, or any other kind of hole.
LEMMA SentinelsApart ==
  /\ \A p \in 1 .. 4 : /\ Sentinel(p) # "page" /\ Sentinel(p) \notin Cards
                       /\ Sentinel(p) \notin CounterHoles /\ Sentinel(p) \notin AppHoles
                       /\ Sentinel(p) \in Sentinels
                       /\ Sentinel(p) \in DemoHoles => p = 1
  /\ \A p, k \in 1 .. 4 : Sentinel(p) = Sentinel(k) => p = k
<1>1. \A p \in 1 .. 4 : Sentinel(p) \in Sentinels
  BY DEF Sentinels
<1>2. \A p \in 1 .. 4 : Sentinel(p) \notin Cards /\ Sentinel(p) \notin AppHoles /\ Sentinel(p) # "page"
  BY <1>1, HolesAre
<1>3. \A p, k \in 1 .. 4 : Sentinel(p) = Sentinel(k) => p = k
  BY SentinelsAre
<1>4. \A p \in 1 .. 4 : Sentinel(p) \notin CounterHoles
  BY SentinelsAre DEF CounterHoles
<1>5. \A p \in 1 .. 4 : Sentinel(p) \in DemoHoles => p = 1
  <2>1. 1 \in 1 .. 4
    OBVIOUS
  <2> QED
    BY <1>1, <1>3, <2>1, HolesAre
<1> QED
  BY <1>1, <1>2, <1>3, <1>4, <1>5

\* What first fills a hole may be there.
LEMMA FillsBelong ==
  ASSUME NEW h, h # "page", NEW v, Fills(h, v) PROVE Belongs(h, v)
<1>1. Proper(v) /\ v.name # "FlashcardsPage" /\ v.name # "FlashcardList" /\ v.name # "PatternsPage"
      /\ v.name # "PatternScrollPage"
  BY FillsProper DEF ListNames
<1>2. v.name = "FlashcardCard" => h \in Cards /\ v = V("FlashcardCard", {}, {h})
  BY DEF Fills
<1>3. v.name = "PatternScrollSentinel" => h \in Sentinels
  BY DEF Fills
<1>4. \A p \in 1 .. 4 : h = Sentinel(p) => v = V("PatternScrollSentinel", {}, {p})
  BY DEF Fills
<1> QED
  BY <1>1, <1>2, <1>3, <1>4 DEF Belongs, ScrollNames

\* A template call is never the page of the list it is the sentinel of.
LEMMA SentinelNotPage ==
  /\ \A p, k : V("PatternScrollSentinel", {}, {p}) # PatternScroll(k)
  /\ \A p, k \in 1 .. 4 : /\ V("PatternScrollSentinel", {}, {p}) = V("PatternScrollSentinel", {}, {k}) => p = k
                          /\ PatternScroll(p) = PatternScroll(k) => p = k
  /\ \A p : /\ V("PatternScrollSentinel", {}, {p}).name = "PatternScrollSentinel"
            /\ PatternScroll(p).name = "PatternScrollPage"
<1>1. \A p : /\ V("PatternScrollSentinel", {}, {p}).name = "PatternScrollSentinel"
             /\ V("PatternScrollSentinel", {}, {p}).of = {p}
             /\ PatternScroll(p).name = "PatternScrollPage" /\ PatternScroll(p).of = {p}
  BY DEF V, PatternScroll
<1>2. \A p, k : {p} = {k} => p = k
  OBVIOUS
<1>3. \A p, k : V("PatternScrollSentinel", {}, {p}) # PatternScroll(k)
  BY <1>1
<1>4. ASSUME NEW p \in 1 .. 4, NEW k \in 1 .. 4,
             V("PatternScrollSentinel", {}, {p}) = V("PatternScrollSentinel", {}, {k})
      PROVE  p = k
  <2>1. {p} = {k}
    BY <1>1, <1>4
  <2> QED
    BY <1>2, <2>1
<1>5. ASSUME NEW p \in 1 .. 4, NEW k \in 1 .. 4, PatternScroll(p) = PatternScroll(k)
      PROVE  p = k
  <2>1. {p} = {k}
    BY <1>1, <1>5
  <2> QED
    BY <1>2, <2>1
<1> QED
  BY <1>1, <1>3, <1>4, <1>5

\* A page of its own: it is at the root, and what it brings is in its first state.
LEMMA LoadDocumented ==
  ASSUME NEW v, Proper(v), v.name \notin {"FlashcardCard"} \cup ScrollNames
  PROVE  Placed(Load(v)) /\ Chained(Load(v)) /\ Agree(Load(v))
<1> DEFINE at == Load(v)
<1>0. /\ v.name # "PatternScrollPage" /\ v.name \notin Bare
  BY DEF ScrollNames, Bare
<1>1. DOMAIN Within(v) \subseteq AppHoles \cup DemoHoles \cup Cards
  <2>1. Owns(v) \subseteq AppHoles \cup Cards
    BY DEF Owns, Proper, ListNames, CardNames
  <2> QED
    BY <1>0, <2>1, WithinHoles
<1>2. "page" \notin DOMAIN Within(v)
  BY <1>1, AppHolesAre, HolesAre
<1>3. /\ DOMAIN at = {"page"} \cup DOMAIN Within(v) /\ at["page"] = v
      /\ \A h \in DOMAIN Within(v) : at[h] = Within(v)[h]
  BY <1>2, LoadIs
<1> HIDE DEF at
<1>4. \A h \in DOMAIN Within(v) : h # "page" /\ Fills(h, at[h])
  BY <1>0, <1>2, <1>3, WithinFills
<1>5. Belongs("page", v)
  BY SentinelsApart DEF Belongs
<1>6. Placed(at)
  BY <1>3, <1>4, <1>5, FillsBelong DEF Placed
<1>7. \A p \in 1 .. 4 : Sentinel(p) \in DOMAIN at => p = 1 /\ at[Sentinel(p)] = V("PatternScrollSentinel", {}, {p})
  <2> SUFFICES ASSUME NEW p \in 1 .. 4, Sentinel(p) \in DOMAIN at
               PROVE  p = 1 /\ at[Sentinel(p)] = V("PatternScrollSentinel", {}, {p})
    OBVIOUS
  <2>1. Sentinel(p) \in DOMAIN Within(v)
    BY <1>3, SentinelsApart
  <2>2. p = 1
    BY <1>1, <2>1, SentinelsApart
  <2> QED
    BY <1>4, <2>1, <2>2 DEF Fills
<1>8. Chained(at)
  <2> SUFFICES ASSUME NEW p \in 1 .. 3 PROVE ~Shown(at, p) /\ Sentinel(p + 1) \notin DOMAIN at
    BY DEF Chained
  <2>1. p \in 1 .. 4 /\ p + 1 \in 1 .. 4 /\ p + 1 # 1
    OBVIOUS
  <2>2. Sentinel(p + 1) \notin DOMAIN at
    BY <1>7, <2>1
  <2>3. ~Shown(at, p)
    BY <1>7, <2>1, SentinelNotPage DEF Shown
  <2> QED
    BY <2>2, <2>3
<1>9. Agree(at)
  <2>1. \A h \in CounterHoles : h \in DOMAIN at => h \in DOMAIN Within(v)
    BY <1>3 DEF CounterHoles
  <2>2. \A h \in CounterHoles : h \in DOMAIN at => at[h].of = {0}
    BY <1>4, <2>1 DEF Fills
  <2> QED
    BY <2>2 DEF Agree, CounterHoles
<1> QED
  BY <1>6, <1>8, <1>9 DEF at

\* A fragment that brings no list, no page of the showcase and no page of items.
Slight(v) == Proper(v) /\ v.name \notin ListNames \cup ScrollNames \cup {"PatternsPage"}

\* It brings at most holes of the application.
LEMMA SlightWithin ==
  ASSUME NEW v, Slight(v)
  PROVE  DOMAIN Within(v) \subseteq AppHoles /\ \A x \in DOMAIN Within(v) : Fills(x, Within(v)[x])
<1>1. Proper(v) /\ v.name # "PatternScrollPage"
  BY DEF Slight, ScrollNames
<1>2. v.name = "FlashcardCard" \/ v.name \notin {"PatternsPage"} \cup Bare
  BY DEF Slight, Bare
<1>3. v.name \notin ListNames
  BY DEF Slight
<1>4. Owns(v) = AppHoles
  BY <1>3 DEF Owns
<1> QED
  BY <1>1, <1>2, <1>4, WithinHoles, WithinFills

\* What belongs in a hole is put there, and the rest stays where it belongs.
LEMMA PutPlaced ==
  ASSUME NEW at, Placed(at), NEW h, NEW v, Belongs(h, v),
         \A x \in DOMAIN Within(v) : x # "page" /\ Fills(x, Within(v)[x]),
         "page" \notin DOMAIN Within(at[h])
  PROVE  Placed(Put(at, h, v))
<1> DEFINE bt == Put(at, h, v)
<1>0. Became(at, h, v, bt)
  BY PutIs
<1> HIDE DEF bt
<1>1. /\ DOMAIN bt = {h} \cup DOMAIN Within(v) \cup (DOMAIN at \ DOMAIN Within(at[h]))
      /\ bt[h] = v
      /\ \A x \in DOMAIN Within(v) \ {h} : bt[x] = Within(v)[x]
      /\ \A x \in DOMAIN at \ (DOMAIN Within(at[h]) \cup DOMAIN Within(v) \cup {h}) : bt[x] = at[x]
  BY <1>0 DEF Became
<1>2. "page" \in DOMAIN bt
  BY <1>1 DEF Placed
<1>3. ASSUME NEW x \in DOMAIN bt PROVE Belongs(x, bt[x])
  <2>1. CASE x = h
    BY <1>1, <2>1
  <2>2. CASE x # h /\ x \in DOMAIN Within(v)
    BY <1>1, <2>2, FillsBelong
  <2>3. CASE x # h /\ x \notin DOMAIN Within(v)
    <3>1. x \in DOMAIN at /\ bt[x] = at[x]
      BY <1>1, <2>3
    <3> QED
      BY <3>1 DEF Placed
  <2> QED
    BY <2>1, <2>2, <2>3
<1>4. Placed(bt)
  BY <1>2, <1>3 DEF Placed
<1> QED
  BY <1>4 DEF bt

Fixed == {"page"} \cup Cards \cup Sentinels \cup CounterHoles
\* None of them is the application's.
LEMMA FixedApart == \A x \in Fixed : x \notin AppHoles
BY AppHolesAre DEF Fixed

\* The fixed holes as they were, but for x.
SameBut(at, bt, x) ==
  \A h \in Fixed \ {x} : (h \in DOMAIN bt <=> h \in DOMAIN at) /\ (h \in DOMAIN at => bt[h] = at[h])

\* What touches neither a sentinel nor the counter leaves both in order.
LEMMA FixedKept ==
  ASSUME NEW at, Chained(at), Agree(at), NEW bt, NEW x, x \notin Sentinels \cup CounterHoles,
         SameBut(at, bt, x)
  PROVE  Chained(bt) /\ Agree(bt)
<1>1. \A p \in 1 .. 4 : /\ Sentinel(p) \in DOMAIN bt <=> Sentinel(p) \in DOMAIN at
                        /\ Sentinel(p) \in DOMAIN at => bt[Sentinel(p)] = at[Sentinel(p)]
  BY SentinelsApart DEF SameBut, Fixed
<1>2. \A h \in CounterHoles : /\ h \in DOMAIN bt <=> h \in DOMAIN at
                              /\ h \in DOMAIN at => bt[h] = at[h]
  BY DEF SameBut, Fixed
<1>3. Chained(bt)
  <2> SUFFICES ASSUME NEW p \in 1 .. 3 PROVE Shown(bt, p) <=> Sentinel(p + 1) \in DOMAIN bt
    BY DEF Chained
  <2>1. p \in 1 .. 4 /\ p + 1 \in 1 .. 4
    OBVIOUS
  <2>2. Shown(at, p) <=> Sentinel(p + 1) \in DOMAIN at
    BY DEF Chained
  <2>3. Shown(bt, p) <=> Shown(at, p)
    BY <1>1, <2>1 DEF Shown
  <2> QED
    BY <1>1, <2>1, <2>2, <2>3
<1>4. Agree(bt)
  BY <1>2 DEF Agree, CounterHoles
<1> QED
  BY <1>3, <1>4

\* A slight fragment in a hole of its own.
LEMMA PutSlight ==
  ASSUME NEW at, Placed(at), Chained(at), Agree(at),
         NEW h \in DOMAIN at, h \notin Sentinels \cup CounterHoles \cup {"page"},
         NEW v, Slight(v), Belongs(h, v)
  PROVE  /\ Placed(Put(at, h, v)) /\ Chained(Put(at, h, v)) /\ Agree(Put(at, h, v))
         /\ SameBut(at, Put(at, h, v), h)
<1>1. Slight(at[h])
  BY DEF Placed, Belongs, Slight, ListNames
<1>2. /\ DOMAIN Within(v) \subseteq AppHoles /\ \A x \in DOMAIN Within(v) : Fills(x, Within(v)[x])
      /\ DOMAIN Within(at[h]) \subseteq AppHoles
  BY <1>1, SlightWithin
<1>3. Placed(Put(at, h, v))
  BY <1>2, AppHolesAre, PutPlaced
<1>4. SameBut(at, Put(at, h, v), h)
  <2> DEFINE bt == Put(at, h, v)
  <2>0. Became(at, h, v, bt)
    BY PutIs
  <2> HIDE DEF bt
  <2>1. /\ DOMAIN bt = {h} \cup DOMAIN Within(v) \cup (DOMAIN at \ DOMAIN Within(at[h]))
        /\ \A x \in DOMAIN at \ (DOMAIN Within(at[h]) \cup DOMAIN Within(v) \cup {h}) : bt[x] = at[x]
    BY <2>0 DEF Became
  <2>2. SameBut(at, bt, h)
    BY <1>2, <2>1, FixedApart DEF SameBut
  <2> QED
    BY <2>2 DEF bt
<1>5. Chained(Put(at, h, v)) /\ Agree(Put(at, h, v))
  BY <1>4, FixedKept
<1> QED
  BY <1>3, <1>4, <1>5

\* A sentinel holds nothing.
LEMMA SentinelWithin ==
  ASSUME NEW p \in 1 .. 4 PROVE DOMAIN Within(V("PatternScrollSentinel", {}, {p})) = {}
<1> DEFINE v == V("PatternScrollSentinel", {}, {p})
<1>0. DOMAIN <<>> = {}
  OBVIOUS
<1>1. DOMAIN Render(v).holes = {}
  BY <1>0, SentinelRendered
<1> HIDE DEF v
<1>2. DOMAIN Within(v) = {}
  <2> DEFINE one == Render(v).holes
             two == {Render(one[h]).holes : h \in DOMAIN one}
  <2>1. two = {}
    BY <1>1
  <2> HIDE DEF two
  <2>2. DOMAIN Merged(two) = {}
    BY <2>1, MergedIs
  <2>3. Within(v) = one \uplus Merged(two)
    BY DEF Within, two
  <2>4. DOMAIN one = {}
    BY <1>1
  <2> HIDE DEF one
  <2> QED
    BY <2>2, <2>3, <2>4 DEF \uplus
<1> QED
  BY <1>2 DEF v

\* The next page of the list takes its sentinel's place.
LEMMA PutScroll ==
  ASSUME NEW at, Placed(at), Chained(at), Agree(at), NEW p \in 1 .. 4,
         Sentinel(p) \in DOMAIN at, at[Sentinel(p)] = V("PatternScrollSentinel", {}, {p})
  PROVE  LET bt == Put(at, Sentinel(p), PatternScroll(p)) IN
         /\ Placed(bt) /\ Chained(bt) /\ Agree(bt)
         /\ DOMAIN at \subseteq DOMAIN bt
         /\ \A h \in DOMAIN at \ {Sentinel(p)} : bt[h] = at[h]
         /\ \A c \in Cards : c \in DOMAIN bt => c \in DOMAIN at
<1> DEFINE s == Sentinel(p)
           v == PatternScroll(p)
           bt == Put(at, s, v)
<1>0. DOMAIN Within(at[s]) = {}
  BY SentinelWithin
<1>w. /\ p < 4 => /\ Sentinel(p + 1) \in DOMAIN Within(v)
                  /\ Within(v)[Sentinel(p + 1)] = V("PatternScrollSentinel", {}, {p + 1})
      /\ \A h \in DOMAIN Within(v) : p < 4 /\ h = Sentinel(p + 1)
  BY WithinScroll
<1>n. p < 4 => p + 1 \in 1 .. 4 /\ p + 1 # p /\ p \in 1 .. 3
  OBVIOUS
<1>d. \A k \in 1 .. 4 : Sentinel(k) = s => k = p
  BY SentinelsApart
<1>v. /\ v # V("PatternScrollSentinel", {}, {p}) /\ v.name = "PatternScrollPage"
      /\ \A k \in 1 .. 4 : v = PatternScroll(k) => k = p
  BY SentinelNotPage
<1>p. Became(at, s, v, bt)
  BY PutIs
<1> HIDE DEF bt
<1>1. /\ DOMAIN bt = {s} \cup DOMAIN Within(v) \cup DOMAIN at
      /\ bt[s] = v
      /\ \A x \in DOMAIN Within(v) \ {s} : bt[x] = Within(v)[x]
      /\ \A x \in DOMAIN at \ (DOMAIN Within(v) \cup {s}) : bt[x] = at[x]
  BY <1>0, <1>p DEF Became
<1>s. s \in DOMAIN at /\ at[s] = V("PatternScrollSentinel", {}, {p}) /\ bt[s] = PatternScroll(p)
      /\ v = PatternScroll(p)
  BY <1>1
<1>b. Belongs(s, v)
  <2>1. Proper(v)
    BY <1>v DEF Proper, CardNames
  <2>2. s # "page" /\ s \in Sentinels
    BY SentinelsApart
  <2>3. \A k \in 1 .. 4 : s = Sentinel(k) => v = PatternScroll(k)
    BY <1>d
  <2> QED
    BY <1>v, <2>1, <2>2, <2>3 DEF Belongs
<1> HIDE DEF bt, s, v
<1>2. p < 4 => Sentinel(p + 1) \notin DOMAIN at
  <2>1. ~Shown(at, p)
    BY <1>s, SentinelNotPage DEF Shown, s
  <2> QED
    BY <1>n, <2>1 DEF Chained
<1>3. \A x \in DOMAIN Within(v) : x \notin DOMAIN at
  BY <1>w, <1>2
<1>4. DOMAIN at \subseteq DOMAIN bt /\ \A h \in DOMAIN at \ {s} : bt[h] = at[h]
  BY <1>1, <1>3
<1>5. \A x \in Cards \cup CounterHoles \cup {"page"} :
        (x \in DOMAIN bt <=> x \in DOMAIN at) /\ (x \in DOMAIN at => bt[x] = at[x]) /\ x # s
  <2>1. \A x \in Cards \cup CounterHoles \cup {"page"} : x # s /\ (p < 4 => x # Sentinel(p + 1))
    BY <1>n, SentinelsApart DEF s
  <2> QED
    BY <1>1, <1>4, <1>w, <2>1
<1>6. Agree(bt)
  BY <1>5 DEF Agree, CounterHoles
<1>7. Placed(bt)
  <2>1. \A x \in DOMAIN Within(v) \ {s} : Belongs(x, bt[x])
    <3> SUFFICES ASSUME p < 4 PROVE Belongs(Sentinel(p + 1), V("PatternScrollSentinel", {}, {p + 1}))
      BY <1>1, <1>w
    <3> DEFINE u == V("PatternScrollSentinel", {}, {p + 1})
    <3>1. u.name = "PatternScrollSentinel"
      BY SentinelNotPage
    <3>2. Sentinel(p + 1) # "page" /\ Sentinel(p + 1) \in Sentinels
          /\ \A k \in 1 .. 4 : Sentinel(p + 1) = Sentinel(k) => k = p + 1
      BY <1>n, SentinelsApart
    <3>3. \A k \in 1 .. 4 : Sentinel(p + 1) = Sentinel(k) => u = V("PatternScrollSentinel", {}, {k})
      BY <3>2
    <3>4. \E k \in 1 .. 4 : u = V("PatternScrollSentinel", {}, {k})
      BY <1>n
    <3> HIDE DEF u
    <3>5. Proper(u)
      BY <3>1, <3>4 DEF Proper, CardNames
    <3>6. Belongs(Sentinel(p + 1), u)
      BY <3>1, <3>2, <3>3, <3>5 DEF Belongs
    <3> QED
      BY <3>6 DEF u
  <2>2. \A x \in DOMAIN at \ {s} : Belongs(x, bt[x])
    BY <1>4 DEF Placed
  <2>3. "page" \in DOMAIN bt
    BY <1>4 DEF Placed
  <2>4. Belongs(s, bt[s])
    BY <1>1, <1>b
  <2> QED
    BY <1>1, <2>1, <2>2, <2>3, <2>4 DEF Placed
<1>8. Chained(bt)
  <2> SUFFICES ASSUME NEW k \in 1 .. 3 PROVE Shown(bt, k) <=> Sentinel(k + 1) \in DOMAIN bt
    BY DEF Chained
  <2>0. k \in 1 .. 4 /\ k + 1 \in 1 .. 4
    OBVIOUS
  <2>1. Shown(at, k) <=> Sentinel(k + 1) \in DOMAIN at
    BY DEF Chained
  <2>2. CASE k = p
    <3>1. Shown(bt, p)
      BY <1>1, <1>s DEF Shown, s
    <3>2. Sentinel(p + 1) \in DOMAIN bt
      BY <1>1, <1>w, <2>2
    <3> QED
      BY <2>2, <3>1, <3>2
  <2>3. CASE k = p + 1
    <3>1. p < 4
      BY <2>3
    <3>2. Sentinel(k) \notin DOMAIN at
      BY <1>2, <2>3, <3>1
    <3>3. Sentinel(k + 1) \notin DOMAIN at
      BY <2>1, <3>2 DEF Shown
    <3>4. Sentinel(k + 1) # s /\ Sentinel(k + 1) # Sentinel(p + 1)
      BY <2>0, <2>3, SentinelsApart DEF s
    <3>5. Sentinel(k + 1) \notin DOMAIN bt
      BY <1>1, <1>w, <3>3, <3>4
    <3>6. Sentinel(k) # s
      BY <2>0, <2>3, SentinelsApart DEF s
    <3>7. bt[Sentinel(k)] = V("PatternScrollSentinel", {}, {p + 1})
      BY <1>1, <1>w, <2>3, <3>1, <3>6
    <3>8. ~Shown(bt, k)
      BY <3>7, SentinelNotPage DEF Shown
    <3> QED
      BY <3>5, <3>8
  <2>4. CASE k # p /\ k # p + 1
    <3>1. Sentinel(k) # s /\ (p < 4 => Sentinel(k) # Sentinel(p + 1))
          /\ (p < 4 => Sentinel(k + 1) # Sentinel(p + 1))
      BY <1>n, <2>0, <2>4, SentinelsApart DEF s
    <3>2. Sentinel(k) \in DOMAIN bt <=> Sentinel(k) \in DOMAIN at
      BY <1>1, <1>w, <3>1
    <3>3. Sentinel(k + 1) \in DOMAIN bt <=> Sentinel(k + 1) \in DOMAIN at
      BY <1>1, <1>s, <1>w, <3>1
    <3>4. Shown(bt, k) <=> Shown(at, k)
      BY <1>4, <3>1, <3>2 DEF Shown
    <3> QED
      BY <2>1, <3>3, <3>4
  <2> QED
    BY <2>2, <2>3, <2>4
<1>9. \A c \in Cards : c \in DOMAIN bt => c \in DOMAIN at
  BY <1>5
<1> QED
  BY <1>4, <1>6, <1>7, <1>8, <1>9 DEF bt, s, v

\* The counter's answer takes both regions.
LEMMA PutCounter ==
  ASSUME NEW at, Placed(at), Chained(at), Agree(at), NEW of
  PROVE  LET parts == PatternCounterResponse(of)
             bt == [x \in DOMAIN at |-> IF x \in DOMAIN parts THEN parts[x] ELSE at[x]] IN
         /\ Placed(bt) /\ Chained(bt) /\ Agree(bt)
         /\ DOMAIN bt = DOMAIN at
         /\ \A h \in DOMAIN at \ CounterHoles : bt[h] = at[h]
<1> DEFINE parts == PatternCounterResponse(of)
           bt == [x \in DOMAIN at |-> IF x \in DOMAIN parts THEN parts[x] ELSE at[x]]
<1>1. /\ DOMAIN parts = CounterHoles
      /\ parts["oob-counter-btn"] = V("PatternCounterButton", {}, of)
      /\ parts["oob-total"] = V("PatternCounterBadge", {}, of)
  BY DEF PatternCounterResponse, Filled, \uplus, CounterHoles
<1> HIDE DEF parts
<1>2. /\ DOMAIN bt = DOMAIN at
      /\ \A h \in DOMAIN at \ CounterHoles : bt[h] = at[h]
      /\ \A h \in DOMAIN at \cap CounterHoles : bt[h] = parts[h]
  BY <1>1
<1> HIDE DEF bt
<1>3. \A h \in CounterHoles : /\ parts[h].of = of
                              /\ parts[h].name \in {"PatternCounterButton", "PatternCounterBadge"}
  BY <1>1 DEF CounterHoles, V
<1>4. \A h \in CounterHoles : h # "page" /\ \A p \in 1 .. 4 : h # Sentinel(p)
  BY SentinelsApart DEF CounterHoles
<1>5. ASSUME NEW h \in CounterHoles PROVE Belongs(h, parts[h])
  <2>1. Proper(parts[h])
    BY <1>3 DEF Proper, CardNames
  <2> QED
    BY <1>3, <1>4, <2>1 DEF Belongs, ScrollNames
<1>6. Placed(bt)
  BY <1>2, <1>5 DEF Placed
<1>7. Agree(bt)
  BY <1>2, <1>3 DEF Agree, CounterHoles
<1>8. Chained(bt)
  <2>1. \A p \in 1 .. 4 : Sentinel(p) \in DOMAIN at => bt[Sentinel(p)] = at[Sentinel(p)]
    BY <1>2, SentinelsApart
  <2>2. \A p \in 1 .. 3 : p \in 1 .. 4
    OBVIOUS
  <2> QED
    BY <1>2, <2>1, <2>2 DEF Chained, Shown
<1> QED
  BY <1>2, <1>6, <1>7, <1>8 DEF bt, parts

-----------------------------------------------------------------------------
(* What the tab sends *)

\* A form of a card posts about that card and is replaced by the answer.
LEMMA CardControlIs ==
  ASSUME NEW a, NEW c, CardControl(a, c)
  PROVE  a.verb = "POST" /\ a.path \in CardActions /\ a.of = {c} /\ a.hole = c /\ a.how = "self"
<1>1. PICK path \in CardActions : a = Plain(CSRFField(Post(path, {c}, c, "self")))
  BY DEF CardControl
<1>2. a = Plain(CSRFField(Hx("POST", path, {c}, c, "self")))
  BY <1>1 DEF Post
<1> QED
  BY <1>2, SendsWhat

\* A sentinel asks for its page and is replaced by it.
LEMMA SentinelControlIs ==
  ASSUME NEW a, NEW p, SentinelControl(a, p)
  PROVE  /\ a.verb = "GET" /\ a.path = ScrollPath /\ a.of = {p} /\ a.hole = Sentinel(p)
         /\ a.how = "self" /\ ~a.plain
BY SendsWhat DEF SentinelControl, Get

\* A card's forms, the demos' endpoints and the lists have paths of their own.
LEMMA PathsApart ==
  /\ CardActions \cap DemoPaths = {} /\ ScrollPath \notin CardActions
  /\ CounterPath \notin CardActions /\ CounterPath # ScrollPath
  /\ CounterPath \in DemoPaths /\ ScrollPath \in DemoPaths
  /\ ScrollPath \notin ListPaths /\ "/patterns" \notin CardActions \cup {ScrollPath}
BY DEF CardActions, DemoPaths, ScrollPath, CounterPath, ListPaths, flashcardKnownAction,
       flashcardDeleteAction

\* An element of a kind: where it is, and what its request is about.
LEMMA ControlHeld ==
  ASSUME NEW at, NEW a, Control(a), a.hole \in DOMAIN at PROVE Held(at, a)
<1>1. \A c \in Cards : ~CardControl(a, c)
  BY CardControlIs DEF Control
<1>2. \A p \in 1 .. 4 : ~SentinelControl(a, p)
  BY SentinelControlIs, SentinelsApart DEF Control
<1> QED
  BY <1>1, <1>2 DEF Held

\* A card's form is held by its card, ...
LEMMA CardHeld ==
  ASSUME NEW at, NEW a, NEW c \in Cards, CardControl(a, c),
         c \in DOMAIN at, at[c] = V("FlashcardCard", {}, {c})
  PROVE  Held(at, a)
<1>1. a.hole = c /\ a.of = {c}
  BY CardControlIs
<1>2. ASSUME NEW k \in Cards, CardControl(a, k) PROVE k = c
  BY <1>1, <1>2, CardControlIs
<1>3. ASSUME NEW p \in 1 .. 4, SentinelControl(a, p) PROVE FALSE
  BY <1>1, <1>3, SentinelControlIs, SentinelsApart
<1> QED
  BY <1>1, <1>2, <1>3 DEF Held

\* ... and what a sentinel sends by the sentinel.
LEMMA SentinelHeld ==
  ASSUME NEW at, NEW a, NEW p \in 1 .. 4, SentinelControl(a, p), Sentinel(p) \in DOMAIN at,
         at[Sentinel(p)] = V("PatternScrollSentinel", {}, {p})
  PROVE  Held(at, a)
<1>1. a.hole = Sentinel(p)
  BY SentinelControlIs
<1>2. ASSUME NEW k \in Cards, CardControl(a, k) PROVE FALSE
  BY <1>1, <1>2, CardControlIs, SentinelsApart
<1>3. ASSUME NEW k \in 1 .. 4, SentinelControl(a, k) PROVE k = p
  BY <1>1, <1>3, SentinelControlIs, SentinelsApart
<1> QED
  BY <1>1, <1>2, <1>3 DEF Held

\* Every control and link of the document is of a call in one of its holes.
LEMMA DocumentIs ==
  /\ \A a \in Document.does : \E h \in DOMAIN tab.at : a \in Render(tab.at[h]).does
  /\ \A l \in Document.links : \E h \in DOMAIN tab.at : l \in Render(tab.at[h]).links
BY DEF Document, Together

\* So a control is one of the three, held by what it would be swapped for.
LEMMA DocumentDoes ==
  ASSUME Placed(tab.at), NEW a \in Document.does
  PROVE  /\ Element(a)
         /\ a.hole \in DOMAIN tab.at => Held(tab.at, a)
         /\ a.plain => a.path \notin DemoPaths
<1>1. PICK h \in DOMAIN tab.at : a \in Render(tab.at[h]).does
  BY DocumentIs
<1> DEFINE v == tab.at[h]
<1>2. Belongs(h, v)
  BY DEF Placed
<1>3. Proper(v)
  BY <1>2 DEF Belongs
<1>4. v.name = "FlashcardCard" => h \in Cards /\ v = V("FlashcardCard", {}, {h})
  BY <1>2 DEF Belongs
<1>5. \A p \in 1 .. 4 : h = Sentinel(p) => v \in {V("PatternScrollSentinel", {}, {p}), PatternScroll(p)}
  BY <1>2 DEF Belongs
<1>6. v.name = "PatternScrollSentinel" => \E p \in 1 .. 4 : h = Sentinel(p)
  BY <1>2 DEF Belongs, ScrollNames, Sentinels
<1>7. v = tab.at[h]
  OBVIOUS
<1> HIDE DEF v
<1>8. CASE Control(a)
  BY <1>8, ControlHeld DEF Element, Control
<1>9. CASE \E c \in Cards : v = V("FlashcardCard", {}, {c}) /\ CardControl(a, c)
  <2>1. PICK c \in Cards : v = V("FlashcardCard", {}, {c}) /\ CardControl(a, c)
    BY <1>9
  <2>2. v.name = "FlashcardCard" /\ v.of = {c}
    BY <2>1 DEF V
  <2>3. c = h
    <3>1. v = V("FlashcardCard", {}, {h})
      BY <1>4, <2>2
    <3>2. v.of = {h}
      BY <3>1 DEF V
    <3> QED
      BY <2>2, <3>2
  <2>4. Held(tab.at, a)
    BY <1>7, <2>1, <2>3, CardHeld
  <2>5. a.path \notin DemoPaths
    BY <2>1, CardControlIs, PathsApart
  <2> QED
    BY <2>1, <2>4, <2>5 DEF Element
<1>10. CASE \E p \in 1 .. 4 : v = V("PatternScrollSentinel", {}, {p}) /\ SentinelControl(a, p)
  <2>1. PICK p \in 1 .. 4 : v = V("PatternScrollSentinel", {}, {p}) /\ SentinelControl(a, p)
    BY <1>10
  <2>2. v.name = "PatternScrollSentinel"
    BY <2>1, SentinelNotPage
  <2>3. PICK k \in 1 .. 4 : h = Sentinel(k)
    BY <1>6, <2>2
  <2>4. v = V("PatternScrollSentinel", {}, {k})
    BY <1>5, <2>1, <2>3, SentinelNotPage
  <2>5. k = p
    BY <2>1, <2>4, SentinelNotPage
  <2>6. Held(tab.at, a)
    BY <1>7, <2>1, <2>3, <2>5, SentinelHeld
  <2>7. ~a.plain
    BY <2>1, SentinelControlIs
  <2> QED
    BY <2>1, <2>6, <2>7 DEF Element
<1> QED
  BY <1>1, <1>3, <1>7, <1>8, <1>9, <1>10, RenderedDoes

\* A request asks for what its element does.
Fits(a, r) ==
  /\ Asked(r)
  /\ r.verb = a.verb /\ r.path = a.path /\ r.of = a.of
  /\ a.how = "load" => ~r.htmx /\ a.path \notin DemoPaths
  /\ a.how # "load" => r.htmx /\ Element(a) /\ (a.hole \in DOMAIN tab.at => Held(tab.at, a))

\* A control names its card or its page, ...
LEMMA ElementAsks ==
  ASSUME NEW a, Element(a), NEW r, r.path = a.path, r.of = a.of PROVE Asked(r)
<1>1. CASE Control(a)
  BY <1>1 DEF Control, Asked, CardActions
<1>2. ASSUME NEW c \in Cards, CardControl(a, c) PROVE Asked(r)
  BY <1>2, CardControlIs, PathsApart DEF Asked
<1>3. ASSUME NEW p \in 1 .. 4, SentinelControl(a, p) PROVE Asked(r)
  BY <1>3, SentinelControlIs, PathsApart DEF Asked, CardActions
<1> QED
  BY <1>1, <1>2, <1>3 DEF Element

\* ... a page is asked for without htmx, ...
LEMMA LoadFits ==
  ASSUME NEW a, a.how = "load", a.path \notin DemoPaths,
         NEW r, ~r.htmx, r.verb = a.verb, r.path = a.path, r.of = a.of
  PROVE  Fits(a, r)
<1>1. Asked(r)
  BY PathsApart DEF Asked
<1> QED
  BY <1>1 DEF Fits

\* ... by an address ...
LEMMA LoadOfIs ==
  ASSUME NEW path, NEW of, NEW verb
  PROVE  LET a == [LoadOf(path, of) EXCEPT !.verb = verb] IN
         a.verb = verb /\ a.path = path /\ a.of = of /\ a.how = "load"
BY DEF LoadOf, Hx

\* ... under the cookies of the moment.
LEMMA RequestIs ==
  ASSUME NEW a, NEW htmx, NEW valid, NEW fault, NEW token
  PROVE  LET r == Request(a, htmx, valid, fault, token) IN
         /\ r.verb = a.verb /\ r.path = a.path /\ r.of = a.of /\ r.htmx = htmx
         /\ r.cookie = jar.csrf /\ r.who = jar.who /\ RequestFields \subseteq DOMAIN r
BY DEF Request, RequestFields

\* Sending leaves the document and whom it was served to as they are.
StillPage == tab'.at = tab.at /\ tab'.as = tab.as /\ tab'.next \in {tab.next, ""}

\* A click sends what its control says, ...
LEMMA ClickFits ==
  ASSUME Shapes, Documented, Click
  PROVE  \E a, r : Sends(a, r) /\ Fits(a, r) /\ StillPage
<1>1. PICK a \in Document.does, valid \in BOOLEAN, fault \in Faults :
        /\ tab' = IF a.path \in DemoPaths THEN [tab EXCEPT !.demo = a.path] ELSE tab
        /\ \/ Live /\ Send(a, Request(a, TRUE, valid, fault, tab.token))
           \/ ~site.js /\ a.plain
                /\ Send([LoadOf(a.path, a.of) EXCEPT !.verb = a.verb],
                        Request(a, FALSE, valid, fault, tab.token))
  BY DEF Click
<1>2. StillPage
  <2>1. CASE a.path \in DemoPaths
    BY <1>1, <2>1 DEF StillPage
  <2>2. CASE a.path \notin DemoPaths
    BY <1>1, <2>2 DEF StillPage
  <2> QED
    BY <2>1, <2>2
<1>3. /\ Element(a)
      /\ a.hole \in DOMAIN tab.at => Held(tab.at, a)
      /\ a.plain => a.path \notin DemoPaths
  BY DocumentDoes DEF Documented
<1>4. CASE Send(a, Request(a, TRUE, valid, fault, tab.token))
  <2> DEFINE r == Request(a, TRUE, valid, fault, tab.token)
  <2>1. /\ r.verb = a.verb /\ r.path = a.path /\ r.of = a.of /\ r.htmx = TRUE
        /\ r.cookie = jar.csrf /\ r.who = jar.who /\ RequestFields \subseteq DOMAIN r
    BY RequestIs
  <2>2. Send(a, r)
    BY <1>4
  <2> HIDE DEF r
  <2>3. Asked(r)
    BY <1>3, <2>1, ElementAsks
  <2>4. a.how # "load"
    BY <1>3, CardControlIs, SentinelControlIs DEF Element, Control
  <2>5. Fits(a, r)
    BY <1>3, <2>1, <2>3, <2>4 DEF Fits
  <2> QED
    BY <1>2, <2>1, <2>2, <2>5 DEF Sends
<1>5. CASE /\ a.plain
           /\ Send([LoadOf(a.path, a.of) EXCEPT !.verb = a.verb],
                   Request(a, FALSE, valid, fault, tab.token))
  <2> DEFINE b == [LoadOf(a.path, a.of) EXCEPT !.verb = a.verb]
             r == Request(a, FALSE, valid, fault, tab.token)
  <2>1. /\ r.verb = a.verb /\ r.path = a.path /\ r.of = a.of /\ r.htmx = FALSE
        /\ r.cookie = jar.csrf /\ r.who = jar.who /\ RequestFields \subseteq DOMAIN r
    BY RequestIs
  <2>2. b.verb = a.verb /\ b.path = a.path /\ b.of = a.of /\ b.how = "load"
    BY LoadOfIs
  <2>3. Send(b, r)
    BY <1>5
  <2> HIDE DEF r, b
  <2>4. Fits(b, r)
    BY <1>3, <1>5, <2>1, <2>2, LoadFits
  <2> QED
    BY <1>2, <2>1, <2>2, <2>3, <2>4 DEF Sends
<1> QED
  BY <1>1, <1>4, <1>5

\* ... and so does a navigation, to an address or where an answer told it to.
LEMMA NavigateFits ==
  ASSUME Shapes, Documented, Navigate
  PROVE  \E a, r : Sends(a, r) /\ Fits(a, r) /\ StillPage
<1>1. PICK path \in IF tab.next # "" THEN {tab.next} ELSE Document.links \cup Entries,
           valid \in BOOLEAN, fault \in Faults :
        \E of : /\ tab' = [tab EXCEPT !.next = ""]
                /\ Send(LoadOf(path, of), Request(LoadOf(path, of), FALSE, valid, fault, 0))
  BY DEF Navigate
<1>2. PICK of : /\ tab' = [tab EXCEPT !.next = ""]
                /\ Send(LoadOf(path, of), Request(LoadOf(path, of), FALSE, valid, fault, 0))
  BY <1>1
<1>3. StillPage
  BY <1>2 DEF StillPage, Shapes, TabFields
<1>4. path \notin DemoPaths
  <2>1. CASE tab.next # ""
    BY <1>1, <2>1 DEF Documented
  <2>2. CASE path \in Entries
    BY <2>2 DEF Entries, DemoPaths
  <2>3. CASE path \in Document.links
    <3>1. PICK h \in DOMAIN tab.at : path \in Render(tab.at[h]).links
      BY <2>3, DocumentIs
    <3>2. Proper(tab.at[h])
      BY DEF Documented, Placed, Belongs
    <3> QED
      BY <3>1, <3>2, RenderedLinks
  <2> QED
    BY <1>1, <2>1, <2>2, <2>3
<1> DEFINE a == LoadOf(path, of)
           r == Request(a, FALSE, valid, fault, 0)
<1>5. a.path = path /\ a.how = "load"
  BY DEF LoadOf, Hx
<1>6. Send(a, r)
  BY <1>2
<1> HIDE DEF a
<1>7. /\ r.verb = a.verb /\ r.path = a.path /\ r.of = a.of /\ r.htmx = FALSE
      /\ r.cookie = jar.csrf /\ r.who = jar.who /\ RequestFields \subseteq DOMAIN r
  BY RequestIs
<1> HIDE DEF r
<1>8. Fits(a, r)
  BY <1>4, <1>5, <1>7, LoadFits
<1> QED
  BY <1>3, <1>6, <1>7, <1>8 DEF Sends

-----------------------------------------------------------------------------
(* The answer that is then under way *)

\* No control is answered with a list or a page of the application.
LEMMA ElementModest ==
  ASSUME NEW a, Element(a), NEW r, r.htmx, r.verb = a.verb, r.path = a.path,
         NEW b, Modest(r, b)
  PROVE  b.view.name \notin ListNames \cup {"PatternsPage"}
<1>1. /\ b.view.name \in ListNames => r.verb = "GET" /\ r.path \in ListPaths
      /\ b.view.name = "PatternsPage" => r.path = "/patterns"
  BY DEF Modest
<1>2. CASE Control(a)
  BY <1>1, <1>2 DEF Control
<1>3. ASSUME NEW c \in Cards, CardControl(a, c) PROVE a.verb # "GET" /\ a.path # "/patterns"
  BY <1>3, CardControlIs, PathsApart
<1>4. ASSUME NEW p \in 1 .. 4, SentinelControl(a, p) PROVE a.path \notin ListPaths /\ a.path # "/patterns"
  BY <1>4, SentinelControlIs, PathsApart
<1> QED
  BY <1>1, <1>2, <1>3, <1>4 DEF Element

\* A modest answer is apt for the control that asked.
LEMMA FitsApt ==
  ASSUME NEW a, NEW r, Fits(a, r), NEW b, Modest(r, b), NEW q, q.a = a, q.ans = b
  PROVE  Apt(q)
<1>1. Proper(b.view) /\ b.view.name # "PatternScrollSentinel" /\ b.nav \in Navs
  BY DEF Modest
<1>2. b.nav \notin DemoPaths
  BY <1>1 DEF Navs, DemoPaths
<1>3. b.view.name = "FlashcardCard" =>
        r.htmx /\ r.path = flashcardKnownAction /\ b.view = V("FlashcardCard", {}, r.of)
  BY DEF Modest
<1>4. /\ b.view.name = "PatternScrollPage" => r.path = ScrollPath
      /\ b.view.name = "PatternCounterResponse" => r.path = CounterPath
      /\ r.path = CounterPath /\ Swaps(b) => b.view.name = "PatternCounterResponse"
  BY DEF Modest
<1>5. r.path = ScrollPath /\ Swaps(b) => \A p \in 1 .. 4 : r.of = {p} => b.view = PatternScroll(p)
  BY DEF Modest
<1>6. r.path = a.path /\ r.of = a.of /\ r.verb = a.verb
  BY DEF Fits
<1>7. a.how = "load" => b.view.name \notin {"FlashcardCard", "PatternScrollPage"}
  BY <1>3, <1>4, <1>6, PathsApart DEF Fits
<1>8. a.how # "load" => r.htmx /\ Element(a)
  BY DEF Fits
<1>9. a.how # "load" => b.view.name \notin ListNames \cup {"PatternsPage"}
  BY <1>6, <1>8, ElementModest
<1> QED
  BY <1>1, <1>2, <1>3, <1>4, <1>5, <1>6, <1>7, <1>8, <1>9 DEF Apt, ListNames, CardActions

\* The request the tab has more of, and the rows after it.
Entry(q, a, r, o) ==
  /\ q.a = a /\ q.ans = o[1] /\ (q.lost <=> a.hole \notin DOMAIN tab.at)
  /\ reqs' = reqs \cup {q}
  /\ db' = o[2]

\* Sending adds one request, with an answer that was meant for it.
LEMMA SendEntry ==
  ASSUME Typed, NEW a, NEW r, Sends(a, r), Asked(r)
  PROVE  \E o \in Answers(r) : \E q :
           /\ Entry(q, a, r, o)
           /\ Meant(r, db, o) /\ RowsOK(o[2])
           /\ marks'.gone = marks.gone \cup ((AllCards(db) \ AllCards(o[2]))
                                              \cap UNION {CardsOf(p.ans.view) : p \in reqs})
<1>0. DOMAIN marks = {"expired", "overlapped", "gone"}
  BY DEF Typed, Shapes
<1>1. PICK o \in Answers(r) :
        /\ db' = o[2]
        /\ reqs' = reqs \cup
             {[a |-> a, ans |-> o[1], anon |-> IsAnonymous(o[1].as, o[2]),
               issues |-> IssuesToken(r), csrf |-> TokenOf(r), sent |-> r.who,
               calm |-> r.fault # "auth", lost |-> a.hole \notin DOMAIN tab.at]}
        /\ marks' =
             [marks EXCEPT
                !.overlapped = @ \/ (IssuesToken(r) /\ \E q \in reqs \cup other : q.issues),
                !.gone = @ \cup ((AllCards(db) \ AllCards(o[2]))
                                   \cap UNION {CardsOf(q.ans.view) : q \in reqs})]
  BY DEF Sends, Send
<1>2. marks'.gone = marks.gone \cup ((AllCards(db) \ AllCards(o[2]))
                                       \cap UNION {CardsOf(p.ans.view) : p \in reqs})
  BY <1>0, <1>1
<1>3. PICK q : Entry(q, a, r, o)
  <2> DEFINE q == [a |-> a, ans |-> o[1], anon |-> IsAnonymous(o[1].as, o[2]),
                   issues |-> IssuesToken(r), csrf |-> TokenOf(r), sent |-> r.who,
                   calm |-> r.fault # "auth", lost |-> a.hole \notin DOMAIN tab.at]
  <2>1. q.a = a /\ q.ans = o[1] /\ (q.lost <=> a.hole \notin DOMAIN tab.at)
    OBVIOUS
  <2>2. reqs' = reqs \cup {q}
    BY <1>1
  <2> QED
    BY <1>1, <2>1, <2>2 DEF Entry
<1>4. Meant(r, db, o) /\ RowsOK(o[2])
  BY SendMeant DEF Sends
<1> QED
  BY <1>2, <1>3, <1>4

\* So sending keeps the document's invariant.
LEMMA SendDocumented ==
  ASSUME Typed, Documented, NEW a, NEW r, Sends(a, r), Fits(a, r), StillPage
  PROVE  Documented'
<1>0. PICK o \in Answers(r) : \E q : Entry(q, a, r, o) /\ Meant(r, db, o)
  BY SendEntry DEF Fits
<1>1. PICK q : Entry(q, a, r, o) /\ Meant(r, db, o)
  BY <1>0
<1>2. Modest(r, o[1])
  BY <1>1 DEF Meant, Learned
<1>3. q.a = a /\ q.ans = o[1] /\ (q.lost <=> a.hole \notin DOMAIN tab.at) /\ reqs' = reqs \cup {q}
  BY <1>1 DEF Entry
<1>4. Apt(q)
  BY <1>2, <1>3, FitsApt
<1>5. Settled(tab.at, q)
  BY <1>3, <1>4 DEF Settled, Fits
<1>6. \A p \in reqs' : Settled(tab.at, p)
  BY <1>3, <1>5 DEF Documented
<1>7. tab'.at = tab.at /\ tab'.next \in {tab.next, ""}
  BY DEF StillPage
<1>8. tab'.next \notin DemoPaths
  BY <1>7 DEF Documented, DemoPaths
<1>9. Placed(tab'.at) /\ Chained(tab'.at) /\ Agree(tab'.at) /\ \A p \in reqs' : Settled(tab'.at, p)
  BY <1>6, <1>7 DEF Documented
<1> QED
  BY <1>8, <1>9 DEF Documented

-----------------------------------------------------------------------------
(* What a swap makes of the document *)

\* bt is at with something else in h.
Swapped(at, bt, h) ==
  /\ Placed(bt) /\ Chained(bt) /\ Agree(bt)
  /\ DOMAIN at \ DOMAIN Within(at[h]) \subseteq DOMAIN bt
  /\ \A x \in Cards \cup Sentinels : x # h /\ x \in DOMAIN at => x \in DOMAIN bt /\ bt[x] = at[x]
  /\ \A c \in Cards : c \in DOMAIN bt => c \in DOMAIN at

\* What was held and is not replaced still is.
LEMMA SwappedHeld ==
  ASSUME NEW at, NEW bt, NEW h, Swapped(at, bt, h), NEW a, Held(at, a),
         a.hole \notin DOMAIN Within(at[h]), a.hole # h \/ h \notin Cards \cup Sentinels
  PROVE  Held(bt, a)
<1>1. a.hole \in DOMAIN bt
  BY DEF Swapped, Held
<1>2. ASSUME NEW c \in Cards, CardControl(a, c)
      PROVE  c \in DOMAIN bt /\ bt[c] = V("FlashcardCard", {}, {c})
  <2>1. c # h
    BY <1>2, CardControlIs
  <2>2. c \in DOMAIN at /\ at[c] = V("FlashcardCard", {}, {c})
    BY <1>2 DEF Held
  <2> QED
    BY <2>1, <2>2 DEF Swapped
<1>3. ASSUME NEW p \in 1 .. 4, SentinelControl(a, p)
      PROVE  Sentinel(p) \in DOMAIN bt /\ bt[Sentinel(p)] = V("PatternScrollSentinel", {}, {p})
  <2>1. Sentinel(p) # h /\ Sentinel(p) \in Sentinels
    BY <1>3, SentinelControlIs, SentinelsApart
  <2>2. Sentinel(p) \in DOMAIN at /\ at[Sentinel(p)] = V("PatternScrollSentinel", {}, {p})
    BY <1>3 DEF Held
  <2> QED
    BY <2>1, <2>2 DEF Swapped
<1> QED
  BY <1>1, <1>2, <1>3 DEF Held

\* Putting a slight fragment is such a change.
LEMMA SlightSwapped ==
  ASSUME NEW at, Placed(at), Chained(at), Agree(at),
         NEW h \in DOMAIN at, h \notin Sentinels \cup CounterHoles \cup {"page"},
         NEW v, Slight(v), Belongs(h, v)
  PROVE  Swapped(at, Put(at, h, v), h) /\ Put(at, h, v)[h] = v /\ h \in DOMAIN Put(at, h, v)
<1> DEFINE bt == Put(at, h, v)
<1>1. Became(at, h, v, bt)
  BY PutIs
<1>2. Placed(bt) /\ Chained(bt) /\ Agree(bt) /\ SameBut(at, bt, h)
  BY PutSlight
<1> HIDE DEF bt
<1>3. DOMAIN at \ DOMAIN Within(at[h]) \subseteq DOMAIN bt /\ bt[h] = v /\ h \in DOMAIN bt
  BY <1>1 DEF Became
<1>4. \A x \in Cards \cup Sentinels : x # h /\ x \in DOMAIN at => x \in DOMAIN bt /\ bt[x] = at[x]
  BY <1>2 DEF SameBut, Fixed
<1>5. \A c \in Cards : c \in DOMAIN bt => c \in DOMAIN at
  BY <1>2 DEF SameBut, Fixed
<1>6. Swapped(at, bt, h)
  BY <1>2, <1>3, <1>4, <1>5 DEF Swapped
<1> QED
  BY <1>3, <1>6 DEF bt

\* A fragment is slight, but for a page of the list.
LEMMA AptSlight ==
  ASSUME NEW q, Apt(q), q.a.how # "load", q.a.path # ScrollPath
  PROVE  Slight(q.ans.view)
<1>1. /\ Proper(q.ans.view)
      /\ q.ans.view.name # "PatternScrollSentinel"
      /\ q.ans.view.name \notin {"FlashcardsPage", "FlashcardList", "PatternsPage"}
  BY DEF Apt
<1>2. q.ans.view.name # "PatternScrollPage"
  BY DEF Apt
<1> QED
  BY <1>1, <1>2 DEF Slight, ListNames, ScrollNames

\* A swap is one of these.
LEMMA ControlSwapped ==
  ASSUME NEW at, Placed(at), Chained(at), Agree(at),
         NEW q, Apt(q), q.a.how # "load", Swaps(q.ans), Control(q.a), q.a.hole \in DOMAIN at,
         q.ans.view.name # "PatternCounterResponse"
  PROVE  Swapped(at, Put(at, q.a.hole, q.ans.view), q.a.hole)
<1> DEFINE h == q.a.hole
           v == q.ans.view
<1>1. /\ h \notin Cards \cup Sentinels \cup {"page", "oob-total"}
      /\ q.a.path \notin CardActions \cup {ScrollPath, "/patterns"}
      /\ q.a.path = CounterPath <=> h = "oob-counter-btn"
  BY DEF Control
<1>2. q.a.path # CounterPath
  BY DEF Apt
<1>3. h \notin Sentinels \cup CounterHoles \cup {"page"}
  BY <1>1, <1>2 DEF CounterHoles
<1>4. Slight(v)
  BY <1>1, AptSlight
<1>5. v.name # "FlashcardCard"
  BY <1>1 DEF Apt
<1>6. \A p \in 1 .. 4 : h # Sentinel(p)
  BY <1>1, SentinelsApart
<1> HIDE DEF v, h
<1>7. Belongs(h, v)
  BY <1>3, <1>4, <1>5, <1>6 DEF Belongs, Slight, ListNames, ScrollNames
<1>8. Swapped(at, Put(at, h, v), h)
  BY <1>3, <1>4, <1>7, SlightSwapped DEF h
<1> QED
  BY <1>8 DEF h, v

\* A card's form, answered, leaves the card or nothing in its place.
LEMMA CardSwapped ==
  ASSUME NEW at, Placed(at), Chained(at), Agree(at),
         NEW q, Apt(q), q.a.how # "load", NEW c \in Cards, CardControl(q.a, c), c \in DOMAIN at
  PROVE  /\ Swapped(at, Put(at, c, q.ans.view), c)
         /\ Put(at, c, q.ans.view)[c] = q.ans.view
<1> DEFINE v == q.ans.view
<1>1. q.a.of = {c} /\ q.a.path \in CardActions
  BY CardControlIs
<1>2. Slight(v)
  BY <1>1, PathsApart, AptSlight
<1>3. v.name = "FlashcardCard" => v = V("FlashcardCard", {}, {c})
  BY <1>1 DEF Apt
<1>4. /\ c \notin Sentinels \cup CounterHoles \cup {"page"}
      /\ \A p \in 1 .. 4 : c # Sentinel(p)
  <2>1. CounterHoles \subseteq DemoHoles
    BY DEF CounterHoles, DemoHoles
  <2> QED
    BY <2>1, HolesAre, SentinelsApart
<1> HIDE DEF v
<1>5. Belongs(c, v)
  BY <1>2, <1>3, <1>4 DEF Belongs, Slight, ListNames, ScrollNames
<1>6. Swapped(at, Put(at, c, v), c) /\ Put(at, c, v)[c] = v
  BY <1>2, <1>4, <1>5, SlightSwapped
<1> QED
  BY <1>6 DEF v

\* A sentinel becomes its page, ...
LEMMA ScrollSwapped ==
  ASSUME NEW at, Placed(at), Chained(at), Agree(at), NEW p \in 1 .. 4,
         Sentinel(p) \in DOMAIN at, at[Sentinel(p)] = V("PatternScrollSentinel", {}, {p})
  PROVE  Swapped(at, Put(at, Sentinel(p), PatternScroll(p)), Sentinel(p))
<1> DEFINE s == Sentinel(p)
           bt == Put(at, s, PatternScroll(p))
<1>1. /\ Placed(bt) /\ Chained(bt) /\ Agree(bt)
      /\ DOMAIN at \subseteq DOMAIN bt
      /\ \A h \in DOMAIN at \ {s} : bt[h] = at[h]
      /\ \A c \in Cards : c \in DOMAIN bt => c \in DOMAIN at
  BY PutScroll
<1> HIDE DEF bt
<1>2. Swapped(at, bt, s)
  BY <1>1 DEF Swapped
<1> QED
  BY <1>2 DEF bt

\* ... the counter's regions both count on, wherever they are, ...
LEMMA CounterSwapped ==
  ASSUME NEW at, Placed(at), Chained(at), Agree(at), NEW of, NEW h
  PROVE  LET parts == PatternCounterResponse(of) IN
         Swapped(at, [x \in DOMAIN at |-> IF x \in DOMAIN parts THEN parts[x] ELSE at[x]], h)
<1> DEFINE parts == PatternCounterResponse(of)
           bt == [x \in DOMAIN at |-> IF x \in DOMAIN parts THEN parts[x] ELSE at[x]]
<1>1. /\ Placed(bt) /\ Chained(bt) /\ Agree(bt)
      /\ DOMAIN bt = DOMAIN at
      /\ \A x \in DOMAIN at \ CounterHoles : bt[x] = at[x]
  BY PutCounter
<1>2. \A x \in Cards \cup Sentinels : x \notin CounterHoles
  <2>1. CounterHoles \subseteq DemoHoles
    BY DEF CounterHoles, DemoHoles
  <2> QED
    BY <2>1, HolesAre, SentinelsApart DEF Sentinels
<1> HIDE DEF bt
<1>3. Swapped(at, bt, h)
  BY <1>1, <1>2 DEF Swapped
<1> QED
  BY <1>3 DEF bt

\* ... and an answer may come too late for any of it.
LEMMA SameSwapped ==
  ASSUME NEW at, Placed(at), Chained(at), Agree(at), NEW h PROVE Swapped(at, at, h)
BY DEF Swapped

\* What a fragment that arrives does to the document.
LEMMA SwapIs ==
  ASSUME Documented, NEW q \in reqs, q.a.how # "load", ~q.lost, Swaps(q.ans)
  PROVE  /\ Swapped(tab.at, Swap(q), q.a.hole)
         /\ q.a.hole \in Cards \cup Sentinels => Replaces(q.a)
         /\ \A c \in Cards : CardControl(q.a, c) => Swap(q)[c] = q.ans.view
<1> DEFINE at == tab.at
           v == q.ans.view
<1>1. Placed(at) /\ Chained(at) /\ Agree(at) /\ Apt(q) /\ Held(at, q.a)
  BY DEF Documented, Settled
<1>2. Element(q.a)
  BY <1>1 DEF Apt
<1>3. q.a.hole \in DOMAIN at
  BY <1>1 DEF Held
<1>4. CASE Control(q.a)
  <2>1. q.a.hole \notin Cards \cup Sentinels /\ \A c \in Cards : ~CardControl(q.a, c)
    BY <1>4, CardControlIs DEF Control
  <2>2. Swapped(at, Swap(q), q.a.hole)
    <3>1. CASE q.a.how = "append"
      BY <1>1, <3>1, SameSwapped DEF Swap
    <3>2. CASE q.a.how # "append" /\ v.name = "PatternCounterResponse"
      BY <1>1, <3>2, CounterSwapped DEF Swap
    <3>3. CASE q.a.how # "append" /\ v.name # "PatternCounterResponse"
      <4>1. Swap(q) = Put(at, q.a.hole, v)
        BY <1>3, <3>3 DEF Swap
      <4> QED
        BY <1>1, <1>3, <1>4, <3>3, <4>1, ControlSwapped
    <3> QED
      BY <3>1, <3>2, <3>3
  <2> QED
    BY <2>1, <2>2
<1>5. ASSUME NEW c \in Cards, CardControl(q.a, c)
      PROVE  /\ Swapped(tab.at, Swap(q), q.a.hole) /\ Replaces(q.a)
             /\ \A k \in Cards : CardControl(q.a, k) => Swap(q)[k] = q.ans.view
  <2>1. q.a.hole = c /\ q.a.how = "self" /\ q.a.path \in CardActions
    BY <1>5, CardControlIs
  <2>2. v.name # "PatternCounterResponse"
    BY <1>1, <2>1, PathsApart DEF Apt
  <2>3. Swap(q) = Put(at, c, v)
    BY <1>3, <2>1, <2>2 DEF Swap
  <2>4. Swapped(at, Put(at, c, v), c) /\ Put(at, c, v)[c] = v
    BY <1>1, <1>3, <1>5, <2>1, CardSwapped
  <2>5. \A k \in Cards : CardControl(q.a, k) => k = c
    BY <2>1, CardControlIs
  <2> QED
    BY <2>1, <2>3, <2>4, <2>5 DEF Replaces
<1>6. ASSUME NEW p \in 1 .. 4, SentinelControl(q.a, p)
      PROVE  /\ Swapped(tab.at, Swap(q), q.a.hole) /\ Replaces(q.a)
             /\ \A k \in Cards : ~CardControl(q.a, k)
  <2>1. /\ q.a.hole = Sentinel(p) /\ q.a.how = "self" /\ q.a.path = ScrollPath /\ q.a.of = {p}
    BY <1>6, SentinelControlIs
  <2>2. v = PatternScroll(p)
    BY <1>1, <2>1 DEF Apt
  <2>3. v.name # "PatternCounterResponse"
    BY <1>1, <2>1, PathsApart DEF Apt
  <2>4. Swap(q) = Put(at, Sentinel(p), PatternScroll(p))
    BY <1>3, <2>1, <2>2, <2>3 DEF Swap
  <2>5. Sentinel(p) \in DOMAIN at /\ at[Sentinel(p)] = V("PatternScrollSentinel", {}, {p})
    BY <1>1, <1>6 DEF Held
  <2>6. Swapped(at, Put(at, Sentinel(p), PatternScroll(p)), Sentinel(p))
    BY <1>1, <2>5, ScrollSwapped
  <2>7. \A k \in Cards : ~CardControl(q.a, k)
    BY <2>1, CardControlIs, SentinelsApart
  <2> QED
    BY <2>1, <2>4, <2>6, <2>7 DEF Replaces
<1> QED
  BY <1>2, <1>4, <1>5, <1>6 DEF Element

\* A page replaces the document and gives up its requests.
LEMMA LoadKept ==
  ASSUME Documented, NEW q \in reqs, DeliverLoad(q) PROVE Documented'
<1> DEFINE v == q.ans.view
<1>1. Apt(q) /\ q.a.how = "load"
  BY DEF Documented, Settled, DeliverLoad
<1>2. /\ Proper(v) /\ v.name # "PatternScrollSentinel"
      /\ v.name \notin {"FlashcardCard", "PatternScrollPage"}
  BY <1>1 DEF Apt
<1>3. tab'.at = Load(v) /\ tab'.next = "" /\ reqs' = {}
  BY DEF DeliverLoad
<1>4. "" \notin DemoPaths
  BY DEF DemoPaths
<1> HIDE DEF v
<1>5. Placed(Load(v)) /\ Chained(Load(v)) /\ Agree(Load(v))
  BY <1>2, LoadDocumented DEF ScrollNames
<1> QED
  BY <1>3, <1>4, <1>5 DEF Documented

\* A fragment that is swapped in, one that navigates and one that is dropped keep
\* the document's invariant.
LEMMA FragmentKept ==
  ASSUME Shapes, Documented, NEW q \in reqs, DeliverFragment(q) PROVE Documented'
<1>1. /\ q.a.how # "load" /\ Swaps(q.ans) /\ ~q.lost
      /\ tab' = [tab EXCEPT !.at = Swap(q)]
      /\ reqs' = {[p EXCEPT !.lost = Detached(q, p)] : p \in reqs \ {q}}
  BY DEF DeliverFragment
<1>2. tab'.at = Swap(q) /\ tab'.next = tab.next
  BY <1>1 DEF Shapes, TabFields
<1>3. /\ Swapped(tab.at, Swap(q), q.a.hole)
      /\ q.a.hole \in Cards \cup Sentinels => Replaces(q.a)
  BY <1>1, SwapIs
<1>4. ASSUME NEW p \in reqs' PROVE Settled(Swap(q), p)
  <2>1. PICK s \in reqs \ {q} : p = [s EXCEPT !.lost = Detached(q, s)]
    BY <1>1
  <2>2. DOMAIN s = ReqFields
    BY DEF Shapes
  <2>3. p.a = s.a /\ p.ans = s.ans /\ p.lost = Detached(q, s)
    BY <2>1, <2>2 DEF ReqFields
  <2>4. Settled(tab.at, s)
    BY DEF Documented
  <2>5. Apt(p)
    BY <2>3, <2>4 DEF Settled, Apt
  <2>6. ASSUME p.a.how # "load", ~p.lost PROVE Held(Swap(q), p.a)
    <3>1. /\ ~s.lost /\ s.a.hole \notin DOMAIN Within(tab.at[q.a.hole])
          /\ ~(s.a.hole = q.a.hole /\ Replaces(q.a))
      BY <2>3, <2>6 DEF Detached
    <3>2. Held(tab.at, s.a)
      BY <2>3, <2>4, <2>6, <3>1 DEF Settled
    <3>3. Held(Swap(q), s.a)
      BY <1>3, <3>1, <3>2, SwappedHeld
    <3> QED
      BY <2>3, <3>3
  <2> QED
    BY <2>5, <2>6 DEF Settled
<1>5. Placed(Swap(q)) /\ Chained(Swap(q)) /\ Agree(Swap(q))
  BY <1>3 DEF Swapped
<1> QED
  BY <1>2, <1>4, <1>5 DEF Documented

\* So whichever answer arrives, ...
LEMMA DeliverDocumented == ASSUME Shapes, Documented, Deliver PROVE Documented'
<1>1. PICK q \in reqs : DeliverLoad(q) \/ DeliverRedirect(q) \/ DeliverFragment(q) \/ DeliverNothing(q)
  BY DEF Deliver
<1>2. CASE DeliverRedirect(q)
  <2>1. tab'.at = tab.at /\ tab'.next = q.ans.nav /\ reqs' \subseteq reqs
    BY <1>2 DEF DeliverRedirect, Shapes, TabFields
  <2>2. q.ans.nav \notin DemoPaths
    BY DEF Documented, Settled, Apt
  <2> QED
    BY <2>1, <2>2 DEF Documented
<1>3. CASE DeliverNothing(q)
  <2>1. tab' = tab /\ reqs' \subseteq reqs
    BY <1>3 DEF DeliverNothing
  <2> QED
    BY <2>1 DEF Documented
<1> QED
  BY <1>1, <1>2, <1>3, LoadKept, FragmentKept

\* ... from an empty page, ...
LEMMA InitDocumented == ASSUME Init PROVE Documented
<1>1. tab.at = Filled("page", Nothing) /\ tab.next = "" /\ reqs = {}
  BY DEF Init
<1>2. DOMAIN tab.at = {"page"} /\ tab.at["page"] = Nothing
  BY <1>1 DEF Filled
<1>3. \A p \in 1 .. 4 : Sentinel(p) # "page"
  BY SentinelsApart
<1>4. Belongs("page", Nothing)
  BY <1>3 DEF Belongs, Proper, Nothing, V, CardNames, ScrollNames
<1>5. Chained(tab.at)
  <2>1. \A p \in 1 .. 3 : p \in 1 .. 4 /\ p + 1 \in 1 .. 4
    OBVIOUS
  <2> QED
    BY <1>2, <1>3, <2>1 DEF Chained, Shown
<1>6. Agree(tab.at)
  BY <1>2 DEF Agree, CounterHoles
<1>7. tab.next \notin DemoPaths
  BY <1>1 DEF DemoPaths
<1> QED
  BY <1>1, <1>2, <1>4, <1>5, <1>6, <1>7 DEF Documented, Placed

\* ... every step keeps it.
LEMMA StepDocumented == ASSUME Typed, Documented, [Next]_vars PROVE Documented'
<1>0. Shapes
  BY DEF Typed
<1>1. ASSUME NEW a, NEW r, Sends(a, r) /\ Fits(a, r) /\ StillPage PROVE Documented'
  BY <1>1, SendDocumented
<1>2. CASE Click
  BY <1>0, <1>1, <1>2, ClickFits
<1>3. CASE Navigate
  BY <1>0, <1>1, <1>3, NavigateFits
<1>4. CASE Deliver
  BY <1>0, <1>4, DeliverDocumented
<1>5. CASE UNCHANGED <<tab, reqs>>
  BY <1>5 DEF Documented
<1>6. CASE OtherSend
  BY <1>5, <1>6 DEF OtherSend, SendElsewhere
<1>7. CASE OtherDeliver \/ SessionLapses \/ SessionDies \/ CsrfExpires \/ UNCHANGED vars
  BY <1>5, <1>7 DEF OtherDeliver, SessionLapses, SessionDies, CsrfExpires, vars
<1> QED
  BY <1>2, <1>3, <1>4, <1>6, <1>7 DEF Next

\* The document of the tab at any time: every template call where it belongs, the
\* answers under way asked for.
LEMMA TypedDocumented == Spec => [](Typed /\ Documented)
<1>1. (Typed /\ Documented) /\ [Next]_vars => (Typed /\ Documented)'
  BY StepTyped, StepDocumented
<1>2. Init => Typed /\ Documented
  BY InitTyped, InitDocumented
<1> QED
  BY <1>1, <1>2, PTL DEF Spec

\* For any number of cards, tokens, requests in flight and upsets, in whatever
\* order the answers arrive: every variable is of its kind, and what is in a hole
\* of the document is a template call that may stand there (app.js's swaps of the
\* handlers' fragments into the elements the templates write).
THEOREM BrowserTypeOK == Spec => []TypeOK
<1>1. ASSUME Typed, Documented PROVE TypeOK
  BY <1>1, TypedKinds DEF TypeOK, Documented, Placed
<1> QED
  BY <1>1, TypedDocumented, PTL

\* For the same: once the counter has been shown, the button and the total out of
\* band count alike.  PatternsApiCounter answers both in one response, and no
\* other answer writes either (patterns_handlers.go, PatternCounterResponse).
THEOREM BrowserCounterAgrees == Spec => []CounterAgrees
<1>1. ASSUME Documented PROVE CounterAgrees
  BY <1>1 DEF Documented, Agree, CounterHoles, CounterAgrees
<1> QED
  BY <1>1, TypedDocumented, PTL

\* The pages that are shown, by what is in their sentinel's place.
LEMMA PagesAre ==
  ASSUME Placed(tab.at), NEW p \in 1 .. 4
  PROVE  /\ p \in PagesShown <=> Shown(tab.at, p)
         /\ Sentinel(p) \in DOMAIN tab.at /\ p \notin PagesShown =>
              tab.at[Sentinel(p)].name = "PatternScrollSentinel"
<1>1. Sentinel(p) \in DOMAIN tab.at =>
        tab.at[Sentinel(p)] \in {V("PatternScrollSentinel", {}, {p}), PatternScroll(p)}
  BY DEF Placed, Belongs
<1>2. /\ V("PatternScrollSentinel", {}, {p}).name = "PatternScrollSentinel"
      /\ PatternScroll(p).name = "PatternScrollPage"
  BY SentinelNotPage
<1> QED
  BY <1>1, <1>2 DEF PagesShown, Shown

\* For the same: the pages of the endless list are shown one after the other, none
\* twice and none left out, since a page carries the one sentinel that asks for the
\* next, and the answer takes its place (PatternsApiScroll, PatternScrollPage).
THEOREM BrowserScrollInOrder == Spec => []ScrollInOrder
<1>1. ASSUME Documented PROVE ScrollInOrder
  <2>0. Placed(tab.at)
    BY <1>1 DEF Documented
  <2>1. \A p \in 1 .. 3 : Shown(tab.at, p) <=> Sentinel(p + 1) \in DOMAIN tab.at
    BY <1>1 DEF Documented, Chained
  <2>2. ASSUME NEW p \in PagesShown
        PROVE  /\ scrollStart(p) < scrollEnd(p)
               /\ IF p = 1 THEN scrollStart(p) = 0
                  ELSE p - 1 \in PagesShown /\ scrollStart(p) = scrollEnd(p - 1)
    <3>1. p \in 1 .. 4 /\ Sentinel(p) \in DOMAIN tab.at
      BY <2>2 DEF PagesShown
    <3>2. p = 1 \/ p = 2 \/ p = 3 \/ p = 4
      BY <3>1
    <3>3. scrollStart(p) < scrollEnd(p) /\ (p = 1 => scrollStart(p) = 0)
          /\ (p # 1 => scrollStart(p) = scrollEnd(p - 1))
      BY <3>2, ScrollIs
    <3>4. ASSUME p # 1 PROVE p - 1 \in PagesShown
      <4>1. p - 1 \in 1 .. 3 /\ p - 1 \in 1 .. 4 /\ (p - 1) + 1 = p
        BY <3>1, <3>4
      <4>2. Shown(tab.at, p - 1)
        BY <2>1, <3>1, <4>1
      <4> QED
        BY <2>0, <4>1, <4>2, PagesAre
    <3> QED
      BY <3>3, <3>4
  <2>3. ASSUME PagesShown # {},
               ~\E h \in DOMAIN tab.at : tab.at[h].name = "PatternScrollSentinel"
        PROVE  \E p \in PagesShown : scrollEnd(p) = patternStubData
    <3>1. \A p \in 1 .. 3 : p \in PagesShown => p + 1 \in PagesShown
      <4> SUFFICES ASSUME NEW p \in 1 .. 3, p \in PagesShown PROVE p + 1 \in PagesShown
        OBVIOUS
      <4>1. p \in 1 .. 4 /\ p + 1 \in 1 .. 4
        OBVIOUS
      <4>2. Sentinel(p + 1) \in DOMAIN tab.at
        BY <2>0, <2>1, <4>1, PagesAre
      <4> QED
        BY <2>0, <2>3, <4>1, <4>2, PagesAre
    <3>2. PICK p \in 1 .. 4 : p \in PagesShown
      BY <2>3 DEF PagesShown
    <3>3. 4 \in PagesShown
      <4>1. /\ 1 \in PagesShown => 2 \in PagesShown
            /\ 2 \in PagesShown => 3 \in PagesShown
            /\ 3 \in PagesShown => 4 \in PagesShown
        <5>1. 1 + 1 = 2 /\ 2 + 1 = 3 /\ 3 + 1 = 4 /\ 1 \in 1 .. 3 /\ 2 \in 1 .. 3 /\ 3 \in 1 .. 3
          OBVIOUS
        <5> QED
          BY <3>1, <5>1
      <4>2. p = 1 \/ p = 2 \/ p = 3 \/ p = 4
        OBVIOUS
      <4> QED
        BY <3>2, <4>1, <4>2
    <3> QED
      BY <3>3, ScrollIs
  <2> QED
    BY <2>2, <2>3 DEF ScrollInOrder
<1> QED
  BY <1>1, TypedDocumented, PTL

-----------------------------------------------------------------------------
(* The cards that are shown *)

\* A card is shown in the hole that has its name.
LEMMA CardsAre ==
  ASSUME NEW at, Placed(at)
  PROVE  CardsIn(at) = {c \in Cards : c \in DOMAIN at /\ at[c].name = "FlashcardCard"}
<1>1. \A h \in DOMAIN at : at[h].name = "FlashcardCard" => h \in Cards /\ at[h].of = {h}
  BY DEF Placed, Belongs, V
<1> QED
  BY <1>1 DEF CardsIn

\* A card answers or a page brings.
LEMMA LoadCards ==
  ASSUME NEW v, Proper(v), v.name \notin {"FlashcardCard"} \cup ScrollNames
  PROVE  CardsIn(Load(v)) \subseteq CardsOf(v)
<1>1. Placed(Load(v))
  BY LoadDocumented
<1>2. DOMAIN Load(v) = {"page"} \cup DOMAIN Within(v)
  BY LoadIs
<1>3. v.name = "PatternsPage" => DOMAIN Within(v) \subseteq DemoHoles \cup AppHoles
  BY WithinHoles
<1>4. v.name # "PatternsPage" => DOMAIN Within(v) \subseteq Owns(v)
  BY WithinHoles DEF Bare
<1>5. ASSUME NEW c \in CardsIn(Load(v)) PROVE c \in CardsOf(v)
  <2>1. c \in Cards /\ c \in DOMAIN Within(v)
    BY <1>1, <1>2, <1>5, CardsAre, HolesAre
  <2>2. c \notin AppHoles \cup DemoHoles
    BY <2>1, HolesAre
  <2>3. v.name \in ListNames /\ c \in v.of
    BY <1>3, <1>4, <2>1, <2>2 DEF Owns
  <2> QED
    BY <2>3 DEF CardsOf, ListNames
<1> QED
  BY <1>5

\* Nothing but a page brings cards.
LEMMA NoCardWithin ==
  ASSUME NEW at, Placed(at), NEW h \in DOMAIN at, h # "page", NEW c \in Cards
  PROVE  c \notin DOMAIN Within(at[h])
<1> DEFINE v == at[h]
<1>1. Proper(v) /\ v.name \notin {"FlashcardsPage", "FlashcardList", "PatternsPage"}
  BY DEF Placed, Belongs
<1> HIDE DEF v
<1>2. c \notin AppHoles /\ c \notin Sentinels
  BY HolesAre
<1>3. CASE v.name = "PatternScrollPage"
  <2>1. PICK p \in 1 .. 4 : v = PatternScroll(p)
    BY <1>1, <1>3 DEF Proper
  <2>2. \A x \in DOMAIN Within(v) : p < 4 /\ x = Sentinel(p + 1)
    BY <2>1, WithinScroll
  <2>3. p < 4 => Sentinel(p + 1) \notin Cards
    BY SentinelsApart
  <2> QED
    BY <2>2, <2>3 DEF v
<1>4. CASE v.name \in {"FlashcardCard", "PatternScrollSentinel"}
  BY <1>1, <1>2, <1>4, WithinHoles DEF v
<1>5. CASE v.name \notin {"FlashcardCard", "PatternScrollSentinel", "PatternScrollPage"}
  <2>1. v.name \notin {"PatternsPage"} \cup Bare /\ Owns(v) = AppHoles
    BY <1>1, <1>5 DEF Bare, ScrollNames, Owns, ListNames
  <2> QED
    BY <1>1, <1>2, <2>1, WithinHoles DEF v
<1> QED
  BY <1>3, <1>4, <1>5

\* With fewer cards there is less to be wrong about.
LEMMA FewerShown ==
  ASSUME NEW S, NEW u, NEW d, ShownTo(S, u, d), NEW T, T \subseteq S PROVE ShownTo(T, u, d)
BY DEF ShownTo

\* A handler's statements: what was shown is still nobody else's.
LEMMA StillShown ==
  ASSUME NEW r, NEW d, NEW o, Kept(r, d, o), NEW S, NEW u, ShownTo(S, u, d)
  PROVE  ShownTo(S, u, o[2])
<1>1. d.used \subseteq o[2].used /\ \A w \in Accounts : o[2].cards[w] \cap d.used \subseteq d.cards[w]
  BY DEF Kept
<1> QED
  BY <1>1 DEF ShownTo

\* A card its owner loses is nobody's.
LEMMA LostIsGone ==
  ASSUME NEW r, NEW d, RowsOK(d), Owned(d), NEW o, Kept(r, d, o),
         NEW u \in Accounts, NEW c \in d.cards[u], c \notin o[2].cards[u]
  PROVE  c \in AllCards(d) \ AllCards(o[2])
<1>1. c \in d.used
  BY DEF RowsOK
<1>2. ASSUME NEW w \in Accounts, c \in o[2].cards[w] PROVE FALSE
  <2>1. c \in d.cards[w]
    BY <1>1, <1>2 DEF Kept
  <2>2. w # u
    BY <1>2
  <2> QED
    BY <2>1, <2>2 DEF Owned
<1> QED
  BY <1>2 DEF AllCards

\* What an answer under way shows is still its reader's, or marked as gone.
LEMMA StillRightful ==
  ASSUME NEW r, NEW d, RowsOK(d), Owned(d), NEW o, Kept(r, d, o), NEW gone, NEW q, Rightful(q, d, gone),
         NEW after, gone \subseteq after,
         (AllCards(d) \ AllCards(o[2])) \cap CardsOf(q.ans.view) \subseteq after
  PROVE  Rightful(q, o[2], after)
<1> DEFINE S == CardsOf(q.ans.view)
           u == q.ans.as
<1>1. ShownTo(S, u, d) /\ (S # {} => S \subseteq d.cards[u] \cup gone)
  BY DEF Rightful
<1> HIDE DEF S, u
<1>2. ShownTo(S, u, o[2])
  BY <1>1, StillShown
<1>3. ASSUME NEW c \in S PROVE c \in o[2].cards[u] \cup after
  <2>1. u \in Accounts
    BY <1>1, <1>3 DEF ShownTo
  <2>2. CASE c \in gone
    BY <2>2
  <2>3. CASE c \in d.cards[u] /\ c \notin o[2].cards[u]
    <3>1. c \in AllCards(d) \ AllCards(o[2])
      BY <2>1, <2>3, LostIsGone
    <3> QED
      BY <1>3, <3>1 DEF S
  <2> QED
    BY <1>1, <1>3, <2>2, <2>3
<1> QED
  BY <1>2, <1>3 DEF Rightful, S, u

\* A new answer shows its reader's cards.
LEMMA NewRightful ==
  ASSUME NEW r, NEW d, NEW o, Meant(r, d, o), RowsOK(o[2]), Owned(d), NEW q, q.ans = o[1], NEW gone
  PROVE  Rightful(q, o[2], gone)
<1>1. Owned(o[2])
  BY DEF Meant, Learned, Kept
<1>2. ShowsTo(o, o[1].as)
  BY DEF Meant, Learned
<1> DEFINE S == CardsOf(o[1].view)
           u == o[1].as
           e == o[2]
<1>3. S # {} => u \in Accounts /\ S \subseteq e.cards[u]
  BY <1>2 DEF ShowsTo
<1> HIDE DEF S, u, e
<1>4. ShownTo(S, u, e)
  <2>1. S # {} => S \subseteq e.used
    BY <1>3 DEF RowsOK, e
  <2>2. \A w \in Accounts : w # u => S \cap e.cards[w] = {}
    BY <1>1, <1>3 DEF Owned, e
  <2> QED
    BY <1>3, <2>1, <2>2 DEF ShownTo
<1>5. S # {} => S \subseteq e.cards[u] \cup gone
  BY <1>3
<1> QED
  BY <1>4, <1>5 DEF Rightful, S, u, e

\* The only form that deletes is its card's.
LEMMA DeleteIsCard ==
  ASSUME NEW a, Element(a), a.path = flashcardDeleteAction, NEW c, c \in a.of
  PROVE  c \in Cards /\ CardControl(a, c) /\ a.hole = c
<1>1. a.path \in CardActions /\ a.path # ScrollPath
  BY PathsApart DEF CardActions
<1>2. ~Control(a)
  BY <1>1 DEF Control
<1>3. \A p \in 1 .. 4 : ~SentinelControl(a, p)
  BY <1>1, SentinelControlIs
<1>4. PICK k \in Cards : CardControl(a, k)
  BY <1>2, <1>3 DEF Element
<1>5. a.of = {k} /\ a.hole = k
  BY <1>4, CardControlIs
<1> QED
  BY <1>4, <1>5

\* A request of this tab: a card it deletes is on its own form, whose answer will
\* take it out, or on a plain one, whose page replaces the document.
LEMMA SendAccounted ==
  ASSUME Typed, Documented, Accounted, NEW a, NEW r, Sends(a, r), Fits(a, r), StillPage
  PROVE  Accounted'
<1>0. PICK o \in Answers(r) : \E q :
        /\ Entry(q, a, r, o)
        /\ Meant(r, db, o) /\ RowsOK(o[2])
        /\ marks'.gone = marks.gone \cup ((AllCards(db) \ AllCards(o[2]))
                                           \cap UNION {CardsOf(p.ans.view) : p \in reqs})
  BY SendEntry DEF Fits
<1>1. PICK q : /\ Entry(q, a, r, o)
               /\ Meant(r, db, o) /\ RowsOK(o[2])
               /\ marks'.gone = marks.gone \cup ((AllCards(db) \ AllCards(o[2]))
                                                  \cap UNION {CardsOf(p.ans.view) : p \in reqs})
  BY <1>0
<1>2. /\ q.a = a /\ q.ans = o[1] /\ (q.lost <=> a.hole \notin DOMAIN tab.at)
      /\ reqs' = reqs \cup {q} /\ db' = o[2]
  BY <1>1 DEF Entry
<1>3. Kept(r, db, o)
  BY <1>1 DEF Meant, Learned
<1>4. RowsOK(db) /\ Owned(db) /\ tab'.at = tab.at /\ tab'.as = tab.as /\ Placed(tab.at)
  BY DEF Typed, Accounted, StillPage, Documented
<1>5. Owned(db')
  BY <1>2, <1>3, <1>4 DEF Kept
<1>6. ShownTo(CardsIn(tab'.at), tab'.as, db')
  BY <1>2, <1>3, <1>4, StillShown DEF Accounted
<1>7. ASSUME NEW p \in reqs' PROVE Rightful(p, db', marks'.gone)
  <2>1. CASE p = q
    BY <1>1, <1>2, <1>4, <2>1, NewRightful
  <2>2. CASE p \in reqs
    <3>1. Rightful(p, db, marks.gone)
      BY <2>2 DEF Accounted
    <3>2. (AllCards(db) \ AllCards(o[2])) \cap CardsOf(p.ans.view) \subseteq marks'.gone
      BY <1>1, <2>2
    <3>3. marks.gone \subseteq marks'.gone
      BY <1>1
    <3> QED
      BY <1>2, <1>3, <1>4, <3>1, <3>2, <3>3, StillRightful
  <2> QED
    BY <1>2, <2>1, <2>2
<1>8. ASSUME NEW c \in CardsIn(tab.at), tab.as \in Accounts, c \notin db'.cards[tab.as] \cup marks'.gone
      PROVE  \E p \in reqs' : Deleting(p, c)
  <2>1. CASE \E p \in reqs : Deleting(p, c)
    BY <1>2, <2>1
  <2>2. CASE c \in db.cards[tab.as]
    <3>1. c \notin o[2].cards[tab.as]
      BY <1>2, <1>8
    <3>2. r.path = flashcardDeleteAction /\ c \in r.of
      BY <1>3, <1>8, <2>2, <3>1, KeptLost
    <3>3. a.path = flashcardDeleteAction /\ c \in a.of
      BY <3>2 DEF Fits
    <3>4. ASSUME a.how # "load" PROVE Cleanly(o[1]) /\ a.hole \in DOMAIN tab.at
      <4>1. r.htmx /\ Element(a)
        BY <3>4 DEF Fits
      <4>2. Cleanly(o[1])
        BY <1>3, <1>8, <2>2, <3>1, <4>1, KeptShown
      <4>3. a.hole = c
        BY <3>3, <4>1, DeleteIsCard
      <4>4. c \in DOMAIN tab.at
        BY <1>4, <1>8, CardsAre
      <4> QED
        BY <4>2, <4>3, <4>4
    <3>5. Deleting(q, c)
      BY <1>2, <3>3, <3>4 DEF Deleting, Cleanly
    <3> QED
      BY <1>2, <3>5
  <2>3. CASE c \in marks.gone
    BY <1>1, <1>8, <2>3
  <2> QED
    BY <1>8, <2>1, <2>2, <2>3 DEF Accounted
<1> QED
  BY <1>4, <1>5, <1>6, <1>7, <1>8 DEF Accounted

\* One of another tab: what it deletes is marked as gone.
LEMMA OtherSendAccounted ==
  ASSUME Typed, Documented, Accounted, OtherSend PROVE Accounted'
<1>1. PICK a \in OtherRequests : SendElsewhere(a, Request(a, FALSE, TRUE, "none", jar.csrf))
  BY DEF OtherSend
<1> DEFINE r == Request(a, FALSE, TRUE, "none", jar.csrf)
           s == [r EXCEPT !.sent = jar.csrf]
<1>2. s.path = a.path /\ s.htmx = FALSE
  BY DEF Request
<1>3. a.path # ScrollPath
  <2>1. \A path, of : Post(path, of, "", "").path = path /\ Get(path, of, "", "").path = path
    BY DEF Get, Post, Hx
  <2>2. \/ \E path \in {"/", "/learn/quiz"} : a = Get(path, {}, "", "")
        \/ \E path \in {"/auth/login", "/auth/logout", "/learn/upgrade"} : a = Post(path, {}, "", "")
        \/ \E c \in Cards : a = Post(flashcardDeleteAction, {c}, "", "")
    BY DEF OtherRequests
  <2>3. CASE \E path \in {"/", "/learn/quiz"} : a = Get(path, {}, "", "")
    BY <2>1, <2>3 DEF ScrollPath
  <2>4. CASE \E path \in {"/auth/login", "/auth/logout", "/learn/upgrade"} : a = Post(path, {}, "", "")
    BY <2>1, <2>4 DEF ScrollPath
  <2>5. CASE \E c \in Cards : a = Post(flashcardDeleteAction, {c}, "", "")
    <3>1. a.path = flashcardDeleteAction
      BY <2>1, <2>5
    <3> QED
      BY <3>1 DEF ScrollPath, flashcardDeleteAction
  <2> QED
    BY <2>2, <2>3, <2>4, <2>5
<1>4. Asked(s)
  BY <1>2, <1>3 DEF Asked
<1>5. PICK o \in Serve(s, db, site) :
        /\ db' = o[2]
        /\ marks' = [marks EXCEPT
                       !.overlapped = @ \/ (IssuesToken(r) /\ \E q \in reqs : q.issues),
                       !.gone = @ \cup (AllCards(db) \ AllCards(o[2]))]
  BY <1>1 DEF SendElsewhere
<1>6. tab' = tab /\ reqs' = reqs
  BY <1>1 DEF SendElsewhere
<1>7. DOMAIN marks = {"expired", "overlapped", "gone"} /\ RowsOK(db)
  BY DEF Typed, Shapes
<1>8. marks'.gone = marks.gone \cup (AllCards(db) \ AllCards(o[2]))
  BY <1>5, <1>7
<1> HIDE DEF r, s
<1>9. Kept(s, db, o)
  BY <1>4, <1>5, <1>7, ServeMeant DEF Meant, Learned
<1>10. Owned(db)
  BY DEF Accounted
<1>11. Owned(db') /\ ShownTo(CardsIn(tab.at), tab.as, db')
  <2>1. Owned(db')
    BY <1>5, <1>9, <1>10 DEF Kept
  <2>2. ShownTo(CardsIn(tab.at), tab.as, db)
    BY DEF Accounted
  <2> QED
    BY <1>5, <1>9, <2>1, <2>2, StillShown
<1>12. ASSUME NEW p \in reqs PROVE Rightful(p, db', marks'.gone)
  <2>1. Rightful(p, db, marks.gone)
    BY DEF Accounted
  <2>2. /\ (AllCards(db) \ AllCards(o[2])) \cap CardsOf(p.ans.view) \subseteq marks'.gone
        /\ marks.gone \subseteq marks'.gone
    BY <1>8
  <2> QED
    BY <1>5, <1>7, <1>9, <1>10, <2>1, <2>2, StillRightful
<1>13. ASSUME NEW c \in CardsIn(tab.at), tab.as \in Accounts, c \notin db'.cards[tab.as] \cup marks'.gone
       PROVE  \E p \in reqs : Deleting(p, c)
  <2>1. ASSUME c \in db.cards[tab.as] PROVE FALSE
    <3>1. c \in AllCards(db) \ AllCards(o[2])
      BY <1>5, <1>7, <1>9, <1>10, <1>13, <2>1, LostIsGone
    <3> QED
      BY <1>8, <1>13, <3>1
  <2>2. c \notin marks.gone
    BY <1>8, <1>13
  <2> QED
    BY <1>13, <2>1, <2>2 DEF Accounted
<1> QED
  BY <1>6, <1>11, <1>12, <1>13 DEF Accounted

\* A page comes with its reader's cards.
LEMMA LoadAccounted ==
  ASSUME Typed, Documented, Accounted, NEW q \in reqs, db' = db, DeliverLoad(q) PROVE Accounted'
<1> DEFINE v == q.ans.view
           u == q.ans.as
<1>1. Apt(q) /\ q.a.how = "load"
  BY DEF Documented, Settled, DeliverLoad
<1>2. /\ Proper(v) /\ v.name # "PatternScrollSentinel"
      /\ v.name \notin {"FlashcardCard", "PatternScrollPage"}
  BY <1>1 DEF Apt
<1>3. /\ tab'.at = Load(v) /\ tab'.as = u /\ reqs' = {}
      /\ marks'.gone = marks.gone \cap CardsOf(v)
  BY DEF DeliverLoad, Typed, Shapes
<1>4. Rightful(q, db, marks.gone)
  BY DEF Accounted
<1>5. ShownTo(CardsOf(v), u, db) /\ (CardsOf(v) # {} => CardsOf(v) \subseteq db.cards[u] \cup marks.gone)
  BY <1>4 DEF Rightful
<1> HIDE DEF v, u
<1>6. CardsIn(Load(v)) \subseteq CardsOf(v)
  BY <1>2, LoadCards DEF ScrollNames
<1>7. ShownTo(CardsIn(Load(v)), u, db)
  BY <1>5, <1>6, FewerShown
<1>8. \A c \in CardsIn(Load(v)) : c \in db.cards[u] \cup (marks.gone \cap CardsOf(v))
  BY <1>5, <1>6
<1> QED
  BY <1>3, <1>7, <1>8 DEF Accounted

\* An answer that is not swapped in, and that deleted nothing.
LEMMA QuietAccounted ==
  ASSUME Documented, Accounted, NEW q \in reqs, db' = db, marks' = marks, tab'.at = tab.at, tab'.as = tab.as,
         reqs' = reqs \ {q}, \A c : ~Deleting(q, c)
  PROVE  Accounted'
<1>1. \A c : (\E p \in reqs : Deleting(p, c)) => \E p \in reqs' : Deleting(p, c)
  OBVIOUS
<1>2. reqs' \subseteq reqs
  OBVIOUS
<1> QED
  BY <1>1, <1>2 DEF Accounted

\* A fragment: its card's form is answered, and no card comes that was not there.
LEMMA FragmentAccounted ==
  ASSUME Typed, Documented, Accounted, NEW q \in reqs, db' = db, DeliverFragment(q) PROVE Accounted'
<1>1. /\ q.a.how # "load" /\ q.ans.nav = "" /\ Swaps(q.ans) /\ ~q.lost
      /\ tab' = [tab EXCEPT !.at = Swap(q)]
      /\ reqs' = {[p EXCEPT !.lost = Detached(q, p)] : p \in reqs \ {q}}
      /\ marks' = marks
  BY DEF DeliverFragment
<1>2. tab'.at = Swap(q) /\ tab'.as = tab.as
  BY <1>1 DEF Typed, Shapes, TabFields
<1>3. Settled(tab.at, q) /\ Placed(tab.at)
  BY DEF Documented
<1>4. Apt(q) /\ Held(tab.at, q.a)
  BY <1>1, <1>3 DEF Settled
<1>5. Element(q.a)
  BY <1>1, <1>4 DEF Apt
<1>6. /\ Swapped(tab.at, Swap(q), q.a.hole)
      /\ \A c \in Cards : CardControl(q.a, c) => Swap(q)[c] = q.ans.view
  BY <1>1, SwapIs
<1>7. q.a.hole \in DOMAIN tab.at /\ q.a.hole # "page"
      /\ (q.a.hole \in Cards => CardControl(q.a, q.a.hole))
  <2>1. q.a.hole \in DOMAIN tab.at
    BY <1>4 DEF Held
  <2>2. CASE Control(q.a)
    BY <2>1, <2>2 DEF Control
  <2>3. ASSUME NEW c \in Cards, CardControl(q.a, c)
        PROVE  q.a.hole # "page" /\ (q.a.hole \in Cards => CardControl(q.a, q.a.hole))
    <3>1. q.a.hole = c
      BY <2>3, CardControlIs
    <3> QED
      BY <2>3, <3>1, HolesAre
  <2>4. ASSUME NEW p \in 1 .. 4, SentinelControl(q.a, p)
        PROVE  q.a.hole # "page" /\ q.a.hole \notin Cards
    BY <2>4, SentinelControlIs, SentinelsApart
  <2> QED
    BY <1>5, <2>1, <2>2, <2>3, <2>4 DEF Element
<1>8. Placed(Swap(q))
  BY <1>6 DEF Swapped
\* Nothing is shown that was not.
<1>9. CardsIn(Swap(q)) \subseteq CardsIn(tab.at)
  <2> SUFFICES ASSUME NEW c \in CardsIn(Swap(q)) PROVE c \in CardsIn(tab.at)
    OBVIOUS
  <2>1. c \in Cards /\ c \in DOMAIN Swap(q) /\ Swap(q)[c].name = "FlashcardCard"
    BY <1>8, CardsAre
  <2>2. c \in DOMAIN tab.at
    BY <1>6, <2>1 DEF Swapped
  <2>3. CASE c # q.a.hole
    <3>1. tab.at[c].name = "FlashcardCard"
      BY <1>6, <2>1, <2>2, <2>3 DEF Swapped
    <3> QED
      BY <1>3, <2>1, <2>2, <3>1, CardsAre
  <2>4. CASE c = q.a.hole
    <3>1. tab.at[c] = V("FlashcardCard", {}, {c})
      BY <1>4, <1>7, <2>1, <2>4 DEF Held
    <3>2. tab.at[c].name = "FlashcardCard"
      BY <3>1 DEF V
    <3> QED
      BY <1>3, <2>1, <2>2, <3>2, CardsAre
  <2> QED
    BY <2>3, <2>4
\* The card whose form was answered shows what the answer does.
<1>10. ASSUME NEW c \in CardsIn(Swap(q)), CardControl(q.a, c)
       PROVE  tab.as \in Accounts => c \in db.cards[tab.as] \cup marks.gone
  <2>1. c \in Cards /\ Swap(q)[c].name = "FlashcardCard"
    BY <1>8, <1>10, CardsAre
  <2>2. q.ans.view.name = "FlashcardCard" /\ q.a.of = {c}
    BY <1>6, <1>10, <2>1, CardControlIs
  <2>3. q.ans.view = V("FlashcardCard", {}, {c})
    BY <1>1, <1>4, <2>2 DEF Apt
  <2>4. CardsOf(q.ans.view) = {c}
    BY <2>3 DEF CardsOf, V
  <2>5. Rightful(q, db, marks.gone) /\ ShownTo(CardsIn(tab.at), tab.as, db)
    BY DEF Accounted
  <2>6. q.ans.as \in Accounts /\ c \in db.cards[q.ans.as] \cup marks.gone
    BY <2>4, <2>5 DEF Rightful, ShownTo
  <2>7. c \in db.cards[q.ans.as] => q.ans.as = tab.as
    BY <1>9, <1>10, <2>5, <2>6 DEF ShownTo
  <2> QED
    BY <2>6, <2>7
<1>11. ASSUME NEW p \in reqs' PROVE Rightful(p, db, marks.gone)
  <2>1. PICK s \in reqs : p = [s EXCEPT !.lost = Detached(q, s)]
    BY <1>1
  <2>2. DOMAIN s = ReqFields
    BY DEF Typed, Shapes
  <2>3. p.ans = s.ans
    BY <2>1, <2>2 DEF ReqFields
  <2>4. Rightful(s, db, marks.gone)
    BY DEF Accounted
  <2> QED
    BY <2>3, <2>4 DEF Rightful
<1>12. ASSUME NEW c \in CardsIn(Swap(q)), tab.as \in Accounts, c \notin db.cards[tab.as] \cup marks.gone
       PROVE  \E p \in reqs' : Deleting(p, c)
  <2>1. c \in CardsIn(tab.at)
    BY <1>9, <1>12
  <2>2. c \in Cards
    BY <1>3, <2>1, CardsAre
  <2>3. PICK s \in reqs : Deleting(s, c)
    BY <1>12, <2>1 DEF Accounted
  <2>4. ~CardControl(q.a, c)
    BY <1>10, <1>12
  <2>5. s # q
    <3> SUFFICES ASSUME s = q PROVE FALSE
      OBVIOUS
    <3>1. q.a.path = flashcardDeleteAction /\ c \in q.a.of
      BY <2>3 DEF Deleting
    <3> QED
      BY <1>5, <2>4, <3>1, DeleteIsCard
  <2> DEFINE p == [s EXCEPT !.lost = Detached(q, s)]
  <2>6. p \in reqs'
    BY <1>1, <2>5
  <2>7. DOMAIN s = ReqFields
    BY DEF Typed, Shapes
  <2>8. p.a = s.a /\ p.ans = s.ans /\ p.lost = Detached(q, s)
    BY <2>7 DEF ReqFields
  <2> HIDE DEF p
  <2>9. ASSUME s.a.how # "load" PROVE ~p.lost
    <3>1. s.a.path = flashcardDeleteAction /\ c \in s.a.of /\ ~s.lost
      BY <2>3, <2>9 DEF Deleting
    <3>2. Element(s.a)
      BY <2>9 DEF Documented, Settled, Apt
    <3>3. s.a.hole = c
      BY <3>1, <3>2, DeleteIsCard
    <3>4. c # q.a.hole
      BY <1>7, <2>2, <2>4
    <3>5. c \notin DOMAIN Within(tab.at[q.a.hole])
      BY <1>3, <1>7, <2>2, NoCardWithin
    <3> QED
      BY <2>8, <3>1, <3>3, <3>4, <3>5 DEF Detached
  <2>10. Deleting(p, c)
    BY <2>3, <2>8, <2>9 DEF Deleting
  <2> QED
    BY <2>6, <2>10
<1>13. ShownTo(CardsIn(Swap(q)), tab.as, db)
  BY <1>9, FewerShown DEF Accounted
<1> QED
  BY <1>1, <1>2, <1>11, <1>12, <1>13 DEF Accounted

\* So whichever answer arrives, ...
LEMMA DeliverAccounted ==
  ASSUME Typed, Documented, Accounted, Deliver PROVE Accounted'
<1>1. PICK q \in reqs : /\ DeliverLoad(q) \/ DeliverRedirect(q) \/ DeliverFragment(q) \/ DeliverNothing(q)
                        /\ db' = db
  BY DEF Deliver
<1>2. CASE DeliverRedirect(q)
  <2>1. tab'.at = tab.at /\ tab'.as = tab.as /\ reqs' = reqs \ {q} /\ marks' = marks
    BY <1>2 DEF DeliverRedirect, Typed, Shapes, TabFields
  <2>2. \A c : ~Deleting(q, c)
    BY <1>2 DEF DeliverRedirect, Deleting
  <2> QED
    BY <1>1, <2>1, <2>2, QuietAccounted
<1>3. CASE DeliverNothing(q)
  <2>1. tab'.at = tab.at /\ tab'.as = tab.as /\ reqs' = reqs \ {q} /\ marks' = marks
    BY <1>3 DEF DeliverNothing
  <2>2. \A c : ~Deleting(q, c)
    BY <1>3 DEF DeliverNothing, Deleting, Swaps
  <2> QED
    BY <1>1, <2>1, <2>2, QuietAccounted
<1> QED
  BY <1>1, <1>2, <1>3, LoadAccounted, FragmentAccounted

\* ... from no card at all, ...
LEMMA InitAccounted == ASSUME Init PROVE Accounted
<1>1. tab.at = Filled("page", Nothing) /\ reqs = {} /\ \A u \in Accounts : db.cards[u] = {}
  BY DEF Init
<1>2. CardsIn(tab.at) = {}
  <2>1. DOMAIN tab.at = {"page"} /\ tab.at["page"] = Nothing
    BY <1>1 DEF Filled
  <2>2. Nothing.name # "FlashcardCard"
    BY DEF Nothing, V
  <2>3. {x \in DOMAIN tab.at : tab.at[x].name = "FlashcardCard"} = {}
    BY <2>1, <2>2
  <2> QED
    BY <2>3 DEF CardsIn
<1>3. Owned(db)
  BY <1>1 DEF Owned
<1> QED
  BY <1>1, <1>2, <1>3 DEF Accounted, ShownTo

\* ... every step keeps it.
LEMMA StepAccounted == ASSUME Typed, Documented, Accounted, [Next]_vars PROVE Accounted'
<1>0. Shapes
  BY DEF Typed
<1>1. ASSUME NEW a, NEW r, Sends(a, r) /\ Fits(a, r) /\ StillPage PROVE Accounted'
  BY <1>1, SendAccounted
<1>2. CASE Click
  BY <1>0, <1>1, <1>2, ClickFits
<1>3. CASE Navigate
  BY <1>0, <1>1, <1>3, NavigateFits
<1>4. CASE tab' = tab /\ reqs' = reqs /\ db' = db /\ marks'.gone = marks.gone
  BY <1>4 DEF Accounted
<1>5. CASE CsrfExpires
  BY <1>0, <1>4, <1>5 DEF CsrfExpires, Shapes
<1>6. CASE OtherDeliver \/ SessionLapses \/ SessionDies \/ UNCHANGED vars
  BY <1>4, <1>6 DEF OtherDeliver, SessionLapses, SessionDies, vars
<1> QED
  BY <1>2, <1>3, <1>5, <1>6, OtherSendAccounted, DeliverAccounted DEF Next

\* For the same: a card the tab shows is one of its reader's, or was deleted
\* elsewhere since the page was served, or its own form deleted it and the answer
\* that removes it is on its way (FlashcardDelete, hx-swap outerHTML).
THEOREM BrowserCardsExist == Spec => []CardsExist
<1>1. (Typed /\ Documented /\ Accounted) /\ [Next]_vars => (Typed /\ Documented /\ Accounted)'
  BY StepTyped, StepDocumented, StepAccounted
<1>2. Init => Typed /\ Documented /\ Accounted
  BY InitTyped, InitDocumented, InitAccounted
<1>3. ASSUME Accounted PROVE CardsExist
  <2> SUFFICES ASSUME tab.as \in Accounts, NEW c \in CardsIn(tab.at), c \notin db.cards[tab.as] \cup marks.gone
               PROVE  c \in UNION {q.a.of : q \in {p \in reqs : p.a.path = flashcardDeleteAction}}
    BY DEF CardsExist
  <2>1. PICK q \in reqs : Deleting(q, c)
    BY <1>3 DEF Accounted
  <2>2. c \in q.a.of /\ q \in {p \in reqs : p.a.path = flashcardDeleteAction}
    BY <2>1 DEF Deleting
  <2> QED
    BY <2>2
<1> QED
  BY <1>1, <1>2, <1>3, PTL DEF Spec
=============================================================================
