------------------------------- MODULE Browser -------------------------------
(***************************************************************************)
(* One browser tab on the application: the cookie jar it shares with other *)
(* tabs, the page it shows with the fragments swapped into it, and the     *)
(* requests in flight.  The server (module Handlers) answers a request     *)
(* when it is sent; the answer arrives later, in any order with the        *)
(* others, and only then sets cookies and swaps.                           *)
(*                                                                         *)
(* htmx: an HX-Redirect is followed at any status; a body is swapped for a *)
(* 2xx and, by app.js, a 400, 401, 409, 422 or an HTML 429; an element has *)
(* one request at a time; the target is found when the request is sent, so *)
(* an answer for an element replaced meanwhile is lost; a 303 is followed  *)
(* by the browser itself, with the htmx headers.                           *)
(***************************************************************************)
EXTENDS Handlers

CONSTANTS
  MaxToken,    \* CSRF tokens issued
  MaxFlight,   \* requests of the tab in flight at once
  MaxCount,    \* presses of the counter demo
  Budgets,     \* [upsets, sends]: how many faults, lapses and requests of other
               \* tabs a behaviour has, and how many requests this tab sends (see
               \* Endless)
  Sites        \* [js, guestMode, quiz: the questions' topics] to look at

ASSUME BrowserAssumption ==
  MaxToken \in Nat /\ Budgets \subseteq [upsets: Nat, sends: Nat]

\* As many requests as the tab likes.
Endless == 99

VARIABLES
  site,     \* what does not change: one of Sites
  jar,      \* the cookies: [who, csrf]; csrf 0 is no cookie
  issued,   \* how many CSRF tokens were issued
  db,       \* the server's rows (Handlers)
  tab,      \* [at: hole -> template call, as, anon: whom it was served to,
            \*  token: the CSRF token in it, demo: the demo in use]
  reqs,     \* the tab's requests in flight
  other,    \* requests of other tabs in flight
  marks,    \* history: [expired, overlapped, gone]
  left      \* what is left of the budget

vars == <<site, jar, issued, db, tab, reqs, other, marks, left>>

-----------------------------------------------------------------------------
(* The document: "page" is the root; `at` gives what each hole holds.        *)

\* The holes a template call brings with it, two levels deep.
Within(v) ==
  LET one == Render(v).holes IN
  one \uplus Merged({Render(one[h]).holes : h \in DOMAIN one})
Load(v) == Filled("page", v) \uplus Within(v)
Put(at, h, v) ==
  Filled(h, v) \uplus Within(v) \uplus [x \in DOMAIN at \ DOMAIN Within(at[h]) |-> at[x]]

\* The whole document's markup.
Document == Together([h \in DOMAIN tab.at |-> Render(tab.at[h])])
Live == site.js /\ Render(tab.at["page"]).app
CardsIn(at) == UNION {at[h].of : h \in {x \in DOMAIN at : at[x].name = "FlashcardCard"}}

\* A full page swapped into a fragment's place.
Spoiled == \E h \in DOMAIN tab.at \ {"page"} : IsPage(tab.at[h])

-----------------------------------------------------------------------------
(* Requests *)

LoadOf(path, of) == Hx("GET", path, of, "page", "load")

\* The request an element sends: with htmx the token of the page's hx-headers,
\* as a plain form the hidden field.
Request(a, htmx, valid, fault, token) ==
  [verb |-> a.verb, path |-> a.path, of |-> a.of, htmx |-> htmx, valid |-> valid,
   fault |-> fault, who |-> jar.who, cookie |-> jar.csrf,
   sent |-> IF htmx \/ a.field THEN token ELSE 0]

Then(first, second) == [second EXCEPT !.set = IF @ = "keep" THEN first.set ELSE @]
\* A 303 is followed at once: a GET with the cookies the redirect left.
Follow(r, o) ==
  IF o[1].status # 303 THEN {o}
  ELSE LET who == IF o[1].set = "keep" THEN r.who ELSE o[1].set
           next == [r EXCEPT !.verb = "GET", !.path = o[1].to, !.of = {}, !.who = who,
                             !.cookie = IF @ = 0 THEN -1 ELSE @, !.fault = "none"] IN
       {<<Then(o[1], p[1]), p[2]>> : p \in Serve(next, o[2], site)}
Answers(r) == UNION {Follow(r, o) : o \in Serve(r, db, site)}

\* The token the answer is rendered with: the cookie's, or one just issued.
TokenOf(r) == IF IssuesToken(r) THEN issued + 1 ELSE r.cookie

CardsOf(v) == IF v.name \in {"FlashcardsPage", "FlashcardList", "FlashcardCard"} THEN v.of ELSE {}
AllCards(d) == UNION {d.cards[u] : u \in Accounts}

\* Sending: the server has answered, the answer is on its way.
Send(a, r) ==
  /\ r.fault = "none" \/ left.upsets > 0
  /\ left.sends > 0
  /\ IssuesToken(r) => issued < MaxToken
  /\ Cardinality(reqs) < MaxFlight
  /\ ~\E q \in reqs : q.a = a /\ ~q.lost
  /\ left' = [upsets |-> IF r.fault = "none" THEN left.upsets ELSE left.upsets - 1,
               sends  |-> IF left.sends = Endless THEN Endless ELSE left.sends - 1]
  /\ issued' = IF IssuesToken(r) THEN issued + 1 ELSE issued
  /\ \E o \in Answers(r) :
       /\ db' = o[2]
       /\ reqs' = reqs \cup
            {[a |-> a, ans |-> o[1], anon |-> IsAnonymous(o[1].as, o[2]),
              issues |-> IssuesToken(r), csrf |-> TokenOf(r), sent |-> r.who,
              calm |-> r.fault # "auth", lost |-> a.hole \notin DOMAIN tab.at]}
       /\ marks' =
            [marks EXCEPT
               !.overlapped = @ \/ (IssuesToken(r) /\ \E q \in reqs \cup other : q.issues),
               !.gone = @ \cup ((AllCards(db) \ AllCards(o[2]))
                                  \cap UNION {CardsOf(q.ans.view) : q \in reqs})]
  /\ UNCHANGED <<site, jar, other>>

\* Presses of the counter are bounded, and one demo is tried per visit, by
\* visitors without a session (the demos' routes read none).
Bounded(a) ==
  /\ a.path = "/patterns/api/counter" => \A n \in a.of : n < MaxCount
  /\ a.path \in DemoPaths => tab.demo \in {"", a.path} /\ jar.who = "none" /\ db.used = {}

\* A form is submitted or a button pressed, or a trigger (load, every 5s,
\* intersect) fires: with htmx, or natively for a form that has an action.
Click ==
  \E a \in Document.does, valid \in BOOLEAN, fault \in Faults :
    /\ tab.next = ""
    /\ Bounded(a)
    /\ tab' = IF a.path \in DemoPaths THEN [tab EXCEPT !.demo = a.path] ELSE tab
    /\ \/ Live /\ Send(a, Request(a, TRUE, valid, fault, tab.token))
       \/ ~site.js /\ a.plain
            /\ Send([LoadOf(a.path, a.of) EXCEPT !.verb = a.verb],
                    Request(a, FALSE, valid, fault, tab.token))

\* A link, the address bar, or the HX-Redirect an answer asked for.
Entries == {"/", "/auth/reset", "/first-run"}
Navigate ==
  \E path \in IF tab.next # "" THEN {tab.next} ELSE Document.links \cup Entries,
     valid \in BOOLEAN, fault \in Faults :
    \E of \in IF path \in {"/learn/quiz?q", "/learn/quiz?q&topic"}
              THEN {{q} : q \in DOMAIN site.quiz} ELSE {{}} :
      /\ valid \/ path = "/auth/reset"
      /\ ~\E q \in reqs : q.a.how = "load"
      /\ tab' = [tab EXCEPT !.next = ""]
      /\ Send(LoadOf(path, of), Request(LoadOf(path, of), FALSE, valid, fault, 0))

-----------------------------------------------------------------------------
(* Answers arriving *)

CookiesAfter(q) ==
  [who  |-> IF q.ans.set = "keep" THEN jar.who ELSE q.ans.set,
   csrf |-> IF q.issues THEN q.csrf ELSE jar.csrf]

Swaps(ans) ==
  \/ ans.status \in {200, 400, 401, 409, 422}
  \/ ans.status = 429 /\ ans.view.name # "text"
Replaces(a) == a.how \in {"self", "outer"}

\* The fragment takes its place; an answer of two regions takes both (neither
\* brings holes of its own).
Swap(q) ==
  LET v == q.ans.view IN
  IF q.a.how = "append" THEN tab.at
  ELSE IF v.name = "PatternCounterResponse"
  THEN LET parts == PatternCounterResponse(v.of) IN
       [x \in DOMAIN tab.at |-> IF x \in DOMAIN parts THEN parts[x] ELSE tab.at[x]]
  ELSE IF q.a.hole \in DOMAIN tab.at THEN Put(tab.at, q.a.hole, v)
  ELSE tab.at

\* Requests whose target the swap took out of the document.
Detached(q, p) ==
  p.lost \/ p.a.hole \in DOMAIN Within(tab.at[q.a.hole])
         \/ (p.a.hole = q.a.hole /\ Replaces(q.a))

DeliverLoad(q) ==
  /\ q.a.how = "load"
  /\ tab' = [at |-> Load(q.ans.view), as |-> q.ans.as, anon |-> q.anon,
             token |-> q.csrf, demo |-> "", next |-> ""]
  /\ reqs' = {}
  /\ marks' = IF jar'.csrf = q.csrf /\ ~\E p \in other : p.issues
              THEN [expired |-> FALSE, overlapped |-> FALSE, gone |-> marks.gone \cap CardsOf(q.ans.view)]
              ELSE [marks EXCEPT !.gone = @ \cap CardsOf(q.ans.view)]

DeliverRedirect(q) ==
  /\ q.a.how # "load" /\ q.ans.nav # ""
  /\ tab' = [tab EXCEPT !.next = q.ans.nav]
  /\ reqs' = reqs \ {q}
  /\ UNCHANGED marks

DeliverFragment(q) ==
  /\ q.a.how # "load" /\ q.ans.nav = "" /\ Swaps(q.ans) /\ ~q.lost
  /\ tab' = [tab EXCEPT !.at = Swap(q)]
  /\ reqs' = {[p EXCEPT !.lost = Detached(q, p)] : p \in reqs \ {q}}
  /\ UNCHANGED marks

DeliverNothing(q) ==
  /\ q.a.how # "load" /\ q.ans.nav = "" /\ (~Swaps(q.ans) \/ q.lost)
  /\ reqs' = reqs \ {q}
  /\ UNCHANGED <<tab, marks>>

Deliver ==
  \E q \in reqs :
    /\ jar' = CookiesAfter(q)
    /\ DeliverLoad(q) \/ DeliverRedirect(q) \/ DeliverFragment(q) \/ DeliverNothing(q)
    /\ UNCHANGED <<site, issued, db, other, left>>

-----------------------------------------------------------------------------
(* Other tabs, and time *)

Upset == left.upsets > 0 /\ left' = [left EXCEPT !.upsets = @ - 1]

OtherRequests ==
  {Get("/", {}, "", ""), Get("/learn/quiz", {}, "", ""), Post("/auth/login", {}, "", ""),
   Post("/auth/logout", {}, "", ""), Post("/learn/upgrade", {}, "", "")}
    \cup {Post(flashcardDeleteAction, {c}, "", "") : c \in Cards}

\* Another tab, whose page is up to date, sends a request.
SendElsewhere(a, r) ==
  /\ Upset
  /\ other = {}
  /\ a.verb = "POST" => jar.csrf # 0
  /\ IssuesToken(r) => issued < MaxToken
  /\ issued' = IF IssuesToken(r) THEN issued + 1 ELSE issued
  /\ \E o \in Serve([r EXCEPT !.sent = jar.csrf], db, site) :
       /\ o[1].status # 404
       /\ db' = o[2]
       /\ other' = {[ans |-> o[1], a |-> a, issues |-> IssuesToken(r), csrf |-> TokenOf(r),
                     sent |-> r.who, calm |-> TRUE]}
       /\ marks' =
            [marks EXCEPT
               !.overlapped = @ \/ (IssuesToken(r) /\ \E q \in reqs : q.issues),
               !.gone = @ \cup (AllCards(db) \ AllCards(o[2]))]
  /\ UNCHANGED <<site, jar, tab, reqs>>
OtherSend ==
  \E a \in OtherRequests : SendElsewhere(a, Request(a, FALSE, TRUE, "none", jar.csrf))
OtherDeliver ==
  \E q \in other :
    /\ jar' = CookiesAfter(q)
    /\ other' = {}
    /\ UNCHANGED <<site, issued, db, tab, reqs, marks, left>>

\* The access cookie outlives its Max-Age, or GoTrue ends the session it stands for.
SessionLapses ==
  /\ Upset /\ jar.who # "none"
  /\ jar' = [jar EXCEPT !.who = "none"]
  /\ UNCHANGED <<site, issued, db, tab, reqs, other, marks>>
SessionDies ==
  /\ Upset /\ jar.who \in Accounts
  /\ jar' = [jar EXCEPT !.who = "dead"]
  /\ UNCHANGED <<site, issued, db, tab, reqs, other, marks>>
CsrfExpires ==
  /\ Upset /\ jar.csrf # 0
  /\ jar' = [jar EXCEPT !.csrf = 0]
  /\ marks' = [marks EXCEPT !.expired = TRUE]
  /\ UNCHANGED <<site, issued, db, tab, reqs, other>>

Init ==
  /\ site \in Sites
  /\ jar = [who |-> "none", csrf |-> 0]
  /\ issued = 0
  /\ db = [cards |-> [u \in Accounts |-> {}], used |-> {}, guests |-> 0, promoted |-> {}]
  /\ tab = [at |-> Filled("page", Nothing), as |-> "any", anon |-> FALSE, token |-> 0,
            demo |-> "", next |-> ""]
  /\ reqs = {}
  /\ other = {}
  /\ marks = [expired |-> FALSE, overlapped |-> FALSE, gone |-> {}]
  /\ left \in Budgets

Next ==
  \/ Click
  \/ Navigate
  \/ Deliver
  \/ OtherSend
  \/ OtherDeliver
  \/ SessionLapses
  \/ SessionDies
  \/ CsrfExpires

Spec == Init /\ [][Next]_vars

-----------------------------------------------------------------------------
(* Properties *)

\* Cookies stand for accounts that exist, cards are rows that were created, tokens
\* were issued, no answer is left a redirect.
Kinds ==
  /\ jar.who \in {"none", "dead", "user"} \cup {Guest(n) : n \in 1 .. db.guests}
  /\ jar.csrf \in 0 .. issued /\ issued \in 0 .. MaxToken /\ tab.token \in 0 .. issued
  /\ \A u \in Accounts : db.cards[u] \subseteq db.used
  /\ db.used \subseteq Cards /\ db.promoted \subseteq Guests
  /\ \A q \in reqs : q.ans.status # 303 /\ q.ans.set \in {"keep"} \cup Sessions
  /\ left.upsets \in Nat /\ left.sends \in Nat

\* Every variable holds a value of its kind, and the document keeps its root.
TypeOK == Kinds /\ "page" \in DOMAIN tab.at

\* Every id an hx-target names is in the document, and no id is there twice,
\* whatever fragments were swapped in (no full page among them).
TargetsExist ==
  Live /\ ~Spoiled =>
    LET doc == Document IN
    /\ \A a \in doc.does : ById(a) => a.hole \in doc.ids
    /\ doc.twice = {}

\* The tab and the cookies agree on who is signed in, as what, and on the token.
InStep ==
  /\ tab.token = jar.csrf
  /\ \/ tab.as = "any"
     \/ tab.as = jar.who /\ tab.anon = IsAnonymous(jar.who, db)
CardThere(a) == a.path = flashcardKnownAction => a.of \subseteq db.cards[jar.who]

\* In a tab in step with its cookies whatever is offered works: to htmx every
\* answer is a fragment that is swapped (or a redirect it follows), with status
\* 200 for valid input, never a page; to a browser without JavaScript a form
\* that has an action answers with a page or a redirect.  Logging out without
\* JavaScript (a blank page) and a save offer refused (a bare fragment) are the
\* exceptions.
AffordancesWork ==
  InStep /\ ~Spoiled =>
    \A a \in Document.does, valid \in BOOLEAN :
      /\ Live /\ CardThere(a) =>
           \A o \in Answers(Request(a, TRUE, valid, "none", tab.token)) :
             /\ ~IsPage(o[1].view)
             /\ Swaps(o[1])
             /\ valid => o[1].status \in {200, 429}
      /\ ~site.js /\ a.plain /\ a.verb = "POST" /\ a.path # "/auth/logout" /\ CardThere(a) =>
           \A o \in Answers(Request(a, FALSE, valid, "none", tab.token)) :
             (valid \/ a.path # "/learn/flashcards") => IsPage(o[1].view)

\* A card shown as the signed-in account's has its row, except one deleted in
\* another tab or while an answer that shows it was still on its way.
CardsExist ==
  tab.as \in Accounts =>
    CardsIn(tab.at) \subseteq
      db.cards[tab.as] \cup marks.gone
        \cup UNION {q.a.of : q \in {p \in reqs : p.a.path = flashcardDeleteAction}}

\* The token in the page, if it has one (a refusal of the global limiter has none),
\* is the cookie's, unless the cookie expired since or two first requests
\* overlapped, each getting a token of its own.
TokenKept == tab.token \notin {0, jar.csrf} => marks.expired \/ marks.overlapped

\* The infinite list shows the items from the first on, in order, none twice and
\* none skipped; without a sentinel left it shows them all.
PagesShown == {p \in 1 .. 4 : Sentinel(p) \in DOMAIN tab.at
                               /\ tab.at[Sentinel(p)].name = "PatternScrollPage"}
ScrollInOrder ==
  /\ \A p \in PagesShown :
       /\ scrollStart(p) < scrollEnd(p)
       /\ IF p = 1 THEN scrollStart(p) = 0
          ELSE p - 1 \in PagesShown /\ scrollStart(p) = scrollEnd(p - 1)
  /\ PagesShown # {} /\ (~\E h \in DOMAIN tab.at : tab.at[h].name = "PatternScrollSentinel")
       => \E p \in PagesShown : scrollEnd(p) = patternStubData

\* The counter's button and its badge, two regions of one answer, agree.
CounterAgrees ==
  {"oob-counter-btn", "oob-total"} \subseteq DOMAIN tab.at =>
    tab.at["oob-counter-btn"].of = tab.at["oob-total"].of

\* An answer takes the browser's session away, or replaces it, only if it signs
\* in or out, or was asked for under other cookies, or GoTrue refused the token.
SessionTaken ==
  [][\A q \in (reqs \ reqs') \cup (other \ other') :
       jar.who \in Accounts /\ jar' = CookiesAfter(q) /\ jar'.who # jar.who =>
         q.sent # jar.who \/ ~q.calm
           \/ q.a.path \in {"/auth/login", "/auth/logout", "/auth/reset"}]_vars

\* What the login redirect is for: no full page is ever put in a fragment's place.
NoPageInFragment == ~Spoiled
=============================================================================
