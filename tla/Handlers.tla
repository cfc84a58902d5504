------------------------------ MODULE Handlers ------------------------------
(***************************************************************************)
(* The server as one browser sees it: what the routes answer to a request, *)
(* through the middleware of each group, and what they change in the       *)
(* database.                                                               *)
(*                                                                         *)
(* A request r carries the verb and path, `of` (the card, question, page   *)
(* number it is about), whether htmx sent it, the identity behind its      *)
(* session cookie (who) and its two CSRF tokens (cookie and sent), whether *)
(* its input is valid, and the fault it meets.  db.cards are the flashcard *)
(* rows by owner, db.used the cards ever created, db.guests how many guest *)
(* accounts exist and db.promoted those upgraded to registered ones.       *)
(***************************************************************************)
EXTENDS Showcase

CONSTANTS Cards, MaxGuests

\* The holes besides the cards: a card is a hole of its own (its forms go to the list
\* item they are in, flashcard.templ's closest li), and none of these.
Regions ==
  {"page", "body", "first-run-steps", "auth-messages", "profile-form", "password-form",
   "upgrade-card", "quiz-card", "save-offer", "isolation-result", "widget-quiz",
   "widget-flashcards", "swap-demo", "search-results", "edit", "favorite",
   "typeahead-results", "toast-demo-status", "skeleton", "tab-demo-panel",
   "bulk-demo-result", "polling", "oob-counter-btn", "oob-total", "confirm-demo-target",
   "vt-card", "limit-log", "slow-out", "sentinel-1", "sentinel-2", "sentinel-3",
   "sentinel-4"}
ASSUME CardAssumption == Cards \cap Regions = {}
ASSUME GuestAssumption == MaxGuests \in 0 .. 3    \* the guests that have a name

Guest(n) == <<"guest1", "guest2", "guest3">>[n]
Guests == {Guest(n) : n \in 1 .. MaxGuests}
Accounts == Guests \cup {"user"}
\* What a session cookie may stand for: "dead" is a token GoTrue refuses.
Sessions == Accounts \cup {"none", "dead"}
Faults == {"none", "auth", "db", "limit", "tier"}

IsAnonymous(who, db) == who \in Guests \ db.promoted

-----------------------------------------------------------------------------
(* Answers: a status with a body (a template call), the target of a redirect,  *)
(* or an HX-Redirect header; `set` is the session cookie it leaves the browser *)
(* with ("keep" when it sets none), `as` the identity the handler saw.         *)

Show(status, v) ==
  [status |-> status, view |-> v, to |-> "", nav |-> "", set |-> "keep", as |-> "any"]
SeeOther(path) == [Show(303, Nothing) EXCEPT !.to = path]
SetHXRedirect(status, path) == [Show(status, Nothing) EXCEPT !.nav = path]
Error(status) == Show(status, V("text", {}, {}))
Empty == Show(200, Nothing)

\* The pages: every template that starts from Base.
Pages == {"AuthPage", "RecoverPage", "ResetPage", "LogoutPage", "ProfilePage", "UpgradePage",
          "QuizPage", "FlashcardsPage", "DashboardPage", "HomePage", "PatternsPage",
          "TermsPage", "PrivacyPage"}
IsPage(v) == v.name \in Pages

\* Handlers return a set of <<answer, database after it>>.
Reply(a, db) == {<<a, db>>}

-----------------------------------------------------------------------------
(* Quiz.  site.quiz gives each question's topic, in display order.           *)

quizRun(site, q, flags) ==
  IF "topic" \in flags
  THEN SelectSeq([i \in DOMAIN site.quiz |-> i], LAMBDA i : site.quiz[i] = site.quiz[q])
  ELSE [i \in DOMAIN site.quiz |-> i]

\* A card or result as the quiz shows it: the fragment to htmx, else the page.
Quiz(r, u, db, status, name, flags, of, banner) ==
  Show(status, IF r.htmx THEN V(name, flags, of)
               ELSE V("QuizPage", flags \cup {name}
                        \cup (IF banner /\ IsAnonymous(u, db) THEN {"banner"} ELSE {}), of))

TopicOf(r) == IF r.path \in {"/learn/quiz?topic", "/learn/quiz?q&topic", "/learn/quiz/{slug}/answer?topic"}
              THEN {"topic"} ELSE {}

\* Without ?q: the first question, or for a topic one the user has yet to try.
quizPage(r, u, db, site) ==
  IF u = "none" THEN Reply(Quiz(r, u, db, 200, "QuizTeaser", {}, {}, FALSE), db)
  ELSE IF r.fault = "db" THEN Reply(Error(500), db)
  ELSE IF site.quiz = <<>> THEN Reply(Quiz(r, u, db, 200, "QuizEmptyState", {}, {}, FALSE), db)
  ELSE LET asked == CASE r.of # {}                    -> r.of
                      [] r.path = "/learn/quiz?topic" -> DOMAIN site.quiz
                      [] OTHER                        -> {1} IN
       {<<Quiz(r, u, db, 200, "QuizQuestionCard", TopicOf(r), {q}, TRUE), db>> : q \in asked}

\* A choice out of range is refused with the card again; the answer's result
\* names the next question of the run, and offers a wrong one as a flashcard.
quizAnswer(r, u, db, site) ==
  IF u = "none" THEN Reply(SeeOther("/auth/page"), db)
  ELSE IF r.fault = "db" THEN Reply(Error(500), db)
  ELSE IF ~r.valid
  THEN Reply(Quiz(r, u, db, 422, "QuizQuestionCard", TopicOf(r), r.of, FALSE), db)
  ELSE LET q    == CHOOSE i \in r.of : TRUE
           run  == quizRun(site, q, TopicOf(r))
           next == {i \in Range(run) : i > q}
           flags == TopicOf(r) \cup (IF next = {} THEN {"done"} ELSE {}) IN
       {<<Quiz(r, u, db, 200, "QuizResult", flags \cup offer,
               IF next = {} THEN {} ELSE {Min(next)}, FALSE), db>> : offer \in {{}, {"offer"}}}

-----------------------------------------------------------------------------
(* Flashcards *)

flashcardsPage(r, u, db) ==
  IF u = "none"
  THEN Reply(Show(200, V(IF r.htmx THEN "FlashcardsTeaser" ELSE "FlashcardsPage",
                         IF r.htmx THEN {} ELSE {"teaser"}, {})), db)
  ELSE IF r.fault = "db" THEN Reply(Error(500), db)
  ELSE LET ran == IF r.path = "/learn/flashcards?check=1" /\ db.cards[u] # {} THEN {"ran"} ELSE {} IN
       Reply(Show(200, IF r.htmx THEN V("FlashcardList", {}, db.cards[u])
                       ELSE V("FlashcardsPage",
                              ran \cup (IF IsAnonymous(u, db) THEN {"banner"} ELSE {}),
                              db.cards[u])), db)

AfterWrite(r, v) == IF r.htmx THEN Show(200, v) ELSE SeeOther("/learn/flashcards")

\* Cards bounds how many are ever created: no answer once they are used up.
flashcardCreate(r, u, db) ==
  IF u = "none" THEN Reply(SeeOther("/auth/page"), db)
  ELSE IF ~r.valid THEN Reply(Show(422, V("FlashcardSaveError", {}, {})), db)
  ELSE IF r.fault = "db" THEN Reply(Error(500), db)
  ELSE {<<AfterWrite(r, V("FlashcardSaved", {}, {})),
          [db EXCEPT !.cards[u] = @ \cup {c}, !.used = @ \cup {c}]>> : c \in Cards \ db.used}

\* Row Level Security hides every card but the requester's own.
flashcardSetKnown(r, u, db) ==
  IF u = "none" THEN Reply(SeeOther("/auth/page"), db)
  ELSE IF r.fault = "db" THEN Reply(Error(500), db)
  ELSE IF ~(r.of \subseteq db.cards[u]) THEN Reply(Error(404), db)
  ELSE Reply(AfterWrite(r, V("FlashcardCard", {}, r.of)), db)

\* Mutant: nothing to show is a 204, which htmx does not swap.
DeleteNoContent(r, u, db) ==
  Reply(IF r.htmx THEN Error(204) ELSE SeeOther("/learn/flashcards"),
        [db EXCEPT !.cards[u] = @ \ r.of])

flashcardDelete(r, u, db) ==
  IF u = "none" THEN Reply(SeeOther("/auth/page"), db)
  ELSE IF r.fault = "db" THEN Reply(Error(500), db)
  ELSE Reply(AfterWrite(r, Nothing), [db EXCEPT !.cards[u] = @ \ r.of])

flashcardIsolation(r, u, db) ==
  IF u = "none" THEN Reply(SeeOther("/auth/page"), db)
  ELSE IF ~r.htmx THEN Reply(SeeOther("/learn/flashcards?check=1"), db)
  ELSE IF r.fault = "db" THEN Reply(Error(500), db)
  ELSE Reply(Show(200, V("IsolationResult", {}, {})), db)

-----------------------------------------------------------------------------
(* Dashboard *)

DashboardPage_(u, db) ==
  Show(200, V("DashboardPage", IF u = "none" THEN {"teaser"}
                               ELSE IF IsAnonymous(u, db) THEN {"banner"} ELSE {}, {}))
dashboardQuizWidget(r, u, db) ==
  IF u = "none" THEN Reply(Show(200, V("DashboardTeaser", {}, {})), db)
  ELSE IF r.fault = "db" THEN Reply(Error(500), db)
  ELSE {<<Show(200, V("QuizProgressWidget", attempted, {})), db>> : attempted \in {{}, {"some"}}}
dashboardFlashcardWidget(r, u, db) ==
  IF u = "none" THEN Reply(Show(200, V("DashboardTeaser", {}, {})), db)
  ELSE IF r.fault = "db" THEN Reply(Error(500), db)
  ELSE Reply(Show(200, V("FlashcardProgressWidget",
                         IF db.cards[u] = {} THEN {} ELSE {"some"}, {})), db)

-----------------------------------------------------------------------------
(* Upgrade *)

UpgradePage_(u, db) ==
  IF u = "none" THEN SeeOther("/auth/page")
  ELSE Show(200, V("UpgradePage", IF IsAnonymous(u, db) THEN {} ELSE {"registered"}, {}))

renderUpgradeForm(r, status, flags) ==
  Show(status, V(IF r.htmx THEN "UpgradeForm" ELSE "UpgradePage", flags, {}))

\* The identity stays the same account: its row is promoted and its session
\* refreshed.  Both are best effort; what a missed one leads to, and how the
\* loader heals it, is in GuestLifecycle.
UpgradeSubmit(r, u, db) ==
  IF u = "none" THEN Reply(SeeOther("/auth/page"), db)
  ELSE IF ~IsAnonymous(u, db) THEN Reply(Show(200, V("UpgradePage", {"registered"}, {})), db)
  ELSE IF ~r.valid THEN Reply(renderUpgradeForm(r, 422, {}), db)
  ELSE Reply([renderUpgradeForm(r, 200, {"success"}) EXCEPT !.set = u],
             [db EXCEPT !.promoted = @ \cup {u}])

-----------------------------------------------------------------------------
(* Profile and first run *)

profilePage(u, db) ==
  V("ProfilePage", IF IsAnonymous(u, db) THEN {"guest"} ELSE {}, {})
\* Mutant: after saving everybody is redirected, htmx too.
ProfileRedirect(r, u, db) ==
  IF ~r.valid
  THEN Show(422, IF r.htmx THEN V("ProfileForm", {}, {}) ELSE profilePage(u, db))
  ELSE IF r.fault = "db" THEN Error(500)
  ELSE SeeOther("/profile")

ProfileUpdate(r, u, db) ==
  IF ~r.valid
  THEN Show(422, IF r.htmx THEN V("ProfileForm", {}, {}) ELSE profilePage(u, db))
  ELSE IF r.fault = "db" THEN Error(500)
  ELSE IF r.htmx THEN Show(200, V("ProfileForm", {}, {})) ELSE SeeOther("/profile")

renderPasswordForm(r, u, db, status) ==
  Show(status, IF r.htmx THEN V("PasswordForm", {}, {}) ELSE profilePage(u, db))
ProfilePasswordUpdate(r, u, db) ==
  IF IsAnonymous(u, db) THEN renderPasswordForm(r, u, db, 403)
  ELSE IF ~r.valid THEN renderPasswordForm(r, u, db, 422)
  ELSE IF r.htmx THEN renderPasswordForm(r, u, db, 200) ELSE SeeOther("/profile")

ShowFirstRunWelcome == Show(200, V("FirstRunExperience", {}, {}))
ShowFirstRunProfile == Show(200, V("FirstRunExperience", {"profile"}, {}))
ShowFirstRunCTAs(r) ==
  IF r.fault = "db" THEN Show(500, V("FirstRunExperience", {"ctas"}, {}))
  ELSE SeeOther("/dashboard")

-----------------------------------------------------------------------------
(* Signing in and out.  The registered account is "user".                    *)

authFeedback(status) == Show(status, V("AuthMessage", {}, {}))
SetSession(a, who) == [a EXCEPT !.set = who]

\* Empty fields are a 400, credentials GoTrue refuses (or no GoTrue) a 401.
AuthLoginPost(r) ==
  IF ~r.valid THEN {authFeedback(400), authFeedback(401)}
  ELSE IF r.fault = "auth" THEN {authFeedback(401)}
  ELSE {SetSession(SetHXRedirect(200, "/profile"), "user")}
AuthSignupPost(r) ==
  IF ~r.valid THEN {authFeedback(400), authFeedback(409)}
  ELSE {authFeedback(IF r.fault = "auth" THEN 409 ELSE 200)}
\* Always succeeds, whatever GoTrue says, and clears the cookies.
AuthLogoutPost == {SetSession(SetHXRedirect(200, "/auth/page"), "none")}
\* The same answer whether or not the address has an account.
AuthRecoverPost(r) == {authFeedback(IF r.valid THEN 200 ELSE 400)}
\* The link's token is exchanged for a session at once (r.valid: it has one).
AuthResetPage(r) ==
  {IF r.valid /\ r.fault # "auth"
   THEN [Show(200, V("ResetPage", {"valid"}, {})) EXCEPT !.set = "user", !.as = "user"]
   ELSE Show(200, V("ResetPage", {}, {}))}
AuthResetPost(r) ==
  IF r.who = "none" THEN {authFeedback(401)}
  ELSE IF ~r.valid THEN {authFeedback(400), authFeedback(422)}
  ELSE IF r.fault = "auth" \/ r.who = "dead" THEN {authFeedback(422)}
  ELSE {SetHXRedirect(200, "/profile")}

-----------------------------------------------------------------------------
(* Middleware *)

\* A failed check of the access token clears the cookies (OptionalAuth then
\* goes on without identity, AuthMiddleware sends the requester to the login).
validateSession(r, who) == who \in Accounts /\ r.fault # "auth"
Cleared(a, who) == IF who = "none" \/ a.set # "keep" THEN a ELSE [a EXCEPT !.set = "none"]
\* Mutant: the login is looked for on the profile.
ToProfile(r) == IF r.htmx THEN SetHXRedirect(401, "/profile") ELSE SeeOther("/profile")

toLogin(r) == IF r.htmx THEN SetHXRedirect(401, "/auth/page") ELSE SeeOther("/auth/page")

Identified(outcomes, u) == {<<[o[1] EXCEPT !.as = u], o[2]>> : o \in outcomes}

\* A verb the path has no route for is a 405, here and in the groups below.
protectedRoutes(r, u, db) ==
  CASE r.path = "/profile" /\ r.verb = "GET"  -> Reply(Show(200, profilePage(u, db)), db)
    [] r.path = "/profile" /\ r.verb = "POST" -> Reply(ProfileUpdate(r, u, db), db)
    [] r.path = "/profile/password"  -> Reply(ProfilePasswordUpdate(r, u, db), db)
    [] r.path = "/first-run"         -> Reply(ShowFirstRunWelcome, db)
    [] r.path = "/first-run/profile" -> Reply(ShowFirstRunProfile, db)
    [] r.path = "/first-run/ctas"    -> Reply(ShowFirstRunCTAs(r), db)
    [] OTHER                         -> Reply(Error(405), db)
ProtectedPaths == {"/profile", "/profile/password", "/first-run", "/first-run/profile", "/first-run/ctas"}

\* resolveUser cannot read (or provision, or heal) the users row.
LoaderFails(r, db) == IF r.fault = "db" THEN Reply(Error(500), db) ELSE {}

\* AuthMiddleware, then UserLoader, then the strict tier of the password route.
AuthMiddleware(r, db) ==
  IF ~validateSession(r, r.who)
  THEN Identified(Reply(Cleared(toLogin(r), r.who), db), "none")
  ELSE LET admitted == IF r.fault = "tier" /\ r.path = "/profile/password"
                       THEN Reply(Error(429), db)
                       ELSE protectedRoutes(r, r.who, db) IN
       Identified(admitted \cup LoaderFails(r, db), r.who)

learnRoutes(r, u, db, site) ==
  CASE r.path \in {"/learn/quiz", "/learn/quiz?topic", "/learn/quiz?q", "/learn/quiz?q&topic"}
                                         -> quizPage(r, u, db, site)
    [] r.path \in {"/learn/quiz/{slug}/answer", "/learn/quiz/{slug}/answer?topic"}
                                         -> quizAnswer(r, u, db, site)
    [] r.path = "/learn/flashcards" /\ r.verb = "POST" -> flashcardCreate(r, u, db)
    [] r.path \in {"/learn/flashcards", "/learn/flashcards?check=1"} /\ r.verb = "GET"
                                         -> flashcardsPage(r, u, db)
    [] r.path = flashcardKnownAction     -> flashcardSetKnown(r, u, db)
    [] r.path = flashcardDeleteAction    -> flashcardDelete(r, u, db)
    [] r.path = "/learn/flashcards/isolation" -> flashcardIsolation(r, u, db)
    [] r.path = "/dashboard"             -> Reply(DashboardPage_(u, db), db)
    [] r.path = "/dashboard/widgets/quiz"       -> dashboardQuizWidget(r, u, db)
    [] r.path = "/dashboard/widgets/flashcards" -> dashboardFlashcardWidget(r, u, db)
    [] r.path = "/learn/upgrade" /\ r.verb = "GET"  -> Reply(UpgradePage_(u, db), db)
    [] r.path = "/learn/upgrade" /\ r.verb = "POST" -> UpgradeSubmit(r, u, db)
    [] OTHER                             -> Reply(Error(405), db)
LearnPaths ==
  {"/learn/quiz", "/learn/quiz?topic", "/learn/quiz?q", "/learn/quiz?q&topic",
   "/learn/quiz/{slug}/answer", "/learn/quiz/{slug}/answer?topic",
   "/learn/flashcards", "/learn/flashcards?check=1", "/learn/flashcards/isolation",
   flashcardKnownAction, flashcardDeleteAction,
   "/dashboard", "/dashboard/widgets/quiz", "/dashboard/widgets/flashcards", "/learn/upgrade"}

\* Mutant: the session cookie is not looked at.
GuestForAll(r, db, site) == site.guestMode /\ r.fault # "auth" /\ db.guests < MaxGuests

\* A first contact gets a guest account; when GoTrue fails it goes on without.
\* MaxGuests bounds the accounts: past it guest mode acts as if GoTrue failed.
GuestSession(r, db, site) ==
  site.guestMode /\ r.who = "none" /\ r.fault # "auth" /\ db.guests < MaxGuests

\* OptionalAuth and OptionalUserLoader, then the group's own limiter.
OptionalAuth(r, who, db, site) ==
  LET u == IF validateSession(r, who) THEN who ELSE "none"
      admitted == IF r.fault = "tier" THEN Reply(Error(429), db)
                  ELSE learnRoutes(r, u, db, site)
      out == admitted \cup (IF u = "none" THEN {} ELSE LoaderFails(r, db)) IN
  Identified(IF u = "none" THEN {<<Cleared(o[1], who), o[2]>> : o \in out} ELSE out, u)
learnGroup(r, db, site) ==
  IF GuestSession(r, db, site)
  THEN LET g == Guest(db.guests + 1) IN
       {<<IF o[1].set = "keep" THEN SetSession(o[1], g) ELSE o[1], o[2]>> :
          o \in OptionalAuth(r, g, [db EXCEPT !.guests = @ + 1], site)}
  ELSE OptionalAuth(r, r.who, db, site)

CredentialPosts == {"/auth/login", "/auth/signup", "/auth/recover", "/auth/reset"}
authRoutes(r) ==
  IF r.verb = "POST" /\ r.path \in CredentialPosts /\ r.fault = "tier" THEN {Error(429)}
  ELSE
  CASE r.path = "/auth/login"   -> AuthLoginPost(r)
    [] r.path = "/auth/signup"  -> AuthSignupPost(r)
    [] r.path = "/auth/recover" /\ r.verb = "POST" -> AuthRecoverPost(r)
    [] r.path = "/auth/recover" /\ r.verb = "GET"  -> {Show(200, V("RecoverPage", {}, {}))}
    [] r.path = "/auth/reset"   /\ r.verb = "POST" -> AuthResetPost(r)
    [] r.path = "/auth/reset"   /\ r.verb = "GET"  -> AuthResetPage(r)
    [] r.path = "/auth/logout"  /\ r.verb = "POST" -> AuthLogoutPost
    [] r.path = "/auth/logout"  /\ r.verb = "GET"  -> {Show(200, V("LogoutPage", {}, {}))}
    [] r.path \in {"/auth/page", "/auth/page?mode=login", "/auth/page?mode=signup"}
                                -> {Show(200, V("AuthPage", {}, {}))}
    [] OTHER                    -> {Error(405)}
AuthPaths == CredentialPosts \cup {"/auth/logout", "/auth/page", "/auth/page?mode=login", "/auth/page?mode=signup"}

publicRoutes(r) ==
  CASE r.path = "/"         -> {Show(200, V("HomePage", {}, {}))}
    [] r.path = "/terms"    -> {Show(200, V("TermsPage", {}, {}))}
    [] r.path = "/privacy"  -> {Show(200, V("PrivacyPage", {}, {}))}
    [] r.path = "/patterns" -> {Show(200, V("PatternsPage", {}, {}))}
    [] OTHER                -> {Show(a[1], a[2]) : a \in PatternAnswers(r)}
PublicPaths == {"/", "/terms", "/privacy", "/patterns"}
UnknownPaths == {"/settings/security"}

\* The double submit: an unsafe request needs the cookie and the same token.
CSRF(r) == r.verb = "GET" \/ (r.cookie # 0 /\ r.sent = r.cookie)

\* The whole chain for one request: the global limiter, CSRF, then the route.
Serve(r, db, site) ==
  IF r.fault = "limit" THEN Reply(Error(429), db)
  ELSE IF ~CSRF(r) THEN Reply(Error(403), db)
  ELSE IF r.path \in UnknownPaths THEN Reply(Error(404), db)
  ELSE IF r.path \in ProtectedPaths THEN AuthMiddleware(r, db)
  ELSE IF r.path \in LearnPaths THEN learnGroup(r, db, site)
  ELSE {<<a, db>> : a \in IF r.path \in AuthPaths THEN authRoutes(r) ELSE publicRoutes(r)}

\* Mutant: a new token with every page and fragment.
IssuesAlways(r) == r.verb = "GET" /\ r.fault # "limit"

\* Past the limiter, a request without the cookie is given a token.
IssuesToken(r) == r.cookie = 0 /\ r.fault # "limit"

-----------------------------------------------------------------------------
(* What a template call writes *)

Render(v) ==
  CASE v.name = "AuthPage"         -> AuthPage
    [] v.name = "RecoverPage"      -> RecoverPage
    [] v.name = "ResetPage"        -> ResetPage("valid" \in v.flags)
    [] v.name = "LogoutPage"       -> LogoutPage
    [] v.name = "ProfilePage"      -> ProfilePage("guest" \in v.flags)
    [] v.name = "UpgradePage"      -> UpgradePage("registered" \in v.flags, "success" \in v.flags)
    [] v.name = "QuizPage"         -> QuizPage(v.flags, v.of)
    [] v.name = "FlashcardsPage"   -> FlashcardsPage(v.flags, v.of)
    [] v.name = "DashboardPage"    -> DashboardPage(v.flags)
    [] v.name = "HomePage"         -> HomePage
    [] v.name = "PatternsPage"     -> PatternsPage
    [] v.name = "TermsPage"        -> TermsPage
    [] v.name = "PrivacyPage"      -> PrivacyPage
    [] v.name = "ProfileForm"      -> ProfileForm
    [] v.name = "PasswordForm"     -> PasswordForm
    [] v.name = "UpgradeForm"      -> UpgradeForm("success" \in v.flags)
    [] v.name = "FirstRunExperience" -> FirstRunExperience("profile" \in v.flags, "ctas" \in v.flags)
    [] v.name = "QuizTeaser"       -> QuizTeaser
    [] v.name = "FlashcardsTeaser" -> FlashcardsTeaser
    [] v.name = "DashboardTeaser"  -> DashboardTeaser
    [] v.name = "QuizQuestionCard" -> QuizQuestionCard(v.flags, v.of)
    [] v.name = "QuizEmptyState"   -> QuizEmptyState
    [] v.name = "QuizResult"       -> QuizResult(v.flags, v.of)
    [] v.name = "saveOffer"        -> saveOffer
    [] v.name = "FlashcardList"    -> FlashcardList(v.of)
    [] v.name = "FlashcardCard"    -> FlashcardCard(CHOOSE c \in v.of : TRUE)
    [] v.name = "FlashcardSaved"   -> FlashcardSaved
    [] v.name = "runCheck"         -> runCheck
    [] v.name = "noCards"          -> noCards
    [] v.name = "IsolationResult"  -> IsolationResult
    [] v.name = "QuizWidgetSkeleton"      -> QuizWidgetSkeleton
    [] v.name = "FlashcardWidgetSkeleton" -> FlashcardWidgetSkeleton
    [] v.name = "QuizProgressWidget"      -> QuizProgressWidget("some" \in v.flags)
    [] v.name = "FlashcardProgressWidget" -> FlashcardProgressWidget("some" \in v.flags)
    [] v.name = "PatternEditDisplay"      -> PatternEditDisplay
    [] v.name = "PatternEditForm"         -> PatternEditForm
    [] v.name = "PatternFavoriteButton"   -> PatternFavoriteButton(v.of)
    [] v.name = "PatternScrollSentinel"   -> PatternScrollSentinel(CHOOSE p \in v.of : TRUE)
    [] v.name = "PatternScrollPage"       -> PatternScrollPage("more" \in v.flags, CHOOSE p \in v.of : TRUE)
    [] v.name = "PatternCounterButton"    -> PatternCounterButton(v.of)
    [] v.name = "PatternCounterBadge"     -> PatternCounterBadge
    [] v.name = "PatternTransitionCard"   -> PatternTransitionCard(CHOOSE s \in v.of : TRUE)
    [] v.name = "confirmButton"           -> confirmButton
    [] OTHER                              -> Text       \* messages and results
=============================================================================
