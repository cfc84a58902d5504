------------------------------- MODULE Views -------------------------------
(***************************************************************************)
(* The templates of internal/view: one operator per templ function, giving *)
(* the markup (module Markup) it writes.  The functions translated are the *)
(* generated Go ones, which is what the program runs.                      *)
(***************************************************************************)
EXTENDS Markup

-----------------------------------------------------------------------------
(* layouts/base: the shell of every full page *)

navLinks == Links({"/patterns", "/learn/quiz", "/learn/flashcards", "/dashboard"})
darkModeToggle == Text
userMenu == Ids({"user-menu-dropdown"}) ++ Links({"/profile", "/auth/logout"})
header(user) ==
  Links({"/"}) ++ navLinks ++ darkModeToggle
    ++ Either(user, userMenu, Links({"/auth/page"}))
    ++ Ids({"mobile-nav"}) ++ navLinks
footer == Links({"/terms", "/privacy"})
toastNotifications == Text

\* Base is the only place that loads htmx and puts the CSRF token in hx-headers.
Base(user, main) ==
  [(Ids({"main-content"}) ++ header(user) ++ main ++ footer ++ toastNotifications)
     EXCEPT !.app = TRUE]

-----------------------------------------------------------------------------
(* Signing in *)

loginPanel ==
  Does({CSRFField(Post("/auth/login", {}, "auth-messages", "inner"))})
    ++ Ids({"login-email", "login-password"}) ++ Links({"/auth/recover"})
signupPanel ==
  Does({CSRFField(Post("/auth/signup", {}, "auth-messages", "inner"))})
    ++ Ids({"signup-email", "signup-password", "signup-password-confirm"})
authMessages == Ids({"auth-messages"}) ++ Hole("auth-messages", Nothing)
AuthPage ==
  Base(FALSE, Links({"/auth/page?mode=login", "/auth/page?mode=signup"}) ++ authMessages
    ++ Ids({"panel-login"}) ++ loginPanel ++ Ids({"panel-signup"}) ++ signupPanel)
AuthMessage == Text

RecoverPage ==
  Base(FALSE, authMessages ++ Ids({"recover-email"}) ++ Links({"/auth/page"})
    ++ Does({CSRFField(Post("/auth/recover", {}, "auth-messages", "inner"))}))
ResetPage(valid) ==
  Base(FALSE, authMessages
    ++ Either(valid,
         Ids({"reset-password", "reset-password-confirm"})
           ++ Does({CSRFField(Post("/auth/reset", {}, "auth-messages", "inner"))}),
         Links({"/auth/recover"})))
LogoutPage ==
  Base(FALSE, Links({"/"}) ++ Does({CSRFField(Post("/auth/logout", {}, "body", "body"))}))

-----------------------------------------------------------------------------
(* Profile, upgrade and first run *)

ProfileForm == Ids({"name"})
PasswordForm == Ids({"new-password", "new-password-confirm"})
ProfilePage(guest) ==
  Base(TRUE, Ids({"account-heading", "profile-form", "session-heading"})
    ++ Does({Plain(CSRFField(Post("/profile", {}, "profile-form", "inner")))})
    ++ Hole("profile-form", V("ProfileForm", {}, {}))
    ++ Either(guest, Links({"/learn/upgrade"}),
         Ids({"password-heading", "password-form"})
           ++ Does({Plain(CSRFField(Post("/profile/password", {}, "password-form", "inner")))})
           ++ Hole("password-form", V("PasswordForm", {}, {})))
    ++ Does({Plain(CSRFField(Post("/auth/logout", {}, "body", "body")))}))

UpgradeForm(success) ==
  Ids({"upgrade-card"})
    ++ Either(success, Links({"/learn/quiz"}),
         Ids({"upgrade-email", "upgrade-password"})
           ++ Does({Plain(CSRFField(Post("/learn/upgrade", {}, "upgrade-card", "outer")))}))
UpgradePage(registered, success) ==
  Base(FALSE, Either(registered, Links({"/learn/quiz"}),
    Hole("upgrade-card", V("UpgradeForm", IF success THEN {"success"} ELSE {}, {}))))
GuestBanner == Links({"/learn/upgrade"})

firstRunWelcome ==
  Ids({"welcome-banner"}) ++ Does({Get("/first-run/profile", {}, "first-run-steps", "inner")})
firstRunProfile ==
  Ids({"profile-setup"}) ++ ProfileForm
    ++ Does({Get("/first-run/ctas", {}, "first-run-steps", "inner")})
firstRunCTAs == Ids({"first-run-ctas"}) ++ Links({"/settings/security", "/dashboard"})
FirstRunExperience(profile, ctas) ==
  Ids({"first-run-steps"})
    ++ If(~profile /\ ~ctas, firstRunWelcome)
    ++ If(profile, firstRunProfile)
    ++ If(ctas, firstRunCTAs)

-----------------------------------------------------------------------------
(* Teasers: what the learn pages show to a visitor without identity *)

signIn == Links({"/auth/page", "/auth/page?mode=signup"})
QuizTeaser == signIn
FlashcardsTeaser == Links({"/learn/quiz"}) ++ signIn
DashboardTeaser == Links({"/learn/quiz", "/learn/flashcards"}) ++ signIn

-----------------------------------------------------------------------------
(* The quiz.  A question is its number, `of` the one the card is about; the  *)
(* flag "topic" is a run over one topic (RunTopic), kept from card to card.  *)

quizAnswerAction(flags) ==
  IF "topic" \in flags THEN "/learn/quiz/{slug}/answer?topic" ELSE "/learn/quiz/{slug}/answer"
QuizQuestionCard(flags, q) ==
  Does({Plain(CSRFField(Post(quizAnswerAction(flags), q, "quiz-card", "inner")))})
QuizEmptyState == Text
QuizScoreBadge == Text

quizNextURL(flags) == IF "topic" \in flags THEN "/learn/quiz?q&topic" ELSE "/learn/quiz?q"
saveOffer == Does({Plain(CSRFField(Post("/learn/flashcards", {}, "save-offer", "self")))})
\* `q` is the question just answered; the next one is the handler's to name.
QuizResult(flags, next) ==
  QuizScoreBadge
    ++ If("offer" \in flags, Hole("save-offer", V("saveOffer", {}, {})))
    ++ If("done" \notin flags,
          Does({Plain(Get(quizNextURL(flags), next, "quiz-card", "inner"))}))
    ++ If({"done", "topic"} \subseteq flags,
          Does({Plain(Get("/learn/quiz", {}, "quiz-card", "inner"))}))
    ++ If("done" \in flags /\ "topic" \notin flags, Links({"/patterns"}))

QuizCards == {"QuizTeaser", "QuizEmptyState", "QuizQuestionCard", "QuizResult"}
QuizPage(flags, of) ==
  LET card == CHOOSE c \in QuizCards : c \in flags IN
  Base(FALSE, If("banner" \in flags, GuestBanner)
    ++ If(card = "QuizQuestionCard", QuizScoreBadge)
    ++ Ids({"quiz-card"}) ++ Hole("quiz-card", V(card, flags \ {card, "banner"}, of)))

-----------------------------------------------------------------------------
(* Flashcards.  Each card is a list item that its own forms replace.         *)

flashcardKnownAction == "/learn/flashcards/{id}/known"
flashcardDeleteAction == "/learn/flashcards/{id}/delete"
FlashcardCard(c) ==
  Does({Plain(CSRFField(Post(path, {c}, c, "self"))) :
          path \in {flashcardKnownAction, flashcardDeleteAction}})
FlashcardsEmptyState == Links({"/learn/quiz"})
FlashcardList(cards) ==
  IF cards = {} THEN FlashcardsEmptyState
  ELSE [Text EXCEPT !.holes = [c \in cards |-> V("FlashcardCard", {}, {c})]]
FlashcardSaved == Links({"/learn/flashcards"})
FlashcardSaveError == Text

runCheck == Links({"/learn/flashcards?check=1"})
              ++ Does({Get("/learn/flashcards/isolation", {}, "isolation-result", "inner")})
IsolationResult == runCheck
IsolationPanel(ran, hasCards) ==
  Ids({"isolation-heading", "isolation-result"})
    ++ Hole("isolation-result",
         CASE ran      -> V("IsolationResult", {}, {})
           [] hasCards -> V("runCheck", {}, {})
           [] OTHER    -> V("noCards", {}, {}))
noCards == Links({"/learn/quiz"})

FlashcardsPage(flags, cards) ==
  Base(FALSE, If("banner" \in flags, GuestBanner) ++ Ids({"flashcard-list"})
    ++ Either("teaser" \in flags, FlashcardsTeaser,
         FlashcardList(cards) ++ IsolationPanel("ran" \in flags, cards # {})))

-----------------------------------------------------------------------------
(* Dashboard.  A skeleton fetches its widget when the page loads; the link   *)
(* it holds for a browser without JavaScript is the same path.               *)

skeleton(id, title, path) ==
  Ids({id, title}) ++ Does({Plain(Get(path, {}, id, "self"))})
QuizWidgetSkeleton == skeleton("widget-quiz", "widget-quiz-title", "/dashboard/widgets/quiz")
FlashcardWidgetSkeleton ==
  skeleton("widget-flashcards", "widget-flashcards-title", "/dashboard/widgets/flashcards")
QuizProgressWidget(attempted) ==
  Ids({"widget-quiz", "widget-quiz-title"}) ++ Links({"/learn/quiz"})
    ++ If(attempted, Links({"/learn/quiz?q"}))
\* Mutant: copied from the other widget, ids included.
WidgetCopied(saved) ==
  Ids({"widget-quiz", "widget-quiz-title"})
    ++ Links({IF saved THEN "/learn/flashcards" ELSE "/learn/quiz"})

FlashcardProgressWidget(saved) ==
  Ids({"widget-flashcards", "widget-flashcards-title"})
    ++ Links({IF saved THEN "/learn/flashcards" ELSE "/learn/quiz"})
DashboardPage(flags) ==
  Base(FALSE, If("banner" \in flags, GuestBanner)
    ++ Either("teaser" \in flags, DashboardTeaser,
         Hole("widget-quiz", V("QuizWidgetSkeleton", {}, {}))
           ++ Hole("widget-flashcards", V("FlashcardWidgetSkeleton", {}, {}))))

-----------------------------------------------------------------------------
(* Home and the static pages *)

homeSurfaces == {"/patterns", "/learn/quiz", "/learn/flashcards", "/dashboard"}
quizTopicURL == "/learn/quiz?topic"
ExplainerNodes == {"routing", "handlers", "database", "frontend", "performance"}
explainer(nodes) ==
  Ids({"architecture", "architecture-heading"} \cup nodes) ++ Links({quizTopicURL, "/learn/quiz"})
perfStats == Ids({"budgets", "budgets-heading"})
HomePage ==
  Base(FALSE, Links({"/patterns"} \cup homeSurfaces) ++ explainer(ExplainerNodes) ++ perfStats)
TermsPage == Base(FALSE, Text)
PrivacyPage == Base(FALSE, Text)
=============================================================================
