------------------------------ MODULE Showcase ------------------------------
(***************************************************************************)
(* The pattern showcase: the catalogue, the page it drives with one live   *)
(* demo per pattern, the fragments, and the stateless handlers of          *)
(* /patterns/api.  What state a demo has (a count, a step, a page number)  *)
(* travels in its own markup and comes back with the request as r.of.      *)
(***************************************************************************)
EXTENDS Views, Integers, Sequences, TLC, SequencesExt, FiniteSetsExt

-----------------------------------------------------------------------------
(* The catalogue *)

patternStubData == 20          \* entries of the shared list
patternScrollPerPage == 5

patternCategories ==
  <<"fetch-swap", "search-lists", "forms-actions", "server-driven", "alpine-islands">>
patternsCatalog ==
  <<<<"partial-swap", "fetch-swap">>, <<"live-search", "search-lists">>,
    <<"click-to-edit", "forms-actions">>, <<"inline-validation", "forms-actions">>,
    <<"optimistic-ui", "forms-actions">>, <<"infinite-scroll", "search-lists">>,
    <<"typeahead", "search-lists">>, <<"toasts", "server-driven">>,
    <<"dark-mode", "alpine-islands">>, <<"skeleton-loading", "fetch-swap">>,
    <<"tabs", "fetch-swap">>, <<"bulk-operations", "forms-actions">>,
    <<"polling", "fetch-swap">>, <<"oob-swap", "server-driven">>,
    <<"confirm-delete", "forms-actions">>, <<"view-transitions", "server-driven">>,
    <<"rate-limit", "server-driven">>, <<"loading-states", "forms-actions">>,
    <<"modal", "alpine-islands">>, <<"global-store", "alpine-islands">>>>

\* One group per category, in display order, each with the slugs of its sections.
patternGroups ==
  [i \in DOMAIN patternCategories |->
     [category |-> patternCategories[i],
      sections |-> {s[1] : s \in {t \in Range(patternsCatalog) : t[2] = patternCategories[i]}}]]

-----------------------------------------------------------------------------
(* Fragments *)

\* The hole the page takes: its sentinel, then its items.
Sentinel(page) == <<"sentinel-1", "sentinel-2", "sentinel-3", "sentinel-4">>[page]
PatternScrollSentinel(page) ==
  Does({Get("/patterns/api/scroll", {page}, Sentinel(page), "self")})
\* The items of the page, then (with the flag "more") the next page's sentinel.
PatternScrollPage(more, page) ==
  If(more, Hole(Sentinel(page + 1), V("PatternScrollSentinel", {}, {page + 1})))

PatternSwapResult == Text
PatternSearchResults == Text
PatternEditDisplay == Does({Get("/patterns/api/edit/{id}", {}, "edit", "self")})
PatternEditForm ==
  Ids({"pattern-edit-1"}) ++ Does({Hx("PUT", "/patterns/api/edit/{id}", {}, "edit", "self")})
PatternFavoriteButton(favorited) ==
  Does({Post("/patterns/api/favorite/{id}", favorited, "favorite", "self")})
PatternToastResult == Text
PatternSkeletonContent == Text
PatternTabPanel == Text
PatternBulkResult == Text
PatternTimeTick == Text
PatternCounterButton(count) ==
  Ids({"oob-counter-btn"}) ++ Does({Post("/patterns/api/counter", count, "oob-counter-btn", "self")})
PatternCounterBadge == Ids({"oob-total"})
\* Mutant: the badge is not in the answer.
CounterButtonOnly(count) == Filled("oob-counter-btn", V("PatternCounterButton", {}, count))

\* The two regions of the counter's answer: the button that replaces the one
\* pressed, and the badge swapped out of band.
PatternCounterResponse(count) ==
  Filled("oob-counter-btn", V("PatternCounterButton", {}, count))
    \uplus Filled("oob-total", V("PatternCounterBadge", {}, count))
PatternConfirmResult == Text
PatternTransitionCard(step) ==
  Does({Get("/patterns/api/transition", {(step + 1) % 3}, "vt-card", "inner")})
PatternSlowContent == Text
PatternLimitAllowed == Text
PatternLimitRefused == Text

-----------------------------------------------------------------------------
(* The page *)

inner(h) == Ids({h}) ++ Hole(h, Nothing)

patternDemo(slug) ==
  CASE slug = "partial-swap" ->
         Does({Get("/patterns/api/swap", {}, "swap-demo", "inner")}) ++ inner("swap-demo")
    [] slug = "live-search" ->
         Ids({"live-search-input"}) ++ inner("search-results")
           ++ Does({Get("/patterns/api/search", {}, "search-results", "inner")})
    [] slug = "click-to-edit" ->
         Ids({"edit-demo"}) ++ Hole("edit", V("PatternEditDisplay", {}, {}))
    [] slug = "inline-validation" -> Ids({"inline-validation-email"})
    [] slug = "optimistic-ui" -> Hole("favorite", V("PatternFavoriteButton", {}, {0}))
    [] slug = "infinite-scroll" ->
         Hole(Sentinel(1), V("PatternScrollSentinel", {}, {1}))
    [] slug = "typeahead" ->
         Ids({"typeahead-input", "typeahead-indicator"}) ++ inner("typeahead-results")
           ++ Does({Get("/patterns/api/typeahead", {}, "typeahead-results", "inner")})
    [] slug = "toasts" ->
         Ids({"toast-demo-result"}) ++ inner("toast-demo-status")
           ++ Does({Post("/patterns/api/toast", {kind}, "toast-demo-status", "inner") : kind \in 1 .. 3})
    [] slug = "skeleton-loading" ->
         Hole("skeleton", Nothing) ++ Does({Get("/patterns/api/skeleton", {}, "skeleton", "selfInner")})
    [] slug = "tabs" ->
         inner("tab-demo-panel")
           ++ Does({Get("/patterns/api/tab/{name}", {t}, "tab-demo-panel", "inner") : t \in 1 .. 3})
    [] slug = "bulk-operations" ->
         inner("bulk-demo-result")
           ++ Does({Post("/patterns/api/bulk", {}, "bulk-demo-result", "inner")})
    [] slug = "polling" ->
         Hole("polling", Nothing) ++ Does({Get("/patterns/api/time", {}, "polling", "selfInner")})
    [] slug = "oob-swap" ->
         Hole("oob-counter-btn", V("PatternCounterButton", {}, {0}))
           ++ Hole("oob-total", V("PatternCounterBadge", {}, {0}))
    [] slug = "confirm-delete" ->
         Ids({"confirm-demo-target", "confirm-demo-title"})
           ++ Hole("confirm-demo-target", V("confirmButton", {}, {}))
    [] slug = "view-transitions" ->
         Ids({"vt-card"}) ++ Hole("vt-card", V("PatternTransitionCard", {}, {0}))
    [] slug = "rate-limit" ->
         inner("limit-log") ++ Does({Get("/patterns/api/limited", {}, "limit-log", "append")})
    [] slug = "loading-states" ->
         Ids({"slow-spin"}) ++ inner("slow-out")
           ++ Does({Get("/patterns/api/slow", {}, "slow-out", "inner")})
    [] slug = "modal" -> Ids({"demo-modal-title"})
    [] OTHER -> Text                          \* dark-mode, global-store
confirmButton == Does({Post("/patterns/api/confirm", {}, "confirm-demo-target", "inner")})

patternSource == Text
patternSection(slug) == Ids({slug, slug \o "-title"}) ++ patternDemo(slug) ++ patternSource
patternCategorySection(g) ==
  Ids({"cat-" \o g.category}) ++ Together([slug \in g.sections |-> patternSection(slug)])
PatternsPage ==
  Base(FALSE, Together([i \in DOMAIN patternGroups |-> patternCategorySection(patternGroups[i])]))

-----------------------------------------------------------------------------
(* Handlers: what a request of the demo API is answered                      *)

\* Mutant: pages are taken to start at zero.
StartFromZero(page) == Min({page * patternScrollPerPage, patternStubData})

\* patternStubData[start:end] as positions, and whether a next page follows.
scrollStart(page) == Min({(page - 1) * patternScrollPerPage, patternStubData})
scrollEnd(page) == Min({scrollStart(page) + patternScrollPerPage, patternStubData})
PatternScroll(page) ==
  V("PatternScrollPage", IF scrollEnd(page) = patternStubData THEN {} ELSE {"more"}, {page})
\* Live search and typeahead: an empty query (not r.valid) clears the results.
PatternSearch(r) == IF r.valid THEN V("PatternSearchResults", {}, {}) ELSE Nothing
PatternEditSave == V("PatternEditDisplay", {}, {})
PatternFavorite(favorited) == V("PatternFavoriteButton", {}, {1 - favorited})
PatternCounter(count) ==
  V("PatternCounterResponse", {}, {IF count > 1000000 THEN 1 ELSE count + 1})
PatternTransition(step) == V("PatternTransitionCard", {}, {step})

\* The demo's own tier admits a request or refuses it with an HTML fragment.
PatternLimited ==
  {<<200, V("PatternLimitAllowed", {}, {})>>, <<429, V("PatternLimitRefused", {}, {})>>}

DemoPaths ==
  {"/patterns/api/swap", "/patterns/api/search", "/patterns/api/typeahead",
   "/patterns/api/edit/{id}", "/patterns/api/favorite/{id}", "/patterns/api/scroll",
   "/patterns/api/toast", "/patterns/api/skeleton", "/patterns/api/tab/{name}",
   "/patterns/api/bulk", "/patterns/api/time", "/patterns/api/counter",
   "/patterns/api/confirm", "/patterns/api/transition", "/patterns/api/slow",
   "/patterns/api/limited"}
PatternResult(r) ==
  LET one == CHOOSE n \in r.of : TRUE IN
  CASE r.path = "/patterns/api/swap"       -> V("PatternSwapResult", {}, {})
    [] r.path \in {"/patterns/api/search", "/patterns/api/typeahead"} -> PatternSearch(r)
    [] r.path = "/patterns/api/edit/{id}"  ->
         IF r.verb = "PUT" THEN PatternEditSave ELSE V("PatternEditForm", {}, {})
    [] r.path = "/patterns/api/favorite/{id}" -> PatternFavorite(one)
    [] r.path = "/patterns/api/scroll"     -> PatternScroll(one)
    [] r.path = "/patterns/api/toast"      -> V("PatternToastResult", {}, {})
    [] r.path = "/patterns/api/skeleton"   -> V("PatternSkeletonContent", {}, {})
    [] r.path = "/patterns/api/tab/{name}" -> V("PatternTabPanel", {}, r.of)
    [] r.path = "/patterns/api/bulk"       -> V("PatternBulkResult", {}, {})
    [] r.path = "/patterns/api/time"       -> V("PatternTimeTick", {}, {})
    [] r.path = "/patterns/api/counter"    -> PatternCounter(one)
    [] r.path = "/patterns/api/confirm"    -> V("PatternConfirmResult", {}, {})
    [] r.path = "/patterns/api/transition" -> PatternTransition(one)
    [] OTHER -> V("PatternSlowContent", {}, {})        \* /patterns/api/slow
\* Every demo answers with a fragment, but the one of the rate limit may refuse.
PatternAnswers(r) ==
  IF r.path = "/patterns/api/limited" THEN PatternLimited
  ELSE IF r.path \in DemoPaths THEN {<<200, PatternResult(r)>>}
  ELSE {<<404, V("text", {}, {})>>}
=============================================================================
