------------------------------- MODULE Markup -------------------------------
(***************************************************************************)
(* What the templates write, reduced to what the browser acts on: the ids  *)
(* an element tree carries, the forms and buttons in it (htmx or plain),   *)
(* its links, and the elements whose content a later answer replaces (the  *)
(* holes).  Text, classes and styling are left out.                        *)
(***************************************************************************)
\* A call of a template: its name, the flags its props set and what it shows
\* (cards, questions or a number), always as a set.
V(name, flags, of) == [name |-> name, flags |-> flags, of |-> of]
Nothing == V("", {}, {})

(* Functions from holes to what fills them: one hole, and two functions as one  *)
(* (TLC's :> and @@, written out: the prover does not look into those).        *)
Filled(h, v) == [x \in {h} |-> v]
f \uplus g == [x \in DOMAIN f \cup DOMAIN g |-> IF x \in DOMAIN f THEN f[x] ELSE g[x]]
\* The functions of F as one, where any two agree.
Merged(F) == [x \in UNION {DOMAIN f : f \in F} |-> (CHOOSE f \in F : x \in DOMAIN f)[x]]

(* Markup: `twice` are ids written more than once, `holes` maps each element   *)
(* that answers replace to the template call that first fills it.              *)
Text == [ids |-> {}, twice |-> {}, does |-> {}, links |-> {}, holes |-> <<>>, app |-> FALSE]
Ids(S) == [Text EXCEPT !.ids = S]
Links(S) == [Text EXCEPT !.links = S]
Does(S) == [Text EXCEPT !.does = S]
Hole(h, v) == [Text EXCEPT !.holes = Filled(h, v)]

\* One fragment after the other in the same page.
a ++ b ==
  [ids   |-> a.ids \cup b.ids,
   twice |-> a.twice \cup b.twice \cup (a.ids \cap b.ids),
   does  |-> a.does \cup b.does,
   links |-> a.links \cup b.links,
   holes |-> a.holes \uplus b.holes,
   app   |-> a.app \/ b.app]

\* Fragments in the same page, one for each index of f.
Together(f) ==
  LET D == DOMAIN f IN
  [ids   |-> UNION {f[i].ids : i \in D},
   twice |-> UNION {f[i].twice : i \in D}
               \cup UNION {f[i].ids \cap UNION {f[j].ids : j \in D \ {i}} : i \in D},
   does  |-> UNION {f[i].does : i \in D},
   links |-> UNION {f[i].links : i \in D},
   holes |-> Merged({f[i].holes : i \in D}),
   app   |-> \E i \in D : f[i].app]

If(p, m) == IF p THEN m ELSE Text
Either(p, m, n) == IF p THEN m ELSE n

(* What an element sends.  how: where the answer goes -- "inner", "append" and *)
(* "outer" to the element with the id `hole` (hx-target), "self" and           *)
(* "selfInner" to the element itself (or the list item around it), "body" to   *)
(* the document.  plain: the element also works without JavaScript (method and *)
(* action, or an href).  field: it carries the hidden csrf_token input.        *)
Hx(verb, path, of, hole, how) ==
  [verb |-> verb, path |-> path, of |-> of, hole |-> hole, how |-> how,
   plain |-> FALSE, field |-> FALSE]
Get(path, of, hole, how) == Hx("GET", path, of, hole, how)
Post(path, of, hole, how) == Hx("POST", path, of, hole, how)
Plain(a) == [a EXCEPT !.plain = TRUE]
CSRFField(a) == [a EXCEPT !.field = TRUE]

ById(a) == a.how \in {"inner", "append", "outer"}
=============================================================================
