------------------------------- MODULE Competitors --------------------------------
(***************************************************************************)
(* Competitors and their products, the links of facts to both, and the     *)
(* claims of the first schema that name them (CompetitorService,           *)
(* PostgresCompetitorStore, the links of IntelService, InsightService).    *)
(*                                                                         *)
(* Every call of a store is a transaction of its own.  A competitor takes  *)
(* its products and its links with it when it is deleted; a claim names    *)
(* competitors and facts in a list that nothing keeps up to date.  Facts   *)
(* are not deleted; their text is edited, and the links stay.              *)
(***************************************************************************)
EXTENDS Naturals, Sequences

CONSTANTS Threads,        \* requests and workers
          Names, Aliases, \* what a competitor may be called
          Facts,
          Texts,          \* what a fact may state: the names and aliases in its text
          MaxRequests,    \* bound: requests and deliveries
          MaxCompetitors, MaxProducts, MaxClaims  \* bounds

VARIABLES
  competitors,   \* competitors: name, aliases, status, whether the row is there
  products,      \* competitor_products: the competitor, whether it is there
  links,         \* intel_fact_competitors
  productLinks,  \* intel_fact_products
  claims,        \* insight_claims: facts, competitors, status
  work,          \* thread -> what it is doing
  texts,         \* intel_facts: subject, object and text of a fact
  stated,        \* fact -> the texts it has had
  byName,        \* links that were made for the name, with the text that mentioned it
  requests       \* how many there have been

vars == <<competitors, products, links, productLinks, claims, work, texts, stated, byName, requests>>

CompetitorRows == [name : Names, aliases : SUBSET Aliases, status : {"active", "inactive"}, there : BOOLEAN]
NoCompetitor == [name |-> CHOOSE n \in Names : TRUE, aliases |-> {}, status |-> "active", there |-> TRUE]
NoClaim == [facts |-> {}, competitors |-> {}, status |-> "draft"]
Idle == [at |-> "idle", id |-> 0, row |-> NoCompetitor, claim |-> NoClaim, listed |-> <<>>,
         linked |-> {}, had |-> {}, rest |-> {}, todo |-> {}, before |-> {}, found |-> {}, texts |-> <<>>]

Ids == 1 .. Len(competitors)
Live == {c \in Ids : competitors[c].there}
Offered == {p \in 1 .. Len(products) : products[p].there}
OfCompetitor(c) == {p \in Offered : products[p].of = c}

Init ==
  /\ competitors = <<>> /\ products = <<>> /\ links = {} /\ productLinks = {} /\ claims = <<>>
  /\ texts \in [Facts -> Texts] /\ stated = [f \in Facts |-> {texts[f]}] /\ byName = {}
  /\ work = [t \in Threads |-> Idle] /\ requests = 0

Become(t, w) == work' = [work EXCEPT ![t] = w]

(* A thread takes a request; the rest of the code does not.                *)
Takes(t) == work[t].at = "idle" /\ requests < MaxRequests /\ requests' = requests + 1
Works(t, at) == work[t].at = at /\ UNCHANGED requests

Registry == <<competitors, products>>
Wording == <<texts, stated>>
Links == <<links, productLinks, byName, Wording>>

-----------------------------------------------------------------------------
(* Variant: the row is found by its id.                                    *)
UpsertById(id, row) ==
  competitors' = IF id \in Live THEN [competitors EXCEPT ![id] = row] ELSE Append(competitors, row)

(* save_competitor: the row is found by its name, whatever its id was.     *)
Upsert(id, row) ==
  LET same == {c \in Live : competitors[c].name = row.name}
  IN  competitors' = IF same = {} THEN Append(competitors, row)
                     ELSE [c \in Ids |-> IF c \in same THEN row ELSE competitors[c]]

(* POST: a name that is taken overwrites the one that has it.              *)
CreateCompetitor(t) ==
  /\ Takes(t)
  /\ \E n \in Names : \E a \in SUBSET Aliases : Upsert(0, [NoCompetitor EXCEPT !.name = n, !.aliases = a])
  /\ Len(competitors') <= MaxCompetitors
  /\ UNCHANGED <<products, Links, claims, work>>

(* PUT: the row is read, some of its fields are changed, and it is saved.  *)
ReadCompetitor(t) ==
  /\ Takes(t)
  /\ \E c \in Live : \E n \in Names : \E a \in SUBSET Aliases : \E s \in {"active", "inactive"} :
       Become(t, [Idle EXCEPT !.at = "saveCompetitor", !.id = c,
                    !.row = [name |-> n, aliases |-> a, status |-> s, there |-> TRUE]])
  /\ UNCHANGED <<Registry, Links, claims>>

SaveCompetitor(t) ==
  /\ Works(t, "saveCompetitor")
  /\ Upsert(work[t].id, work[t].row) /\ Len(competitors') <= MaxCompetitors
  /\ Become(t, Idle)
  /\ UNCHANGED <<products, Links, claims>>

(* DELETE, with the cascades of the foreign keys.                          *)
DeleteCompetitor(t) ==
  /\ Takes(t)
  /\ \E c \in Live :
       /\ competitors' = [competitors EXCEPT ![c].there = FALSE]
       /\ products' = [p \in 1 .. Len(products) |-> [products[p] EXCEPT !.there = @ /\ products[p].of # c]]
       /\ links' = {l \in links : l[2] # c} /\ byName' = {l \in byName : l[2] # c}
       /\ productLinks' = {l \in productLinks : l[2] \notin OfCompetitor(c)}
  /\ UNCHANGED <<Wording, claims, work>>

(* POST products: the competitor is looked for, then the row is inserted,  *)
(* which the foreign key refuses if the competitor is gone.                *)
CheckCompetitor(t) ==
  /\ Takes(t)
  /\ \E c \in Live : Become(t, [Idle EXCEPT !.at = "product", !.id = c])
  /\ UNCHANGED <<Registry, Links, claims>>

AddProduct(t) ==
  /\ Works(t, "product") /\ Len(products) < MaxProducts
  /\ products' = IF work[t].id \in Live THEN Append(products, [of |-> work[t].id, there |-> TRUE]) ELSE products
  /\ Become(t, Idle)
  /\ UNCHANGED <<competitors, Links, claims>>

DeleteProduct(t) ==
  /\ Takes(t)
  /\ \E p \in Offered :
       /\ products' = [products EXCEPT ![p].there = FALSE]
       /\ productLinks' = {l \in productLinks : l[2] # p}
  /\ UNCHANGED <<competitors, links, byName, Wording, claims, work>>

-----------------------------------------------------------------------------
(* A link that a request names: fact and competitor are looked for, then   *)
(* it is inserted, which the foreign key refuses if the competitor is gone.*)
(* Of a product only the fact is looked for.                               *)
CheckLink(t) ==
  /\ Takes(t)
  /\ \E f \in Facts : \E c \in Live : Become(t, [Idle EXCEPT !.at = "one", !.todo = {<<f, c>>}])
  /\ UNCHANGED <<Registry, Links, claims>>

LinkFact(t) ==
  /\ Works(t, "one")
  /\ links' = links \cup {l \in work[t].todo : l[2] \in Live}
  /\ Become(t, Idle)
  /\ UNCHANGED <<Registry, productLinks, byName, Wording, claims>>

LinkProduct(t) ==
  /\ Takes(t)
  /\ \E f \in Facts : \E p \in Offered : productLinks' = productLinks \cup {<<f, p>>}
  /\ UNCHANGED <<Registry, links, byName, Wording, claims, work>>

(* update_fact (PUT, the agent's tool, an extraction that finds the fact   *)
(* again) and attach_evidence: the fact is read, and all of it is saved,   *)
(* with a new text or the one that was read.  Its links stay: those that   *)
(* were read are inserted once more.                                       *)
ReadFact(t) ==
  /\ Takes(t)
  /\ \E f \in Facts : \E text \in Texts : Become(t, [Idle EXCEPT !.at = "saveFact", !.texts = [g \in {f} |-> text]])
  /\ UNCHANGED <<Registry, Links, claims>>

SaveFact(t) ==
  /\ Works(t, "saveFact")
  /\ \E f \in DOMAIN work[t].texts :
       /\ texts' = [texts EXCEPT ![f] = work[t].texts[f]]
       /\ stated' = [stated EXCEPT ![f] = @ \cup {work[t].texts[f]}]
  /\ Become(t, Idle)
  /\ UNCHANGED <<Registry, links, productLinks, byName, claims>>

(* auto_link_facts, from here on: the active competitors, then the facts   *)
(* with their texts and links, are listed once for all that follows.       *)
ListCompetitors(t) ==
  /\ Takes(t)
  /\ \E c \in Live : competitors[c].status = "active"
  /\ Become(t, [Idle EXCEPT !.at = "facts", !.listed = competitors])
  /\ UNCHANGED <<Registry, Links, claims>>

(* Of the facts those with evidence from some documents, or all.           *)
ListFacts(t) ==
  /\ Works(t, "facts")
  /\ \E some \in SUBSET Facts :
       Become(t, [work[t] EXCEPT !.at = "fact", !.linked = links, !.had = productLinks, !.rest = some,
                                 !.texts = texts])
  /\ UNCHANGED <<Registry, Links, claims>>

Listed(w) == {c \in 1 .. Len(w.listed) : w.listed[c].there /\ w.listed[c].status = "active"}
Matches(text, row) == row.name \in text \/ row.aliases \cap text # {}

(* The next fact: the competitors its text, as it was listed, mentions     *)
(* that it is not linked to yet, and those it is.                          *)
NextFact(t) ==
  LET w == work[t]
  IN  /\ Works(t, "fact")
      /\ \/ w.rest = {} /\ Become(t, Idle)
         \/ \E f \in w.rest :
              LET with == {d \in Listed(w) : <<f, d>> \in w.linked}
              IN  Become(t, [w EXCEPT !.at = "links", !.rest = @ \ {f}, !.before = {f} \X with,
                    !.todo = {f} \X {d \in Listed(w) \ with : Matches(w.texts[f], w.listed[d])}])
      /\ UNCHANGED <<Registry, Links, claims>>

(* One link after another; one to a competitor that was deleted ends the   *)
(* whole pass.                                                             *)
AutoLink(t) ==
  LET w == work[t]
  IN  /\ Works(t, "links")
      /\ \E l \in w.todo :
           IF l[2] \notin Live THEN Become(t, Idle) /\ UNCHANGED <<links, byName>>
           ELSE /\ links' = links \cup {l}
                /\ byName' = IF w.listed[l[2]].name \in w.texts[l[1]]
                             THEN byName \cup {<<l[1], l[2], w.texts[l[1]]>>} ELSE byName
                /\ Become(t, [w EXCEPT !.todo = @ \ {l}])
      /\ UNCHANGED <<Registry, productLinks, Wording, claims>>

(* The products, of those the text mentions, of a competitor the fact had  *)
(* been linked to: the links of this pass are not among them.              *)
ListProducts(t) ==
  LET w == work[t]
  IN  /\ Works(t, "links") /\ w.todo = {} /\ w.found = {}
      /\ \/ w.before = {} /\ Become(t, [w EXCEPT !.at = "fact"])
         \/ \E l \in w.before : \E mentioned \in SUBSET OfCompetitor(l[2]) :
              Become(t, [w EXCEPT !.before = @ \ {l}, !.found = ({l[1]} \X mentioned) \ w.had])
      /\ UNCHANGED <<Registry, Links, claims>>

AutoLinkProduct(t) ==
  LET w == work[t]
  IN  /\ Works(t, "links")
      /\ \E l \in w.found :
           IF l[2] \notin Offered THEN Become(t, Idle) /\ UNCHANGED productLinks
           ELSE productLinks' = productLinks \cup {l} /\ Become(t, [w EXCEPT !.found = @ \ {l}])
      /\ UNCHANGED <<Registry, links, byName, Wording, claims>>

-----------------------------------------------------------------------------
(* create_claim: a draft with the facts and competitors of a request or of *)
(* an agent; and, for a report that has facts and no claims, with one fact *)
(* and its competitors.                                                    *)
CreateClaim(t) ==
  /\ Takes(t)
  /\ \E f \in SUBSET Facts : \E c \in SUBSET Ids :
       Become(t, [Idle EXCEPT !.at = "checkClaim", !.claim = [NoClaim EXCEPT !.facts = f, !.competitors = c]])
  /\ UNCHANGED <<Registry, Links, claims>>

BuildClaim(t) ==
  /\ Takes(t)
  /\ \E f \in Facts : Become(t, [Idle EXCEPT !.at = "checkClaim",
       !.claim = [NoClaim EXCEPT !.facts = {f}, !.competitors = {c \in Ids : <<f, c>> \in links}]])
  /\ UNCHANGED <<Registry, Links, claims>>

(* update_claim: a claim is read, and some of it changed.                  *)
ReadClaim(t) ==
  /\ Takes(t)
  /\ \E k \in 1 .. Len(claims) : \E s \in {"draft", "rejected"} :
       Become(t, [Idle EXCEPT !.at = "checkClaim", !.id = k, !.claim = [claims[k] EXCEPT !.status = s]])
  /\ UNCHANGED <<Registry, Links, claims>>

(* _validate_competitors; with one that was deleted neither is saved.      *)
CheckClaim(t) ==
  /\ Works(t, "checkClaim")
  /\ Become(t, IF work[t].claim.competitors \subseteq Live THEN [work[t] EXCEPT !.at = "saveClaim"] ELSE Idle)
  /\ UNCHANGED <<Registry, Links, claims>>

SaveClaim(t) ==
  /\ Works(t, "saveClaim")
  /\ IF work[t].id = 0 THEN Len(claims) < MaxClaims /\ claims' = Append(claims, work[t].claim)
     ELSE claims' = [claims EXCEPT ![work[t].id] = work[t].claim]
  /\ Become(t, Idle)
  /\ UNCHANGED <<Registry, Links>>

(* A statement raises, or the worker is gone.                              *)
Break(t) == work[t].at # "idle" /\ Become(t, Idle) /\ UNCHANGED <<Registry, Links, claims, requests>>

Next == \E t \in Threads :
  \/ CreateCompetitor(t) \/ ReadCompetitor(t) \/ SaveCompetitor(t) \/ DeleteCompetitor(t)
  \/ CheckCompetitor(t) \/ AddProduct(t) \/ DeleteProduct(t)
  \/ CheckLink(t) \/ LinkFact(t) \/ LinkProduct(t) \/ ReadFact(t) \/ SaveFact(t)
  \/ ListCompetitors(t) \/ ListFacts(t) \/ NextFact(t) \/ AutoLink(t) \/ ListProducts(t) \/ AutoLinkProduct(t)
  \/ CreateClaim(t) \/ BuildClaim(t) \/ ReadClaim(t) \/ CheckClaim(t) \/ SaveClaim(t)
  \/ Break(t)
Spec == Init /\ [][Next]_vars

-----------------------------------------------------------------------------
TypeOK ==
  /\ competitors \in Seq(CompetitorRows) /\ Len(competitors) <= MaxCompetitors
  /\ \A c, d \in Live : competitors[c].name = competitors[d].name => c = d
  /\ products \in Seq([of : Ids, there : BOOLEAN])
  /\ \A p \in Offered : products[p].of \in Live
  /\ links \subseteq Facts \X Live /\ productLinks \subseteq Facts \X Offered
  /\ texts \in [Facts -> Texts] /\ stated \in [Facts -> SUBSET Texts]
  /\ byName \subseteq Facts \X Live \X Texts /\ \A l \in byName : <<l[1], l[2]>> \in links
  /\ claims \in Seq([facts : SUBSET Facts, competitors : SUBSET Ids, status : {"draft", "rejected"}])
  /\ \A t \in Threads : work[t].at \in {"idle", "saveCompetitor", "product", "one", "saveFact", "facts", "fact",
                                         "links", "checkClaim", "saveClaim"}

(* The text for which a fact was linked to a competitor by name is one the *)
(* fact has had, and it mentions the name which that competitor has now,   *)
(* although competitors are renamed, deleted and created again and texts   *)
(* are edited between the listing, the link and now; so a fact that nobody *)
(* has edited still mentions it.  An update that gives a competitor a new  *)
(* name makes another one, or overwrites the one that has the name, and    *)
(* leaves the links where they are (save_competitor, auto_link_facts).     *)
LinkedByNameStaysNamed ==
  \A l \in byName : competitors[l[2]].name \in l[3] /\ l[3] \in stated[l[1]]

(* Inductive form: a competitor keeps its name, so that one which a pass   *)
(* over the facts has listed has the name that was listed, and the texts   *)
(* it has listed are texts of the facts.                                   *)
StillNamed(listed) ==
  /\ listed \in Seq(CompetitorRows) /\ Len(listed) <= Len(competitors)
  /\ \A c \in 1 .. Len(listed) : listed[c].name = competitors[c].name
WasStated(w, f) == f \in Facts /\ w.texts[f] \in stated[f]
WorkOK(w) ==
  /\ w = [at |-> w.at, id |-> w.id, row |-> w.row, claim |-> w.claim, listed |-> w.listed, linked |-> w.linked,
          had |-> w.had, rest |-> w.rest, todo |-> w.todo, before |-> w.before, found |-> w.found,
          texts |-> w.texts]
  /\ w.at = "saveCompetitor" => w.row \in CompetitorRows
  /\ w.at \in {"facts", "fact", "links"} => StillNamed(w.listed)
  /\ w.at \in {"fact", "links"} => \A f \in w.rest : WasStated(w, f)
  /\ w.at = "links" => \A l \in w.todo : l[2] \in 1 .. Len(w.listed) /\ WasStated(w, l[1])
IInv ==
  /\ competitors \in Seq(CompetitorRows)
  /\ texts = [f \in Facts |-> texts[f]] /\ stated = [f \in Facts |-> stated[f]]
  /\ \A f \in Facts : texts[f] \in stated[f]
  /\ \A l \in byName : /\ l[2] \in Ids /\ competitors[l[2]].name \in l[3]
                       /\ l[1] \in Facts /\ l[3] \in stated[l[1]]
  /\ work = [t \in Threads |-> work[t]] /\ \A t \in Threads : WorkOK(work[t])
(* Inductive form of the types, beside IInv: what a thread will write is   *)
(* about facts there are, and names competitors there have been.           *)
Claims == [facts : SUBSET Facts, competitors : SUBSET Ids, status : {"draft", "rejected"}]
JobOK(w) ==
  /\ w.at = "saveCompetitor" => w.row.there
  /\ w.at = "saveFact" => \A f \in DOMAIN w.texts : w.texts[f] \in Texts
  /\ w.claim \in Claims
  /\ w.rest \subseteq Facts /\ w.todo \subseteq Facts \X Nat
  /\ w.before \subseteq Facts \X Nat /\ w.found \subseteq Facts \X Nat
ITypeOK == TypeOK /\ \A t \in Threads : JobOK(work[t])
===================================================================================
