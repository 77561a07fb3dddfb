-------------------------------- MODULE WebSearch ---------------------------------
(***************************************************************************)
(* A web search: WebSearchService asks its engines at the same time and    *)
(* puts together what they find, and the clients of the engines.           *)
(***************************************************************************)
EXTENDS Naturals, Sequences, SequencesExt

CONSTANTS Offers,     \* engine -> what it may answer, as sequences of results
          None

VARIABLES
  waiting,  \* the engines that have not answered yet
  raw,      \* what has come in, in the order the engines answered
  kept,     \* what the agent is shown, None before that
  raised    \* the aggregation raised and the tool has no answer

vars == <<waiting, raw, kept, raised>>

Engines == DOMAIN Offers
Results == UNION {ToSet(found) : found \in UNION {Offers[e] : e \in Engines}}
Tracking == {"utm", "ref"}

(* Results have an address (scheme, site, www., trailing slash, the        *)
(* parameters), a score in percent or None, the length of the snippet or   *)
(* None, and say whether they have a date and a title.                     *)
Address(u) == [scheme |-> u.scheme, site |-> u.site, query |-> u.query \ Tracking]

(* _result_quality, in hundredths; a score counts ten times.               *)
Quality(r) == (IF r.score = None THEN 0 ELSE 10 * r.score)
  + (IF r.snippet > 500 THEN 500 ELSE r.snippet)
  + (IF r.dated THEN 100 ELSE 0) + (IF r.titled THEN 50 ELSE 0)

(* Every engine with a key is asked; DuckDuckGo needs none.                *)
Init ==
  /\ \E keys \in SUBSET (Engines \ {"duckduckgo"}) : waiting = keys \cup {"duckduckgo"}
  /\ raw = <<>> /\ kept = None /\ raised = FALSE

(* An engine answers; one that fails answers with nothing.  The search     *)
(* waits for all of them: the timeout is for those that are done.          *)
EngineAnswers(e) ==
  /\ e \in waiting /\ waiting' = waiting \ {e}
  /\ \E found \in Offers[e] \cup {<<>>} : raw' = raw \o found
  /\ UNCHANGED <<kept, raised>>

-----------------------------------------------------------------------------
SameAs(r, seen) == {i \in DOMAIN seen : Address(seen[i].url) = Address(r.url)}

(* Variant: the first result of an address stays.                          *)
KeepFirst(seen, r) == IF SameAs(r, seen) = {} THEN Append(seen, r) ELSE seen

(* _deduplicate, one result: a better one takes the place of the other.    *)
Keep(seen, r) ==
  IF SameAs(r, seen) = {} THEN Append(seen, r)
  ELSE [i \in DOMAIN seen |-> IF i \in SameAs(r, seen) /\ Quality(r) > Quality(seen[i]) THEN r ELSE seen[i]]

(* What is left of the results, which are taken one by one.                *)
Deduplicated(found) ==
  LET seen[n \in 0 .. Len(found)] == IF n = 0 THEN <<>> ELSE Keep(seen[n - 1], found[n])
  IN  seen[Len(found)]

(* Two results of one address are compared by their snippets; a result     *)
(* without one, not even an empty one, makes that raise.                   *)
Incomparable ==
  \E i, j \in DOMAIN raw : i # j /\ Address(raw[i].url) = Address(raw[j].url) /\ raw[i].snippet = None

Aggregate ==
  /\ waiting = {} /\ kept = None /\ ~raised
  /\ IF Incomparable THEN raised' = TRUE /\ UNCHANGED kept
     ELSE kept' = Deduplicated(raw) /\ UNCHANGED raised
  /\ UNCHANGED <<waiting, raw>>

Next == (\E e \in Engines : EngineAnswers(e)) \/ Aggregate
Spec == Init /\ [][Next]_vars

-----------------------------------------------------------------------------
TypeOK ==
  /\ waiting \subseteq Engines /\ raised \in BOOLEAN
  /\ kept # None => ToSet(kept) \subseteq ToSet(raw)

(* In whatever order the engines answer, the agent is shown every address  *)
(* once, with the result that has most to say of all that name it          *)
(* (_deduplicate).                                                         *)
BestIsKept ==
  kept # None =>
    /\ \A i, j \in DOMAIN kept : Address(kept[i].url) = Address(kept[j].url) => i = j
    /\ \A r \in ToSet(raw) : \E k \in ToSet(kept) :
         k = r \/ (Address(k.url) = Address(r.url) /\ Quality(k) >= Quality(r))

(* Once something is shown, all engines have answered.                     *)
IInv ==
  /\ TypeOK
  /\ raw \in Seq(Results)
  /\ kept # None => waiting = {}
  /\ BestIsKept
===================================================================================
