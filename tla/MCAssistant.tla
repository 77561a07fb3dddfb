------------------------------- MODULE MCAssistant -------------------------------
(* An instance of the parts around the assistant and its upkeep, for TLC.  *)
(* The requests t1 and t2 are interchangeable.                             *)
EXTENDS Assistant, TLC

CONSTANTS c1

ToolNeeds == <<"intel", "report">>
GroupsOfEdits == {{"embedding"}, {"pg", "upload"}, {"judge", "web"}, {"extraction", "rrf", "gate"},
                  {"qdrant", "llm"}}

VersionBatches == <<<<1, 2>>, <<3>>>>

Piece(d, p, k, t, r, s) ==
  [document |-> d, place |-> p, kind |-> k, tier |-> t, role |-> r, stance |-> s]
PiecesOffered == {Piece(1, 1, "media", "A", "independent", "supports"),
                  Piece(2, 1, "media", "B", "independent", "supports"),
                  Piece(3, 1, "media", "C", "unknown", "contradicts"),
                  Piece(3, 2, "official", "A", "primary", "supports"),
                  Piece(3, 2, "community", "C", "primary", "supports")}
ExtractedPieces == <<Piece(1, 1, "media", "A", "unknown", "supports"),
                     Piece(1, 2, "media", "A", "unknown", "supports")>>

TextsStated == {{"n1", "n3"}, {"n2"}}

DomainParents == [d \in {"a.com", "x.a.com", "local"} |-> IF d = "x.a.com" THEN <<"a.com">> ELSE <<>>]

Url(www, query) == [scheme |-> "https", site |-> "s", www |-> www, slash |-> www, query |-> query]
Hit(url, score, snippet, dated) == [url |-> url, score |-> score, snippet |-> snippet, dated |-> dated, titled |-> TRUE]
EngineOffers == [
  duckduckgo |-> {<<Hit(Url(TRUE, {}), None, 200, FALSE), Hit(Url(FALSE, {"id"}), None, 600, FALSE)>>,
                  <<Hit(Url(FALSE, {"utm"}), None, None, FALSE)>>},
  tavily |-> {<<Hit(Url(FALSE, {}), 40, 100, FALSE), Hit(Url(FALSE, {"id", "utm"}), 10, 400, FALSE)>>},
  newsapi |-> {<<Hit(Url(FALSE, {"utm"}), None, 450, TRUE), Hit(Url(FALSE, {"id"}), None, 600, TRUE)>>}]

Alike == Permutations(Threads)
==================================================================================
