------------------------------- MODULE HybridSearch -------------------------------
(* Hybrid search: the vector channel and the keyword channel each rank     *)
(* parent chunks, reciprocal rank fusion joins the two rankings, and the   *)
(* text is read last (infrastructure/hybrid_search_service.py).  Documents *)
(* go on to new versions between the three reads.                          *)
EXTENDS Naturals, Sequences, FiniteSets, SequencesExt

CONSTANTS
  Documents,
  MaxVersion,        \* bound: versions of a document; each has one parent chunk
  ChildrenOf,        \* children of a parent chunk
  Candidates,        \* vector_candidates, keyword_candidates
  TopK, RrfK, VectorWeight, KeywordWeight

VARIABLES
  active,            \* source_document_versions: the active version of a document, 0 for none
  points,            \* the parents whose children are in the vector index
  semantic, keyword, \* the rankings: sequences of parents
  results, search    \* the answer, and where the search stands
vars == <<active, points, semantic, keyword, results, search>>

Parents == Documents \X (1..MaxVersion)
IsActive(p) == active[p[1]] = p[2]
(* A finite set in the order of a relation.                                *)
Before(S, R, x) == {y \in S : <<y, x>> \in R}
InOrder(S, R) == [n \in 1..Cardinality(S) |-> CHOOSE x \in S : Cardinality(Before(S, R, x)) = n - 1]
(* What stands at some positions of a sequence.                            *)
Picked(s, P) ==
  LET pos == InOrder(P, {pair \in P \X P : pair[1] < pair[2]})
  IN  [n \in DOMAIN pos |-> s[pos[n]]]
(* Distinct hits, best first.                                              *)
Rankings(S) == UNION {{s \in [1..n -> S] : IsInjective(s)} : n \in 0..Candidates}

Init ==
  /\ active = [d \in Documents |-> 1]
  /\ points = {p \in Parents : p[2] = 1}
  /\ semantic = <<>> /\ keyword = <<>> /\ results = <<>> /\ search = "vectors"

(* A new version is served; the points of the old one may outlive it.      *)
Switch(d) ==
  /\ active[d] < MaxVersion
  /\ active' = [active EXCEPT ![d] = @ + 1]
  /\ \E old \in {{}, {<<d, active[d]>>}} : points' = (points \cup {<<d, active[d] + 1>>}) \ old
  /\ UNCHANGED <<semantic, keyword, results, search>>

(* The first child of a parent gives the parent its rank.                  *)
DedupeByParent(hits) ==
  LET of == [i \in DOMAIN hits |-> hits[i][1]]
  IN  Picked(of, {i \in DOMAIN of : \A j \in 1..i - 1 : of[j] # of[i]})
SearchVectors ==
  /\ search = "vectors" /\ search' = "keywords"
  /\ \E hits \in Rankings(points \X ChildrenOf) : semantic' = DedupeByParent(hits)
  /\ UNCHANGED <<active, points, keyword, results>>

(* A channel that fails is left out; only active versions have keywords.   *)
ChannelFails ==
  /\ \/ search = "vectors" /\ search' = "keywords" /\ semantic' = <<>> /\ UNCHANGED keyword
     \/ search = "keywords" /\ search' = "fuse" /\ keyword' = <<>> /\ UNCHANGED semantic
  /\ UNCHANGED <<active, points, results>>
SearchKeywords ==
  /\ search = "keywords" /\ search' = "fuse"
  /\ \E ranking \in Rankings({p \in Parents : IsActive(p)}) : keyword' = ranking
  /\ UNCHANGED <<active, points, semantic, results>>

(********************************* Fusion **********************************)

Found == ToSet(semantic) \cup ToSet(keyword)
RankIn(ranking, p) == CHOOSE r \in DOMAIN ranking : ranking[r] = p
(* weight / (k + rank), over the common denominator of all ranks.          *)
Scale ==
  LET product[r \in 0..Candidates] == IF r = 0 THEN 1 ELSE product[r - 1] * (RrfK + r)
  IN  product[Candidates]
Part(ranking, weight, p) ==
  IF p \in ToSet(ranking) THEN weight * (Scale \div (RrfK + RankIn(ranking, p))) ELSE 0
(* Variant: the second channel's score replaces the first's.               *)
ScoreOfLast(p) ==
  IF p \in ToSet(keyword) THEN Part(keyword, KeywordWeight, p) ELSE Part(semantic, VectorWeight, p)
Score(p) == Part(semantic, VectorWeight, p) + Part(keyword, KeywordWeight, p)
(* Ties keep the order in which the parents were found.                    *)
FoundAt(p) ==
  IF p \in ToSet(semantic) THEN RankIn(semantic, p) ELSE Len(semantic) + RankIn(keyword, p)
Precedes(p, q) == Score(p) > Score(q) \/ (Score(p) = Score(q) /\ FoundAt(p) < FoundAt(q))
RrfFuse == InOrder(Found, {pair \in Found \X Found : Precedes(pair[1], pair[2])})

(* Variant: the query reads the chunks of every version.                   *)
GetParentChunksOfAllVersions(ids) == ids
(* One query for the texts, which joins on the active version.             *)
GetParentChunksByIds(ids) == Picked(ids, {i \in DOMAIN ids : IsActive(ids[i])})

Fuse ==
  /\ search = "fuse" /\ search' = "done"
  /\ LET top == IF Len(RrfFuse) > TopK THEN SubSeq(RrfFuse, 1, TopK) ELSE RrfFuse
     IN results' = GetParentChunksByIds(top)
  /\ UNCHANGED <<active, points, semantic, keyword>>

Next == SearchVectors \/ SearchKeywords \/ ChannelFails \/ Fuse \/ \E d \in Documents : Switch(d)
Spec == Init /\ [][Next]_vars

(******************************** Properties *******************************)

TypeOK ==
  /\ active \in [Documents -> 0..MaxVersion] /\ points \subseteq Parents
  /\ ToSet(semantic) \cup ToSet(keyword) \cup ToSet(results) \subseteq Parents
  /\ search \in {"vectors", "keywords", "fuse", "done"}

(* An answer never shows two versions of a document, although its channels *)
(* and its texts are read at different times (search).                     *)
OneVersionPerAnswer ==
  \A i, j \in DOMAIN results : results[i][1] = results[j][1] => i = j

(* Of two parents in an answer, one that no channel ranks lower than the    *)
(* other, and one ranks higher, comes first (_rrf_fuse).                   *)
Rank(ranking, p) == IF p \in ToSet(ranking) THEN RankIn(ranking, p) ELSE Candidates + 1
Dominates(p, q) ==
  /\ Rank(semantic, p) <= Rank(semantic, q) /\ Rank(keyword, p) <= Rank(keyword, q)
  /\ Rank(semantic, p) < Rank(semantic, q) \/ Rank(keyword, p) < Rank(keyword, q)
AnswersInOrder ==
  search = "done" =>
    \A j \in DOMAIN results : \A p \in Found :
      Dominates(p, results[j]) /\ (\E i \in DOMAIN results : results[i] = p)
        => RankIn(results, p) < j

(* What holds in between: rankings name a parent once and are not longer   *)
(* than what was asked for, and the answer comes last.                     *)
IsRanking(s) == s \in Seq(Parents) /\ IsInjective(s) /\ Len(s) <= Candidates
IInv ==
  /\ TypeOK
  /\ IsRanking(semantic) /\ IsRanking(keyword)
  /\ search # "done" => results = <<>>
  /\ OneVersionPerAnswer /\ AnswersInOrder
===================================================================================
