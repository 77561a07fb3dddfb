-------------------------- MODULE MCDocumentVersions --------------------------
(* Instances of DocumentVersions for TLC: the same content at two URLs,    *)
(* the second of a better source, and at the first URL a similar content   *)
(* of the best source that is too short to be promoted.                    *)
EXTENDS DocumentVersions, TLC

CONSTANTS a1, a2, a3, u1, u2, x, y

ArticleUrl  == (a1 :> u1) @@ (a2 :> u2) @@ (a3 :> u1)
ArticleBody == (a1 :> x) @@ (a2 :> x) @@ (a3 :> y)
ArticleTier == (a1 :> 1) @@ (a2 :> 2) @@ (a3 :> 3)
BodyLength  == (x :> 10) @@ (y :> 6)
BodyBands   == (x :> {1}) @@ (y :> {2})
NearBodies  == {<<x, y>>, <<y, x>>}

WorkerSymmetry == Permutations(Workers)
===============================================================================
