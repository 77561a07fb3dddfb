------------------------------- MODULE MCKnowledge -------------------------------
(* An instance of the intelligence and of the reports for TLC.             *)
EXTENDS Knowledge, TLC

CONSTANTS f1, f2, x, y, acme, globex

(* The anchors x and y come from two clusters, y from a source the         *)
(* competitor controls; one draft is stored and x supports it.             *)
AnchorCluster    == (x :> 1) @@ (y :> 2)
AnchorController == (x :> None) @@ (y :> acme)
NoStance         == (x :> None) @@ (y :> None)
FirstStance      == (f1 :> ((x :> "supports") @@ (y :> None))) @@ (f2 :> NoStance)

(* Contents a model can write: good, silent about limits, and one without  *)
(* headings that cites more than there is.                                 *)
Text(heading, limits, more) == [heading |-> heading, limits |-> limits, citesMore |-> more]
Texts == {Text(TRUE, TRUE, FALSE), Text(TRUE, FALSE, FALSE), Text(FALSE, TRUE, TRUE)}

ThreadSymmetry == Permutations(Threads)
=================================================================================
