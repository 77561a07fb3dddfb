----------------------------- MODULE MCCollection -----------------------------
(* Instances of Collection for TLC.                                        *)
EXTENDS Collection, TLC

CONSTANTS p1, p2, c1

(* Either one candidate, of the first source, or none at all.              *)
NoSource   == << >>
OneSource  == (c1 :> p1)

(* Workers are interchangeable; used by the safety runs only.              *)
WorkerSymmetry == Permutations(Workers)

(* So are runs of one task each.                                           *)
RunSymmetry == WorkerSymmetry \cup Permutations(Runs)
===============================================================================
