-------------------------------- MODULE Knowledge --------------------------------
(***************************************************************************)
(* The intelligence and the reports that are made of it.  A report is      *)
(* drafted from what the intelligence has at that time, which is a choice  *)
(* in Reports, so they share no row: the first state chooses which of them *)
(* moves, and the other stays as it is at first.                           *)
(***************************************************************************)
EXTENDS Intelligence

CONSTANTS Reports,     \* ids a report can get
          Requested,   \* competitors a report is requested for
          Untraced,    \* evidence without id and without url
          Contents,    \* contents the model can write
          AutoPublish  \* auto_publish_enabled

VARIABLES part, report, bound, claims, reviews, issued, gone, desk, asked

Rep == INSTANCE Reports WITH
  Competitors <- Requested, Evidence <- Anchors, job <- desk, requests <- asked

(* The absence of a report is no report.                                   *)
ASSUME KnowledgeAssumption == None \notin Rep!Report

reports == <<report, bound, claims, reviews, issued, gone, desk, asked>>

InitPart == part \in {"intelligence", "reports"} /\ Init /\ Rep!Init

NextPart ==
  \/ part = "intelligence" /\ Next /\ UNCHANGED <<part, reports>>
  \/ part = "reports" /\ Rep!Next /\ UNCHANGED <<part, vars>>

SpecPart == InitPart /\ [][NextPart]_<<part, vars, reports>>

-----------------------------------------------------------------------------
(* The rows and requests of both keep to their values.                     *)
PartsTypeOK == TypeOK /\ Rep!TypeOK

(* A report is approved and published only after its reviews passed, see   *)
(* Reports.                                                                *)
PublishedWasReviewed == Rep!PublishedWasReviewed
==================================================================================
