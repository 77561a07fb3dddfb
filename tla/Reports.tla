-------------------------------- MODULE Reports --------------------------------
(***************************************************************************)
(* Analysis reports: a draft is generated from the stored intelligence,    *)
(* passes a quality gate of rules and of a judge model, and is approved    *)
(* and published by administrators.                                        *)
(*                                                                         *)
(* Every call of the report store is a transaction of its own and          *)
(* update_report_status writes without looking, so generation, repeated    *)
(* reviews and the decisions of administrators interleave.  A request can  *)
(* raise or die between any two of its transactions.                       *)
(***************************************************************************)
EXTENDS Naturals, FiniteSets

CONSTANTS Reports,      \* ids a report can get
          Threads,      \* request threads of the API
          Competitors,  \* competitors a report is requested for
          Evidence,     \* evidence references the intelligence can return
          Untraced,     \* evidence without id and without url
          Contents,     \* contents the model can write: records of Content
          AutoPublish,  \* auto_publish_enabled
          None,         \* NULL, no row
          MaxRequests   \* bound: requests begun

VARIABLES
  report,   \* analysis_reports
  bound,    \* report_evidence_refs of a report
  claims,   \* does the report have report_claims?
  reviews,  \* report_quality_reviews of a report
  issued,   \* ids given to a report: a serial never returns one
  gone,     \* deleted competitors
  job,      \* what each request thread is doing
  requests  \* requests begun so far

rows == <<report, bound, claims, reviews, issued>>
vars == <<report, bound, claims, reviews, issued, gone, job, requests>>

-----------------------------------------------------------------------------
Status == {"draft", "quality_reviewing", "revision_required", "waiting_review",
           "approved", "published"}
ReviewStatus == {"not_reviewed", "passed", "failed", "needs_human"}

(* What the rules see of a content the model wrote: a Markdown heading, a  *)
(* mention of limitations, and the evidence its labels cite.               *)
Content == [heading : BOOLEAN, limits : BOOLEAN, citesMore : BOOLEAN]
Report == [status : Status, review : ReviewStatus, content : Contents,
           approved : BOOLEAN, published : BOOLEAN]
Review == [type : {"rule", "llm"}, status : ReviewStatus]

(* The result of build_report_context and select_or_create_claims.         *)
Context == [evidence : SUBSET Evidence, claims : BOOLEAN, limited : BOOLEAN]

Idle == [at |-> "idle"]
DraftJobs == [at : {"draft"}, context : Context]
GenerateJobs == [at : {"attach_claims", "attach_evidence", "submit"}, id : Reports,
                 context : Context, auto : BOOLEAN]
GateJobs == [at : {"rules"}, id : Reports, limited : BOOLEAN, auto : BOOLEAN]
JudgeJobs == [at : {"judge"}, id : Reports, auto : BOOLEAN]
ApplyJobs == [at : {"apply"}, id : Reports, verdict : ReviewStatus, auto : BOOLEAN]
DecisionJobs == [at : {"resubmit", "approve", "reject", "publish", "delete"}, id : Reports]
Jobs == {Idle} \cup DraftJobs \cup GenerateJobs \cup GateJobs \cup JudgeJobs
          \cup ApplyJobs \cup DecisionJobs

Become(t, j) == job' = [job EXCEPT ![t] = j]
Return(t) == Become(t, Idle)
Exists(r) == report[r] # None

Enter(t, j) ==
  /\ job[t] = Idle
  /\ requests < MaxRequests
  /\ requests' = requests + 1
  /\ Become(t, j)

(* update_report_status: whatever the row says now, but not without a row. *)
(* Approval and publication leave their mark.                              *)
UpdateStatus(r, status, review) ==
  report' = [report EXCEPT ![r] = IF @ = None THEN None ELSE
    [report[r] EXCEPT !.status = status,
                      !.review = review,
                      !.approved = report[r].approved \/ status = "approved",
                      !.published = report[r].published \/ status = "published"]]

KeepReview(r) == IF Exists(r) THEN report[r].review ELSE "not_reviewed"

-----------------------------------------------------------------------------
Init ==
  /\ report = [r \in Reports |-> None]
  /\ bound = [r \in Reports |-> {}]
  /\ claims = [r \in Reports |-> FALSE]
  /\ reviews = [r \in Reports |-> {}]
  /\ issued = {}
  /\ gone = {}
  /\ job = [t \in Threads |-> Idle]
  /\ requests = 0

(* build_report_context collects what the intelligence has now; evidence   *)
(* that is missing, or a competitor that is, is a limitation the report    *)
(* must mention, and so is a comparison of less than two.  No competitor   *)
(* at all refuses the request.                                             *)
BuildContext(t, evidence, withClaims, limited) ==
  /\ gone # Competitors
  /\ gone # {} \/ evidence = {} => limited
  /\ Enter(t, [at |-> "draft",
               context |-> [evidence |-> evidence, claims |-> withClaims,
                            limited |-> limited]])
  /\ UNCHANGED <<rows, gone>>

(* The content comes from the model; save_draft stores the report, then    *)
(* its claims, then its evidence.                                          *)
SaveDraft(t, r, content, auto) ==
  /\ job[t].at = "draft"
  /\ r \notin issued
  /\ issued' = issued \cup {r}
  /\ report' = [report EXCEPT ![r] = [status |-> "draft", review |-> "not_reviewed",
                  content |-> content, approved |-> FALSE, published |-> FALSE]]
  /\ Become(t, [at |-> "attach_claims", id |-> r, context |-> job[t].context, auto |-> auto])
  /\ UNCHANGED <<bound, claims, reviews, gone, requests>>

(* A row that refers to a report that was deleted violates its foreign key.*)
AttachClaims(t) ==
  /\ job[t].at = "attach_claims"
  /\ LET j == job[t]
     IN  IF Exists(j.id) \/ ~j.context.claims
         THEN /\ claims' = [claims EXCEPT ![j.id] = @ \/ j.context.claims]
              /\ Become(t, [j EXCEPT !.at = "attach_evidence"])
         ELSE Return(t) /\ UNCHANGED claims
  /\ UNCHANGED <<report, bound, reviews, issued, gone, requests>>

AttachEvidence(t) ==
  /\ job[t].at = "attach_evidence"
  /\ LET j == job[t]
     IN  IF Exists(j.id) \/ j.context.evidence = {}
         THEN /\ bound' = [bound EXCEPT ![j.id] = @ \cup j.context.evidence]
              /\ Become(t, [j EXCEPT !.at = "submit"])
         ELSE Return(t) /\ UNCHANGED bound
  /\ UNCHANGED <<report, claims, reviews, issued, gone, requests>>

(* run_quality_gate: the new report is under review.                       *)
Submit(t) ==
  /\ job[t].at = "submit"
  /\ LET j == job[t]
     IN  /\ UpdateStatus(j.id, "quality_reviewing", "not_reviewed")
         /\ Become(t, IF Exists(j.id)
                      THEN [at |-> "rules", id |-> j.id, limited |-> j.context.limited, auto |-> j.auto]
                      ELSE Idle)
  /\ UNCHANGED <<bound, claims, reviews, issued, gone, requests>>

(* review_existing_report: of a report in any status, with no context and  *)
(* with the last verdict still in its row.                                 *)
PostReview(t, r) ==
  /\ Exists(r)
  /\ Enter(t, [at |-> "resubmit", id |-> r])
  /\ UNCHANGED <<rows, gone>>

Resubmit(t) ==
  /\ job[t].at = "resubmit"
  /\ LET r == job[t].id
     IN  /\ UpdateStatus(r, "quality_reviewing", KeepReview(r))
         /\ Become(t, IF Exists(r)
                      THEN [at |-> "rules", id |-> r, limited |-> FALSE, auto |-> FALSE] ELSE Idle)
  /\ UNCHANGED <<bound, claims, reviews, issued, gone, requests>>

-----------------------------------------------------------------------------
(* The blocking issues of run_rule_gate.                                   *)
Blockers(r, limited) ==
  LET c == report[r].content
  IN  {i \in {"structure", "competitor", "evidence", "trace", "citation", "limitation"} :
         CASE i = "structure"  -> ~c.heading
           [] i = "competitor" -> gone # {}
           [] i = "evidence"   -> bound[r] = {}
           [] i = "trace"      -> bound[r] \cap Untraced # {}
           [] i = "citation"   -> c.citesMore
           [] i = "limitation" -> limited /\ ~c.limits}

RuleStatus(r, limited) == IF Blockers(r, limited) = {} THEN "passed" ELSE "failed"

SaveReview(r, type, status) ==
  reviews' = [reviews EXCEPT ![r] = @ \cup {[type |-> type, status |-> status]}]

(* The rules fail the report, or the judge is asked.                       *)
RunRuleGate(t) ==
  /\ job[t].at = "rules"
  /\ LET j == job[t]
         status == RuleStatus(j.id, j.limited)
     IN  IF Exists(j.id)
         THEN /\ SaveReview(j.id, "rule", status)
              /\ Become(t, IF status = "failed"
                           THEN [at |-> "apply", id |-> j.id, verdict |-> "failed", auto |-> j.auto]
                           ELSE [at |-> "judge", id |-> j.id, auto |-> j.auto])
         ELSE Return(t) /\ UNCHANGED reviews
  /\ UNCHANGED <<report, bound, claims, issued, gone, requests>>

(* Without a judge a human is needed; an answer that is an error or no     *)
(* JSON object fails the report, and scores below the thresholds do.       *)
RunJudgeReview(t, verdict) ==
  /\ job[t].at = "judge"
  /\ verdict \in {"passed", "failed", "needs_human"}
  /\ LET j == job[t]
     IN  IF Exists(j.id)
         THEN /\ SaveReview(j.id, "llm", verdict)
              /\ Become(t, [at |-> "apply", id |-> j.id, verdict |-> verdict, auto |-> j.auto])
         ELSE Return(t) /\ UNCHANGED reviews
  /\ UNCHANGED <<report, bound, claims, issued, gone, requests>>

ApplyQualityResult(t) ==
  /\ job[t].at = "apply"
  /\ LET j == job[t]
         status == CASE j.verdict = "failed" -> "revision_required"
                     [] j.verdict = "passed" /\ j.auto /\ AutoPublish -> "approved"
                     [] OTHER -> "waiting_review"
     IN  UpdateStatus(j.id, status, j.verdict)
  /\ Return(t)
  /\ UNCHANGED <<bound, claims, reviews, issued, gone, requests>>

-----------------------------------------------------------------------------
(* Decisions of an administrator: look in one transaction, write in the    *)
(* next.                                                                   *)
LookToApprove(t, r) ==
  /\ Exists(r)
  /\ report[r].status = "waiting_review"
  /\ report[r].review = "passed"
  /\ Enter(t, [at |-> "approve", id |-> r])
  /\ UNCHANGED <<rows, gone>>

LookToReject(t, r) ==
  /\ Exists(r)
  /\ report[r].status = "waiting_review"
  /\ Enter(t, [at |-> "reject", id |-> r])
  /\ UNCHANGED <<rows, gone>>

(* Variant: a report that only passed its review can be published.         *)
LookToPublishPassed(t, r) ==
  /\ Exists(r)
  /\ report[r].review = "passed"
  /\ Enter(t, [at |-> "publish", id |-> r])
  /\ UNCHANGED <<rows, gone>>

LookToPublish(t, r) ==
  /\ Exists(r)
  /\ report[r].status = "approved"
  /\ report[r].review = "passed"
  /\ Enter(t, [at |-> "publish", id |-> r])
  /\ UNCHANGED <<rows, gone>>

Decide(t, at, status) ==
  /\ job[t].at = at
  /\ UpdateStatus(job[t].id, status, KeepReview(job[t].id))
  /\ Return(t)
  /\ UNCHANGED <<bound, claims, reviews, issued, gone, requests>>

Approve(t) == Decide(t, "approve", "approved")
Reject(t)  == Decide(t, "reject", "revision_required")
Publish(t) == Decide(t, "publish", "published")

LookToDelete(t, r) ==
  /\ Exists(r)
  /\ Enter(t, [at |-> "delete", id |-> r])
  /\ UNCHANGED <<rows, gone>>

(* The references and reviews go with the report.                          *)
Delete(t) ==
  /\ job[t].at = "delete"
  /\ LET r == job[t].id
     IN  /\ report' = [report EXCEPT ![r] = None]
         /\ bound' = [bound EXCEPT ![r] = {}]
         /\ claims' = [claims EXCEPT ![r] = FALSE]
         /\ reviews' = [reviews EXCEPT ![r] = {}]
  /\ Return(t)
  /\ UNCHANGED <<issued, gone, requests>>

RemoveCompetitor(c) ==
  /\ c \notin gone
  /\ requests < MaxRequests
  /\ requests' = requests + 1
  /\ gone' = gone \cup {c}
  /\ UNCHANGED <<rows, job>>

(* The request raises (a score that is no number, a database error) or its *)
(* process dies: the report keeps the status it has.                       *)
Abandon(t) ==
  /\ job[t] # Idle
  /\ Return(t)
  /\ UNCHANGED <<rows, gone, requests>>

Generate(t) ==
  \/ \E e \in SUBSET Evidence, c, l \in BOOLEAN : BuildContext(t, e, c, l)
  \/ \E r \in Reports, c \in Contents, a \in BOOLEAN : SaveDraft(t, r, c, a)
  \/ AttachClaims(t) \/ AttachEvidence(t) \/ Submit(t)

ReviewReport(t) ==
  \/ (\E r \in Reports : PostReview(t, r)) \/ Resubmit(t)
  \/ RunRuleGate(t) \/ (\E v \in ReviewStatus : RunJudgeReview(t, v)) \/ ApplyQualityResult(t)

DecideOn(t) ==
  \/ \E r \in Reports : LookToApprove(t, r) \/ LookToReject(t, r) \/ LookToPublish(t, r) \/ LookToDelete(t, r)
  \/ Approve(t) \/ Reject(t) \/ Publish(t) \/ Delete(t)

Next ==
  \/ \E t \in Threads : Generate(t) \/ ReviewReport(t) \/ DecideOn(t) \/ Abandon(t)
  \/ \E c \in Competitors : RemoveCompetitor(c)

Spec == Init /\ [][Next]_vars

-----------------------------------------------------------------------------
(* Rows and requests keep to their values.                                 *)
TypeOK ==
  /\ report \in [Reports -> Report \cup {None}]
  /\ bound \in [Reports -> SUBSET Evidence]
  /\ claims \in [Reports -> BOOLEAN]
  /\ reviews \in [Reports -> SUBSET Review]
  /\ issued \subseteq Reports
  /\ gone \subseteq Competitors
  /\ job \in [Threads -> Jobs]
  /\ requests \in 0 .. MaxRequests

Passed(type) == [type |-> type, status |-> "passed"]

(* However generation, reviews and decisions race, a report is approved    *)
(* only when its rules and its judge have passed it once, and published    *)
(* only when it has been approved.                                         *)
PublishedWasReviewed ==
  \A r \in Reports : Exists(r) =>
    /\ report[r].approved => {Passed("rule"), Passed("llm")} \subseteq reviews[r]
    /\ report[r].published => report[r].approved

-----------------------------------------------------------------------------
(* The inductive invariant: what PublishedWasReviewed rests on between the *)
(* transactions of a request.                                              *)
BothPassed == {Passed("rule"), Passed("llm")}

(* A report that is there was given its id, which no other gets; its row   *)
(* reads "passed" only after both reviews.                                 *)
RowOK(r) ==
  report[r] # None =>
    /\ r \in issued
    /\ report[r].review = "passed" \/ report[r].approved => BothPassed \subseteq reviews[r]
    /\ report[r].status = "approved" \/ report[r].published => report[r].approved

(* What a request relies on is still so if its report is still there: ids  *)
(* stands for issued, row for report, held for reviews.                    *)
JobOK(j, ids, row, held) ==
  j.at \notin {"idle", "draft"} =>
    /\ j.id \in ids
    /\ row[j.id] # None =>
         /\ j.at = "judge" => Passed("rule") \in held[j.id]
         /\ j.at = "apply" /\ j.verdict = "passed" => BothPassed \subseteq held[j.id]
         /\ j.at \in {"approve", "publish"} => BothPassed \subseteq held[j.id]
         /\ j.at = "publish" => row[j.id].approved

IInv ==
  /\ TypeOK
  /\ \A r \in Reports : RowOK(r)
  /\ \A t \in Threads : JobOK(job[t], issued, report, reviews)

(* Reports come under new ids, keep their reviews and their approval, and  *)
(* go for good.                                                            *)
Evolves ==
  /\ issued \subseteq issued'
  /\ \A r \in issued : report'[r] # None =>
       /\ report[r] # None /\ reviews[r] \subseteq reviews'[r]
       /\ report[r].approved => report'[r].approved
================================================================================
