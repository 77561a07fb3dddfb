----------------------------- MODULE Intelligence -----------------------------
(***************************************************************************)
(* The three-layer structured intelligence of InsightForge: Evidence       *)
(* References support Intel Facts, Intel Facts support Insight Claims.     *)
(*                                                                         *)
(* A request of the v2 API runs in a thread of its own and every call of a *)
(* store is a transaction of its own, so a request is a chain of actions   *)
(* and requests about the same fact or claim interleave between any two.   *)
(* A request that raises, or whose process dies, leaves what its earlier   *)
(* transactions wrote.                                                     *)
(***************************************************************************)
EXTENDS Naturals, FiniteSets

CONSTANTS Facts,        \* ids an Intel Fact can get
          Anchors,      \* Evidence References
          Competitors,
          Claims,       \* ids an Insight Claim can get
          Analysts,     \* actors that may approve a claim
          Threads,      \* request threads of the API
          ClusterOf,    \* the Document Cluster of an anchor's version
          Admitted,     \* anchors whose source has tier A, B or C
          ControllerOf, \* the competitor that controls an anchor's source
          StoredStance, \* fact_evidence at the start
          Stored,       \* drafts stored at the start, with confirmed subjects
          None,         \* NULL, no row
          MaxRequests   \* bound: requests that take more than one transaction

VARIABLES
  fact,     \* intel_facts
  stance,   \* fact_evidence: the stance of an anchor towards a fact
  subject,  \* confirmed subjects in intel_fact_competitors
  claim,    \* insight_claims
  cites,    \* claim_facts with stance 'supports'
  job,      \* what each request thread is doing
  proven,   \* history: facts that were active at some time
  cited,    \* history: facts a claim cited at some time
  requests  \* requests begun so far

factRows  == <<fact, stance, subject, proven>>
claimRows == <<claim, cites, cited>>
vars == <<fact, stance, subject, proven, claim, cites, cited, job, requests>>

-----------------------------------------------------------------------------
Lifecycle    == {"draft", "active", "superseded", "retracted", "rejected"}
Verification == {"single_source", "self_reported", "corroborated", "disputed"}
Stances      == {"supports", "contradicts", "contextual"}
Maturity     == {"draft", "hypothesis", "supported", "needs_review", "disputed", "superseded"}

FactRow  == [life : Lifecycle, verified : Verification, supersedes : Facts \cup {None}]
ClaimRow == [maturity : Maturity, approvedBy : Analysts \cup {None}]

Idle == [at |-> "idle"]
FactJobs == [at : {"gate", "derive", "hold", "activate", "retract", "save_new", "flip"}, fact : Facts]
SplitJobs == [at : {"move"}, from : Facts, to : Facts, refs : SUBSET Anchors]
DeriveJobs == [at : {"recompute"}, fact : Facts, next : Facts \cup {None}]
VerifyJobs == [at : {"verify"}, fact : Facts, verdict : Verification]
WriteJobs == [at : {"rewrite"}, fact : Facts, verdict : Verification, next : Facts \cup {None}]
LinkJobs == [at : {"attach", "replace"}, claim : Claims, links : SUBSET Facts]
CommitJobs == [at : {"commit"}, claim : Claims, links : SUBSET Facts, saw : SUBSET Facts]
ApproveJobs == [at : {"list", "support"}, claim : Claims, actor : Analysts]
CollectJobs == [at : {"collect"}, claim : Claims, actor : Analysts,
                todo : SUBSET Facts, found : BOOLEAN]
Jobs == {Idle} \cup FactJobs \cup SplitJobs \cup DeriveJobs \cup VerifyJobs \cup WriteJobs
          \cup LinkJobs \cup CommitJobs \cup ApproveJobs \cup CollectJobs

(* The absence of a row is no row; what is stored at first is evidence, in *)
(* finitely many rows.                                                     *)
Rows(links) == {p \in Facts \X Anchors : links[p[1]][p[2]] # None}
ASSUME IntelligenceAssumption ==
  /\ MaxRequests \in Nat
  /\ None \notin FactRow /\ None \notin ClaimRow /\ None \notin Stances
  /\ StoredStance \in [Facts -> [Anchors -> Stances \cup {None}]]
  /\ IsFiniteSet(Rows(StoredStance))

Become(t, j) == job' = [job EXCEPT ![t] = j]
Return(t) == Become(t, Idle)

(* A request enters a free thread.                                         *)
Enter(t, j) ==
  /\ job[t] = Idle
  /\ requests < MaxRequests
  /\ requests' = requests + 1
  /\ Become(t, j)

Exists(f) == fact[f] # None
Linked(f) == {a \in Anchors : stance[f][a] # None}
With(f, s) == {a \in Anchors : stance[f][a] = s}

(* derive_status.                                                          *)
Verdict(f) ==
  LET supports == With(f, "supports") \cap Admitted
      contra   == With(f, "contradicts") \cap Admitted
      clusters == {ClusterOf[a] : a \in supports}
  IN  IF contra # {} THEN "disputed"
      ELSE IF supports = {} THEN "single_source"
      ELSE IF \A a \in supports : ControllerOf[a] \in subject[f] THEN "self_reported"
      ELSE IF Cardinality(clusters) >= 2 THEN "corroborated"
      ELSE "single_source"

HasSupport(f) == With(f, "supports") \cap Admitted # {}

(* The activation gate: a confirmed subject and a supporting anchor.       *)
GatePasses(f) == subject[f] # {} /\ With(f, "supports") # {}

SetLife(f, life) == fact' = [fact EXCEPT ![f].life = life]

(* Variant: the reason is stored for the status of a single source.        *)
SetVerifiedAsText(f, v) ==
  fact' = [fact EXCEPT ![f].verified = IF v = "single_source" THEN "1 qualified cluster" ELSE v]

SetVerified(f, v) == fact' = [fact EXCEPT ![f].verified = v]

-----------------------------------------------------------------------------
Init ==
  /\ fact = [f \in Facts |-> IF f \in Stored
                             THEN [life |-> "draft", verified |-> "single_source", supersedes |-> None]
                             ELSE None]
  /\ stance = StoredStance
  /\ subject = [f \in Facts |-> IF f \in Stored THEN Competitors ELSE {}]
  /\ claim = [c \in Claims |-> None]
  /\ cites = [c \in Claims |-> {}]
  /\ cited = [c \in Claims |-> {}]
  /\ job = [t \in Threads |-> Idle]
  /\ proven = {}
  /\ requests = 0

(* Requests of one transaction.                                            *)

CreateDraftFact(f) ==
  /\ ~Exists(f)
  /\ requests < MaxRequests
  /\ requests' = requests + 1
  /\ fact' = [fact EXCEPT ![f] = [life |-> "draft", verified |-> "single_source", supersedes |-> None]]
  /\ UNCHANGED <<stance, subject, claimRows, job, proven>>

(* An upsert: a second link replaces the stance.  Nothing is recomputed.   *)
LinkEvidence(f, a, s) ==
  /\ Exists(f)
  /\ stance[f][a] # s
  /\ requests < MaxRequests
  /\ requests' = requests + 1
  /\ stance' = [stance EXCEPT ![f][a] = s]
  /\ UNCHANGED <<fact, subject, claimRows, job, proven>>

(* An upsert of a subject link, confirmed or for review; the trigger of an *)
(* active fact only protects the identity of the row.                      *)
LinkSubject(f, c, confirmed) ==
  /\ Exists(f)
  /\ requests < MaxRequests
  /\ requests' = requests + 1
  /\ subject' = [subject EXCEPT ![f] = IF confirmed THEN @ \cup {c} ELSE @ \ {c}]
  /\ UNCHANGED <<fact, stance, claimRows, job, proven>>

-----------------------------------------------------------------------------
(* activate_fact: an active fact returns at once.                          *)
PostActivate(t, f) ==
  /\ Exists(f)
  /\ fact[f].life # "active"
  /\ Enter(t, [at |-> "gate", fact |-> f])
  /\ UNCHANGED <<factRows, claimRows>>

CollectGateReasons(t) ==
  /\ job[t].at = "gate"
  /\ LET f == job[t].fact
     IN  Become(t, [at |-> IF GatePasses(f) THEN "derive" ELSE "hold", fact |-> f])
  /\ UNCHANGED <<factRows, claimRows, requests>>

DeriveStatus(t) ==
  /\ job[t].at = "derive"
  /\ LET f == job[t].fact
         v == Verdict(f)
     IN  Become(t, IF v = "disputed" \/ ~HasSupport(f)
                   THEN [at |-> "hold", fact |-> f]
                   ELSE [at |-> "verify", fact |-> f, verdict |-> v])
  /\ UNCHANGED <<factRows, claimRows, requests>>

(* The gate did not pass: the fact is (again) a draft.                     *)
HoldAsDraft(t) ==
  /\ job[t].at = "hold"
  /\ SetLife(job[t].fact, "draft")
  /\ Return(t)
  /\ UNCHANGED <<stance, subject, claimRows, proven, requests>>

UpdateVerification(t) ==
  /\ job[t].at = "verify"
  /\ SetVerified(job[t].fact, job[t].verdict)
  /\ Become(t, [at |-> "activate", fact |-> job[t].fact])
  /\ UNCHANGED <<stance, subject, claimRows, proven, requests>>

ActivateFact(t) ==
  /\ job[t].at = "activate"
  /\ SetLife(job[t].fact, "active")
  /\ proven' = proven \cup {job[t].fact}
  /\ Return(t)
  /\ UNCHANGED <<stance, subject, claimRows, requests>>

-----------------------------------------------------------------------------
PostRetract(t, f) ==
  /\ Exists(f)
  /\ fact[f].life # "retracted"
  /\ Enter(t, [at |-> "retract", fact |-> f])
  /\ UNCHANGED <<factRows, claimRows>>

RetractFact(t) ==
  /\ job[t].at = "retract"
  /\ SetLife(job[t].fact, "retracted")
  /\ Return(t)
  /\ UNCHANGED <<stance, subject, claimRows, proven, requests>>

(* supersede_fact refuses a fact that is retracted when it looks.          *)
PostSupersede(t, f) ==
  /\ Exists(f)
  /\ fact[f].life # "retracted"
  /\ Enter(t, [at |-> "save_new", fact |-> f])
  /\ UNCHANGED <<factRows, claimRows>>

(* Variant: the old fact is flipped before the new one is saved.           *)
FlipBeforeSave(t, new) ==
  /\ job[t].at = "save_new"
  /\ ~Exists(new)
  /\ SetLife(job[t].fact, "superseded")
  /\ Become(t, [at |-> "flip", fact |-> job[t].fact])
  /\ UNCHANGED <<stance, subject, claimRows, proven, requests>>

SaveSuccessor(t, new) ==
  /\ job[t].at = "save_new"
  /\ ~Exists(new)
  /\ fact' = [fact EXCEPT ![new] = [life |-> "draft", verified |-> "single_source",
                                    supersedes |-> job[t].fact]]
  /\ Become(t, [at |-> "flip", fact |-> job[t].fact])
  /\ UNCHANGED <<stance, subject, claimRows, proven, requests>>

FlipSuperseded(t) ==
  /\ job[t].at = "flip"
  /\ SetLife(job[t].fact, "superseded")
  /\ Return(t)
  /\ UNCHANGED <<stance, subject, claimRows, proven, requests>>

-----------------------------------------------------------------------------
PostSplit(t, from, to, refs) ==
  /\ refs # {}
  /\ Exists(from) /\ Exists(to)
  /\ fact[from].life \in {"draft", "active"}
  /\ Enter(t, [at |-> "move", from |-> from, to |-> to, refs |-> refs])
  /\ UNCHANGED <<factRows, claimRows>>

(* The anchors both facts hold: moving one violates the primary key.       *)
Collisions(from, to, refs) ==
  IF from = to THEN {} ELSE refs \cap Linked(from) \cap Linked(to)

(* Variant: an anchor both facts hold is dropped from the source and from  *)
(* the target, as ON CONFLICT with a DELETE would.                         *)
MoveOverwriting(t) ==
  /\ job[t].at = "move"
  /\ LET j == job[t]
         moved == j.refs \cap Linked(j.from)
     IN  /\ stance' = [stance EXCEPT
               ![j.from] = [a \in Anchors |-> IF a \in moved THEN None ELSE @[a]]]
         /\ Become(t, [at |-> "recompute", fact |-> j.from, next |-> j.to])
  /\ UNCHANGED <<fact, subject, claimRows, proven, requests>>

MoveFactEvidence(t) ==
  /\ job[t].at = "move"
  /\ LET j == job[t]
         moved == j.refs \cap Linked(j.from)
     IN  IF Collisions(j.from, j.to, j.refs) # {}
         THEN Return(t) /\ UNCHANGED stance
         ELSE /\ stance' = [f \in Facts |-> [a \in Anchors |->
                   IF a \notin moved \/ j.from = j.to THEN stance[f][a]
                   ELSE IF f = j.to THEN stance[j.from][a]
                   ELSE IF f = j.from THEN None ELSE stance[f][a]]]
              /\ Become(t, [at |-> "recompute", fact |-> j.from, next |-> j.to])
  /\ UNCHANGED <<fact, subject, claimRows, proven, requests>>

Recompute(t) ==
  /\ job[t].at = "recompute"
  /\ LET j == job[t]
     IN  Become(t, [at |-> "rewrite", fact |-> j.fact, verdict |-> Verdict(j.fact), next |-> j.next])
  /\ UNCHANGED <<factRows, claimRows, requests>>

Rewrite(t) ==
  /\ job[t].at = "rewrite"
  /\ LET j == job[t]
     IN  /\ SetVerified(j.fact, j.verdict)
         /\ Become(t, IF j.next = None THEN Idle
                      ELSE [at |-> "recompute", fact |-> j.next, next |-> None])
  /\ UNCHANGED <<stance, subject, claimRows, proven, requests>>

-----------------------------------------------------------------------------
(* A claim is saved as a hypothesis, its facts are attached afterwards.    *)
CreateHypothesis(t, c, links) ==
  /\ claim[c] = None
  /\ links # {}
  /\ claim' = [claim EXCEPT ![c] = [maturity |-> "hypothesis", approvedBy |-> None]]
  /\ Enter(t, [at |-> "attach", claim |-> c, links |-> links])
  /\ UNCHANGED <<factRows, cites, cited>>

PostReplaceFacts(t, c, links) ==
  /\ claim[c] # None
  /\ Enter(t, [at |-> "attach", claim |-> c, links |-> links])
  /\ UNCHANGED <<factRows, claimRows>>

Editable(c) == claim[c].maturity \in {"draft", "hypothesis"}

ReplaceFacts(t) ==
  /\ job[t].at = "attach"
  /\ Become(t, IF Editable(job[t].claim)
               THEN [at |-> "replace", claim |-> job[t].claim, links |-> job[t].links]
               ELSE Idle)
  /\ UNCHANGED <<factRows, claimRows, requests>>

(* replace_claim_facts deletes the rows it sees and inserts the new ones;  *)
(* the trigger on each row raises when the claim is supported.             *)
ReplaceClaimFacts(t) ==
  /\ job[t].at = "replace"
  /\ LET j == job[t]
         refused == /\ claim[j.claim].maturity = "supported"
                    /\ cites[j.claim] \cup j.links # {}
         missing == \E f \in j.links : ~Exists(f)
     IN  Become(t, IF refused \/ missing THEN Idle
                   ELSE [at |-> "commit", claim |-> j.claim, links |-> j.links,
                         saw |-> cites[j.claim]])
  /\ UNCHANGED <<factRows, claimRows, requests>>

(* Rows another request committed in between stay; a fact in both collides *)
(* with the primary key.                                                   *)
CommitClaimFacts(t) ==
  /\ job[t].at = "commit"
  /\ LET j == job[t]
         kept == cites[j.claim] \ j.saw
     IN  IF kept \cap j.links # {} THEN UNCHANGED <<cites, cited>>
         ELSE /\ cites' = [cites EXCEPT ![j.claim] = kept \cup j.links]
              /\ cited' = [cited EXCEPT ![j.claim] = @ \cup j.links]
  /\ Return(t)
  /\ UNCHANGED <<factRows, claim, requests>>

-----------------------------------------------------------------------------
(* approve_claim: a supported claim returns at once.                       *)
PostApprove(t, c, a) ==
  /\ claim[c] # None
  /\ Editable(c)
  /\ Enter(t, [at |-> "list", claim |-> c, actor |-> a])
  /\ UNCHANGED <<factRows, claimRows>>

ListClaimFacts(t) ==
  /\ job[t].at = "list"
  /\ Become(t, [at |-> "collect", claim |-> job[t].claim, actor |-> job[t].actor,
                todo |-> cites[job[t].claim], found |-> FALSE])
  /\ UNCHANGED <<factRows, claimRows, requests>>

(* Variant: the status of a cited fact is not looked at.                   *)
SupportsAlways(f) == fact[f].verified # "disputed"

Supports(f) == fact[f].life = "active" /\ fact[f].verified # "disputed"

CollectSupportingFact(t) ==
  /\ job[t].at = "collect"
  /\ \E f \in job[t].todo :
       Become(t, [at |-> "collect", claim |-> job[t].claim, actor |-> job[t].actor,
                  todo |-> job[t].todo \ {f}, found |-> job[t].found \/ Supports(f)])
  /\ UNCHANGED <<factRows, claimRows, requests>>

CollectedAll(t) ==
  /\ job[t].at = "collect"
  /\ job[t].todo = {}
  /\ Become(t, IF job[t].found
               THEN [at |-> "support", claim |-> job[t].claim, actor |-> job[t].actor]
               ELSE Idle)
  /\ UNCHANGED <<factRows, claimRows, requests>>

ApproveClaim(t) ==
  /\ job[t].at = "support"
  /\ claim' = [claim EXCEPT ![job[t].claim] = [maturity |-> "supported", approvedBy |-> job[t].actor]]
  /\ Return(t)
  /\ UNCHANGED <<factRows, cites, cited, requests>>

(* The request raises or its process dies.                                 *)
Abandon(t) ==
  /\ job[t] # Idle
  /\ Return(t)
  /\ UNCHANGED <<factRows, claimRows, requests>>

-----------------------------------------------------------------------------
FactRequest(t) ==
  \/ \E f \in Facts : PostActivate(t, f) \/ PostRetract(t, f) \/ PostSupersede(t, f)
  \/ \E f, g \in Facts, refs \in SUBSET Anchors : PostSplit(t, f, g, refs)

ClaimRequest(t) ==
  \E c \in Claims :
    \/ \E links \in SUBSET Facts : CreateHypothesis(t, c, links) \/ PostReplaceFacts(t, c, links)
    \/ \E a \in Analysts : PostApprove(t, c, a)

FactStep(t) ==
  \/ CollectGateReasons(t) \/ DeriveStatus(t) \/ HoldAsDraft(t)
  \/ UpdateVerification(t) \/ ActivateFact(t)
  \/ RetractFact(t)
  \/ (\E new \in Facts : SaveSuccessor(t, new)) \/ FlipSuperseded(t)
  \/ MoveFactEvidence(t) \/ Recompute(t) \/ Rewrite(t)

ClaimStep(t) ==
  \/ ReplaceFacts(t) \/ ReplaceClaimFacts(t) \/ CommitClaimFacts(t)
  \/ ListClaimFacts(t) \/ CollectSupportingFact(t) \/ CollectedAll(t) \/ ApproveClaim(t)

Next ==
  \/ \E f \in Facts : CreateDraftFact(f)
  \/ \E f \in Facts, a \in Anchors, s \in Stances : LinkEvidence(f, a, s)
  \/ \E f \in Facts, c \in Competitors, b \in BOOLEAN : LinkSubject(f, c, b)
  \/ \E t \in Threads : FactRequest(t) \/ ClaimRequest(t) \/ FactStep(t) \/ ClaimStep(t) \/ Abandon(t)

Spec == Init /\ [][Next]_vars

-----------------------------------------------------------------------------
(* Rows and requests keep to their values.                                 *)
TypeOK ==
  /\ fact \in [Facts -> FactRow \cup {None}]
  /\ stance \in [Facts -> [Anchors -> Stances \cup {None}]]
  /\ subject \in [Facts -> SUBSET Competitors]
  /\ claim \in [Claims -> ClaimRow \cup {None}]
  /\ cites \in [Claims -> SUBSET Facts]
  /\ cited \in [Claims -> SUBSET Facts]
  /\ job \in [Threads -> Jobs]
  /\ proven \subseteq Facts
  /\ requests \in 0 .. MaxRequests

(* supersede_fact saves the new fact before it flips the old one, in two   *)
(* transactions: whatever fails or interferes between them, a superseded   *)
(* fact has a successor that points to it.                                 *)
SupersededHasSuccessor ==
  \A f \in Facts : Exists(f) /\ fact[f].life = "superseded" =>
    \E g \in Facts : Exists(g) /\ fact[g].supersedes = f

(* Splits and links of several requests lose no evidence: the anchors that *)
(* hold for some fact still hold for a fact after every step, and as many  *)
(* rows relate them.                                                       *)
LinkCount == Cardinality(Rows(stance))
EvidenceIsKept ==
  [][/\ \A a \in Anchors : (\E f \in Facts : stance[f][a] # None)
                              => \E f \in Facts : stance'[f][a] # None
     /\ LinkCount' >= LinkCount]_vars

(* However requests race, a claim is supported only by the name of an      *)
(* analyst, and only after a fact it cited had passed the activation gate. *)
SupportedAfterActivation ==
  \A c \in Claims : claim[c] # None /\ claim[c].maturity = "supported" =>
    claim[c].approvedBy \in Analysts /\ proven \cap cited[c] # {}

(* When a fact becomes disputed, retracted or superseded, the supported    *)
(* claims that depend on it come up for review: outside of a running       *)
(* request, a supported claim rests on a fact that supports it.            *)
Quiet == \A t \in Threads : job[t] = Idle
SupportedClaimsRestOnFacts ==
  Quiet => \A c \in Claims : claim[c] # None /\ claim[c].maturity = "supported" =>
             \E f \in cites[c] : Supports(f)
===============================================================================
