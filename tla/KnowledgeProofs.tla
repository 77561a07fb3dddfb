----------------------------- MODULE KnowledgeProofs -----------------------------
(* What facts, claims and reports promise, for any ids, requests and       *)
(* thresholds: type correctness, that a superseded fact has its successor, *)
(* that a supported claim cited a fact that was active, and that what was  *)
(* approved or published passed its reviews.                               *)
EXTENDS Knowledge, FiniteSetTheorems, TLAPS

-----------------------------------------------------------------------------
(* Facts and claims.                                                       *)
Succeeded(f, facts) == \E g \in Facts : facts[g] # None /\ facts[g].supersedes = f

FactOK(f) ==
  fact[f] # None =>
    /\ fact[f].life = "superseded" => Succeeded(f, fact)
    /\ fact[f].life = "active" => f \in proven

ClaimOK(c) ==
  /\ cites[c] \subseteq cited[c]
  /\ \A f \in cited[c] : fact[f] # None
  /\ claim[c] # None /\ claim[c].maturity = "supported" =>
       claim[c].approvedBy \in Analysts /\ proven \cap cited[c] # {}

(* What a request knows: the rows it is about are there, a fact that is    *)
(* about to be superseded has its successor, and a claim about to be       *)
(* supported a fact that was active when it was looked at.                 *)
OnFact == {"gate", "derive", "hold", "activate", "retract", "save_new", "flip", "recompute", "verify", "rewrite"}
OnClaim == {"attach", "replace", "commit", "list", "collect", "support"}

JobOK(j, facts, rows, active, named) ==
  /\ j.at \in OnFact => facts[j.fact] # None
  /\ j.at = "move" => facts[j.from] # None /\ facts[j.to] # None
  /\ j.at \in {"recompute", "rewrite"} /\ j.next # None => facts[j.next] # None
  /\ j.at = "flip" => Succeeded(j.fact, facts)
  /\ j.at \in OnClaim => rows[j.claim] # None
  /\ j.at = "commit" => \A f \in j.links : facts[f] # None
  /\ j.at = "collect" => /\ j.todo \subseteq named[j.claim]
                         /\ j.found => active \cap named[j.claim] # {}
  /\ j.at = "support" => active \cap named[j.claim] # {}

IInv ==
  /\ TypeOK
  /\ \A f \in Facts : FactOK(f)
  /\ \A c \in Claims : ClaimOK(c)
  /\ \A t \in Threads : JobOK(job[t], fact, claim, proven, cited)

(* No row is deleted, and what a fact supersedes is never changed.         *)
Evolves ==
  /\ \A f \in Facts : fact[f] # None => fact'[f] # None /\ fact'[f].supersedes = fact[f].supersedes
  /\ \A c \in Claims : (claim[c] # None => claim'[c] # None) /\ cited[c] \subseteq cited'[c]
  /\ proven \subseteq proven'

-----------------------------------------------------------------------------
(* The kinds of requests, by what they are about to do.                    *)
LEMMA JobKinds ==
  ASSUME NEW j \in Jobs
  PROVE  /\ j.at \in {"gate", "derive", "hold", "activate", "retract", "save_new", "flip"} => j \in FactJobs
         /\ j.at = "move" => j \in SplitJobs
         /\ j.at = "recompute" => j \in DeriveJobs
         /\ j.at = "verify" => j \in VerifyJobs
         /\ j.at = "rewrite" => j \in WriteJobs
         /\ j.at \in {"attach", "replace"} => j \in LinkJobs
         /\ j.at = "commit" => j \in CommitJobs
         /\ j.at \in {"list", "support"} => j \in ApproveJobs
         /\ j.at = "collect" => j \in CollectJobs
  BY DEF Jobs, Idle, FactJobs, SplitJobs, DeriveJobs, VerifyJobs, WriteJobs, LinkJobs, CommitJobs,
         ApproveJobs, CollectJobs

LEMMA IdleOK == Idle \in Jobs /\ \A f, c, a, n : JobOK(Idle, f, c, a, n)
  BY DEF Jobs, Idle, JobOK, OnFact, OnClaim

(* Drafts, no claims and no requests at first.                             *)
LEMMA InitIInv == Init => IInv
<1> SUFFICES ASSUME Init PROVE IInv
  OBVIOUS
<1>1. \A f \in Facts : fact[f] # None => fact[f] \in FactRow /\ fact[f].life = "draft"
  BY DEF Init, FactRow, Lifecycle, Verification
<1>2. TypeOK
  BY IntelligenceAssumption, <1>1, IdleOK DEF Init, TypeOK
<1> QED BY IntelligenceAssumption, <1>1, <1>2, IdleOK DEF Init, IInv, FactOK, ClaimOK

(* What a request knows stays true.                                        *)
LEMMA Kept ==
  ASSUME IInv, Evolves, NEW j \in Jobs, JobOK(j, fact, claim, proven, cited)
  PROVE  JobOK(j, fact', claim', proven', cited')
<1>1. \A f \in Facts : Succeeded(f, fact) => Succeeded(f, fact')
  BY DEF Succeeded, Evolves
<1>2. CASE j.at \in {"gate", "derive", "hold", "activate", "retract", "save_new", "flip"}
  BY <1>1, <1>2, JobKinds DEF JobOK, FactJobs, Evolves, OnFact, OnClaim
<1>3. CASE j.at = "move"
  BY <1>3, JobKinds DEF JobOK, SplitJobs, Evolves, OnFact, OnClaim
<1>4. CASE j.at \in {"recompute", "rewrite"}
  BY <1>4, JobKinds DEF JobOK, DeriveJobs, WriteJobs, Evolves, OnFact, OnClaim
<1>5. CASE j.at = "verify"
  BY <1>5, JobKinds DEF JobOK, VerifyJobs, Evolves, OnFact, OnClaim
<1>6. CASE j.at \in OnClaim
  <2>1. j.claim \in Claims /\ (j.at = "commit" => j.links \subseteq Facts)
    BY <1>6, JobKinds DEF OnClaim, LinkJobs, CommitJobs, ApproveJobs, CollectJobs
  <2> QED BY <1>6, <2>1 DEF JobOK, Evolves, OnFact, OnClaim
<1> QED BY <1>2, <1>3, <1>4, <1>5, <1>6 DEF JobOK, OnFact, OnClaim

(* A step that keeps the rows and leaves one request as it should be.      *)
LEMMA RequestStep ==
  ASSUME IInv, NEW t \in Threads, NEW j \in Jobs, Become(t, j),
         JobOK(j, fact', claim', proven', cited'), Evolves,
         \A f \in Facts : FactOK(f)', \A c \in Claims : ClaimOK(c)',
         fact' \in [Facts -> FactRow \cup {None}],
         stance' \in [Facts -> [Anchors -> Stances \cup {None}]],
         subject' \in [Facts -> SUBSET Competitors],
         claim' \in [Claims -> ClaimRow \cup {None}],
         cites' \in [Claims -> SUBSET Facts], cited' \in [Claims -> SUBSET Facts],
         proven' \subseteq Facts, requests' \in 0 .. MaxRequests
  PROVE  IInv'
<1>1. job' \in [Threads -> Jobs] /\ \A u \in Threads : job'[u] = IF u = t THEN j ELSE job[u]
  BY DEF IInv, TypeOK, Become
<1>2. ASSUME NEW u \in Threads PROVE JobOK(job'[u], fact', claim', proven', cited')
  <2>1. CASE u = t
    BY <1>1, <2>1
  <2>2. CASE u # t
    <3>1. job[u] \in Jobs /\ JobOK(job[u], fact, claim, proven, cited) /\ job'[u] = job[u]
      BY <1>1, <2>2 DEF IInv, TypeOK
    <3> QED BY <3>1, Kept
  <2> QED BY <2>1, <2>2
<1>3. TypeOK'
  BY <1>1 DEF TypeOK
<1> QED BY <1>2, <1>3 DEF IInv

(* A request that goes on, begins or ends without a change to the rows.    *)
LEMMA OnlyJob ==
  ASSUME IInv, NEW t \in Threads, NEW j \in Jobs, Become(t, j),
         JobOK(j, fact, claim, proven, cited), UNCHANGED <<factRows, claimRows>>,
         requests' = requests \/ (requests' = requests + 1 /\ requests < MaxRequests)
  PROVE  IInv'
<1>1. Evolves /\ (\A f \in Facts : FactOK(f)') /\ \A c \in Claims : ClaimOK(c)'
  BY DEF IInv, FactOK, ClaimOK, Evolves, factRows, claimRows
<1>2. requests' \in 0 .. MaxRequests
  BY IntelligenceAssumption DEF IInv, TypeOK
<1> QED BY <1>1, <1>2, RequestStep DEF IInv, TypeOK, factRows, claimRows

LEMMA EnterStep ==
  ASSUME IInv, NEW t \in Threads, NEW j \in Jobs, Enter(t, j),
         JobOK(j, fact, claim, proven, cited), UNCHANGED <<factRows, claimRows>>
  PROVE  IInv'
  BY OnlyJob DEF Enter

-----------------------------------------------------------------------------
(* A step that writes the row of a fact, and what it supersedes as before. *)
LEMMA FactStepOK ==
  ASSUME IInv, NEW t \in Threads, NEW j \in Jobs, Become(t, j),
         JobOK(j, fact, claim, proven, cited),
         NEW f \in Facts, fact[f] # None, NEW new \in FactRow, fact' = [fact EXCEPT ![f] = new],
         new.supersedes = fact[f].supersedes,
         new.life = "superseded" => Succeeded(f, fact),
         new.life = "active" => f \in proven',
         proven' = proven \/ proven' = proven \cup {f},
         UNCHANGED <<stance, subject, claimRows, requests>>
  PROVE  IInv'
<1>1. fact' \in [Facts -> FactRow \cup {None}] /\ \A g \in Facts : fact'[g] = IF g = f THEN new ELSE fact[g]
  BY DEF IInv, TypeOK
<1>2. new # None
  BY IntelligenceAssumption
<1>3. proven \subseteq proven' /\ proven' \subseteq Facts
  BY DEF IInv, TypeOK
<1>4. Evolves
  BY <1>1, <1>2, <1>3 DEF Evolves, claimRows
<1>5. ASSUME NEW g \in Facts PROVE FactOK(g)'
  <2>1. FactOK(g)
    BY DEF IInv
  <2>2. Succeeded(g, fact) => Succeeded(g, fact')
    BY <1>1, <1>2 DEF Succeeded
  <2> QED BY <1>1, <1>3, <2>1, <2>2 DEF FactOK
<1>6. \A c \in Claims : ClaimOK(c)'
  BY <1>3, <1>4 DEF IInv, TypeOK, ClaimOK, Evolves, claimRows
<1>7. JobOK(j, fact', claim', proven', cited')
  BY <1>4, Kept
<1> QED BY <1>1, <1>3, <1>4, <1>5, <1>6, <1>7, RequestStep DEF IInv, TypeOK, claimRows

(* SetLife and SetVerified.                                                *)
LEMMA SetLifeStep ==
  ASSUME IInv, NEW t \in Threads, NEW j \in Jobs, Become(t, j),
         JobOK(j, fact, claim, proven, cited),
         NEW f \in Facts, fact[f] # None, NEW life \in Lifecycle, SetLife(f, life),
         life = "superseded" => Succeeded(f, fact),
         life = "active" => f \in proven',
         proven' = proven \/ proven' = proven \cup {f},
         UNCHANGED <<stance, subject, claimRows, requests>>
  PROVE  IInv'
<1> DEFINE new == [fact[f] EXCEPT !.life = life]
<1>1. fact[f] \in FactRow
  BY DEF IInv, TypeOK
<1>2. new \in FactRow /\ new.supersedes = fact[f].supersedes /\ new.life = life
  BY <1>1 DEF FactRow
<1>3. fact' = [fact EXCEPT ![f] = new]
  BY DEF SetLife, IInv, TypeOK
<1> HIDE DEF new
<1> QED BY <1>2, <1>3, FactStepOK

LEMMA SetVerifiedStep ==
  ASSUME IInv, NEW t \in Threads, NEW j \in Jobs, Become(t, j),
         JobOK(j, fact, claim, proven, cited),
         NEW f \in Facts, fact[f] # None, NEW v \in Verification, SetVerified(f, v),
         UNCHANGED <<stance, subject, claimRows, proven, requests>>
  PROVE  IInv'
<1> DEFINE new == [fact[f] EXCEPT !.verified = v]
<1>1. fact[f] \in FactRow /\ FactOK(f)
  BY DEF IInv, TypeOK
<1>2. new \in FactRow /\ new.supersedes = fact[f].supersedes /\ new.life = fact[f].life
  BY <1>1 DEF FactRow
<1>3. fact' = [fact EXCEPT ![f] = new]
  BY DEF SetVerified, IInv, TypeOK
<1>4. (new.life = "superseded" => Succeeded(f, fact)) /\ (new.life = "active" => f \in proven)
  BY <1>1, <1>2 DEF FactOK
<1> HIDE DEF new
<1> QED BY <1>2, <1>3, <1>4, FactStepOK

(* A fact that is new, and the request that goes on with it.               *)
LEMMA NewFactOK ==
  ASSUME IInv, NEW f \in Facts, ~Exists(f), NEW s \in Facts \cup {None},
         fact' = [fact EXCEPT ![f] = [life |-> "draft", verified |-> "single_source", supersedes |-> s]],
         UNCHANGED <<claimRows, proven>>
  PROVE  /\ fact' \in [Facts -> FactRow \cup {None}] /\ Evolves
         /\ fact'[f] # None /\ fact'[f].supersedes = s
         /\ (\A g \in Facts : FactOK(g)') /\ \A c \in Claims : ClaimOK(c)'
<1> DEFINE new == [life |-> "draft", verified |-> "single_source", supersedes |-> s]
<1>1. new \in FactRow /\ new.life = "draft" /\ new.supersedes = s
  BY DEF FactRow, Lifecycle, Verification
<1>2. fact' = [fact EXCEPT ![f] = new]
  OBVIOUS
<1> HIDE DEF new
<1>3. /\ fact' \in [Facts -> FactRow \cup {None}] /\ new # None
      /\ \A g \in Facts : fact'[g] = IF g = f THEN new ELSE fact[g]
  BY IntelligenceAssumption, <1>1, <1>2 DEF IInv, TypeOK
<1>4. Evolves
  BY <1>3 DEF Evolves, Exists, claimRows
<1>5. ASSUME NEW g \in Facts PROVE FactOK(g)'
  <2>1. FactOK(g)
    BY DEF IInv
  <2>2. Succeeded(g, fact) => Succeeded(g, fact')
    BY <1>3 DEF Succeeded, Exists
  <2> QED BY <1>1, <1>3, <2>1, <2>2 DEF FactOK
<1>6. \A c \in Claims : ClaimOK(c)'
  BY <1>4 DEF IInv, TypeOK, ClaimOK, Evolves, claimRows
<1> QED BY <1>1, <1>3, <1>4, <1>5, <1>6

-----------------------------------------------------------------------------
(* Steps outside of a request: only rows change.                           *)
LEMMA CreateDraftFactStep == ASSUME IInv, NEW f \in Facts, CreateDraftFact(f) PROVE IInv'
<1>1. /\ fact' \in [Facts -> FactRow \cup {None}] /\ Evolves
      /\ (\A g \in Facts : FactOK(g)') /\ \A c \in Claims : ClaimOK(c)'
  BY NewFactOK DEF CreateDraftFact
<1>2. \A t \in Threads : JobOK(job[t], fact', claim', proven', cited')
  BY <1>1, Kept DEF IInv, TypeOK
<1>3. TypeOK'
  BY IntelligenceAssumption, <1>1 DEF CreateDraftFact, IInv, TypeOK, claimRows
<1> QED BY <1>1, <1>2, <1>3 DEF IInv, CreateDraftFact

LEMMA LinkStep ==
  ASSUME IInv, NEW f \in Facts,
         \/ \E a \in Anchors, s \in Stances : LinkEvidence(f, a, s)
         \/ \E c \in Competitors, b \in BOOLEAN : LinkSubject(f, c, b)
  PROVE  IInv'
<1>1. /\ stance' \in [Facts -> [Anchors -> Stances \cup {None}]]
      /\ subject' \in [Facts -> SUBSET Competitors]
  <2>1. stance \in [Facts -> [Anchors -> Stances \cup {None}]] /\ subject \in [Facts -> SUBSET Competitors]
    BY DEF IInv, TypeOK
  <2>2. CASE \E a \in Anchors, s \in Stances : LinkEvidence(f, a, s)
    BY <2>1, <2>2 DEF LinkEvidence
  <2>3. CASE \E c \in Competitors, b \in BOOLEAN : LinkSubject(f, c, b)
    BY <2>1, <2>3 DEF LinkSubject
  <2> QED BY <2>2, <2>3
<1>2. /\ UNCHANGED <<fact, claimRows, job, proven>>
      /\ requests < MaxRequests /\ requests' = requests + 1
  BY DEF LinkEvidence, LinkSubject
<1> QED BY IntelligenceAssumption, <1>1, <1>2 DEF IInv, TypeOK, FactOK, ClaimOK, claimRows

-----------------------------------------------------------------------------
(* Requests about facts.                                                   *)
LEMMA VerdictType == \A f : Verdict(f) \in Verification
  BY DEF Verdict, Verification

LEMMA BeginFactStep ==
  ASSUME IInv, NEW t \in Threads, FactRequest(t)
  PROVE  IInv'
<1>1. ASSUME NEW f \in Facts, NEW at \in {"gate", "retract", "save_new"}, fact[f] # None,
             Enter(t, [at |-> at, fact |-> f]), UNCHANGED <<factRows, claimRows>>
      PROVE  IInv'
  <2> DEFINE j == [at |-> at, fact |-> f]
  <2>1. j \in Jobs /\ JobOK(j, fact, claim, proven, cited)
    BY <1>1 DEF Jobs, FactJobs, JobOK, OnFact, OnClaim
  <2> HIDE DEF j
  <2>2. Enter(t, j)
    BY <1>1 DEF j
  <2> QED BY <1>1, <2>1, <2>2, EnterStep
<1>2. ASSUME NEW f \in Facts, NEW g \in Facts, NEW refs \in SUBSET Anchors, PostSplit(t, f, g, refs)
      PROVE  IInv'
  <2> DEFINE j == [at |-> "move", from |-> f, to |-> g, refs |-> refs]
  <2>1. j \in Jobs /\ JobOK(j, fact, claim, proven, cited)
    BY <1>2 DEF Jobs, SplitJobs, JobOK, OnFact, OnClaim, PostSplit, Exists
  <2>2. Enter(t, j)
    BY <1>2 DEF PostSplit
  <2> HIDE DEF j
  <2> QED BY <1>2, <2>1, <2>2, EnterStep DEF PostSplit
<1>3. ASSUME NEW f \in Facts, PostActivate(t, f) PROVE IInv'
  BY <1>1, <1>3 DEF PostActivate, Exists
<1>4. ASSUME NEW f \in Facts, PostRetract(t, f) PROVE IInv'
  BY <1>1, <1>4 DEF PostRetract, Exists
<1>5. ASSUME NEW f \in Facts, PostSupersede(t, f) PROVE IInv'
  BY <1>1, <1>5 DEF PostSupersede, Exists
<1> QED BY <1>2, <1>3, <1>4, <1>5 DEF FactRequest

LEMMA GateStep ==
  ASSUME IInv, NEW t \in Threads, CollectGateReasons(t) \/ DeriveStatus(t)
  PROVE  IInv'
<1> DEFINE f == job[t].fact
           go(at) == [at |-> at, fact |-> f]
           verify == [at |-> "verify", fact |-> f, verdict |-> Verdict(f)]
<1>1. f \in Facts /\ fact[f] # None
  BY JobKinds DEF CollectGateReasons, DeriveStatus, IInv, TypeOK, FactJobs, JobOK, OnFact
<1>2. \A at \in {"derive", "hold"} : go(at) \in Jobs /\ JobOK(go(at), fact, claim, proven, cited)
  BY <1>1 DEF Jobs, FactJobs, JobOK, OnFact, OnClaim
<1>3. verify \in Jobs /\ JobOK(verify, fact, claim, proven, cited)
  BY <1>1, VerdictType DEF Jobs, VerifyJobs, JobOK, OnFact, OnClaim
<1>4. Become(t, go("derive")) \/ Become(t, go("hold")) \/ Become(t, verify)
  BY DEF CollectGateReasons, DeriveStatus
<1>5. UNCHANGED <<factRows, claimRows, requests>>
  BY DEF CollectGateReasons, DeriveStatus
<1> HIDE DEF go, verify
<1> QED BY <1>2, <1>3, <1>4, <1>5, OnlyJob

LEMMA LifeStep ==
  ASSUME IInv, NEW t \in Threads,
         HoldAsDraft(t) \/ ActivateFact(t) \/ RetractFact(t) \/ FlipSuperseded(t)
  PROVE  IInv'
<1> DEFINE f == job[t].fact
<1>1. f \in Facts /\ fact[f] # None
  BY JobKinds DEF HoldAsDraft, ActivateFact, RetractFact, FlipSuperseded, IInv, TypeOK, FactJobs, JobOK, OnFact
<1>2. FlipSuperseded(t) => Succeeded(f, fact)
  BY DEF FlipSuperseded, IInv, JobOK
<1>3. Become(t, Idle) /\ UNCHANGED <<stance, subject, claimRows, requests>>
  BY DEF HoldAsDraft, ActivateFact, RetractFact, FlipSuperseded, Return
<1>4. {"draft", "active", "retracted", "superseded"} \subseteq Lifecycle
  BY DEF Lifecycle
<1> HIDE DEF f
<1>5. ASSUME NEW life \in {"draft", "active", "retracted", "superseded"}, SetLife(f, life),
             life = "superseded" => Succeeded(f, fact), life = "active" => f \in proven',
             proven' = proven \/ proven' = proven \cup {f}
      PROVE  IInv'
  BY <1>1, <1>3, <1>4, <1>5, IdleOK, SetLifeStep
<1> QED BY <1>2, <1>5 DEF HoldAsDraft, ActivateFact, RetractFact, FlipSuperseded, f

LEMMA UpdateVerificationStep == ASSUME IInv, NEW t \in Threads, UpdateVerification(t) PROVE IInv'
<1> DEFINE p == job[t]
           j == [at |-> "activate", fact |-> p.fact]
<1>1. p.fact \in Facts /\ p.verdict \in Verification /\ fact[p.fact] # None
  BY JobKinds DEF UpdateVerification, IInv, TypeOK, VerifyJobs, JobOK, OnFact
<1>2. j \in Jobs /\ JobOK(j, fact, claim, proven, cited)
  BY <1>1 DEF Jobs, FactJobs, JobOK, OnFact, OnClaim
<1>3. Become(t, j)
  BY DEF UpdateVerification
<1> HIDE DEF j
<1> QED BY <1>1, <1>2, <1>3, SetVerifiedStep DEF UpdateVerification

(* SaveSuccessor: from here on the old fact has its successor.             *)
LEMMA SaveSuccessorStep ==
  ASSUME IInv, NEW t \in Threads, NEW new \in Facts, SaveSuccessor(t, new)
  PROVE  IInv'
<1> DEFINE f == job[t].fact
           j == [at |-> "flip", fact |-> f]
<1>1. f \in Facts /\ fact[f] # None
  BY JobKinds DEF SaveSuccessor, IInv, TypeOK, FactJobs, JobOK, OnFact
<1>2. /\ fact' \in [Facts -> FactRow \cup {None}] /\ Evolves
      /\ fact'[new] # None /\ fact'[new].supersedes = f
      /\ (\A g \in Facts : FactOK(g)') /\ \A c \in Claims : ClaimOK(c)'
  BY <1>1, NewFactOK DEF SaveSuccessor
<1>3. j \in Jobs /\ j.at = "flip" /\ j.fact = f
  BY <1>1 DEF Jobs, FactJobs
<1>4. Become(t, j)
  BY DEF SaveSuccessor
<1> HIDE DEF j, f
<1>5. Succeeded(f, fact') /\ fact'[f] # None
  BY <1>1, <1>2 DEF Succeeded, Evolves
<1>6. JobOK(j, fact', claim', proven', cited')
  BY <1>3, <1>5 DEF JobOK, OnFact, OnClaim
<1> QED BY <1>2, <1>3, <1>4, <1>6, RequestStep DEF SaveSuccessor, IInv, TypeOK, claimRows

(* MoveFactEvidence: only the stances change.                              *)
LEMMA MoveStep == ASSUME IInv, NEW t \in Threads, MoveFactEvidence(t) PROVE IInv'
<1> DEFINE p == job[t]
           j == [at |-> "recompute", fact |-> p.from, next |-> p.to]
<1>1. p.from \in Facts /\ p.to \in Facts /\ fact[p.from] # None /\ fact[p.to] # None
  BY JobKinds DEF MoveFactEvidence, IInv, TypeOK, SplitJobs, JobOK
<1>2. j \in Jobs /\ JobOK(j, fact, claim, proven, cited)
  BY <1>1 DEF Jobs, DeriveJobs, JobOK, OnFact, OnClaim
<1>3. stance' \in [Facts -> [Anchors -> Stances \cup {None}]]
  <2>1. CASE stance' = stance
    BY <2>1 DEF IInv, TypeOK
  <2>2. CASE stance' # stance
    BY <1>1, <2>2 DEF MoveFactEvidence, IInv, TypeOK
  <2> QED BY <2>1, <2>2
<1>4. Become(t, j) \/ Become(t, Idle)
  BY DEF MoveFactEvidence, Return
<1>5. UNCHANGED <<fact, subject, claimRows, proven, requests>>
  BY DEF MoveFactEvidence
<1> HIDE DEF j
<1>6. Evolves /\ (\A f \in Facts : FactOK(f)') /\ \A c \in Claims : ClaimOK(c)'
  BY <1>5 DEF IInv, FactOK, ClaimOK, Evolves, claimRows
<1>7. ASSUME NEW k \in Jobs, JobOK(k, fact, claim, proven, cited), Become(t, k) PROVE IInv'
  <2>1. JobOK(k, fact', claim', proven', cited')
    BY <1>6, <1>7, Kept
  <2> QED BY <1>3, <1>5, <1>6, <1>7, <2>1, RequestStep DEF IInv, TypeOK, claimRows
<1> QED BY <1>2, <1>4, <1>7, IdleOK

LEMMA RecomputeStep == ASSUME IInv, NEW t \in Threads, Recompute(t) PROVE IInv'
<1> DEFINE p == job[t]
           j == [at |-> "rewrite", fact |-> p.fact, verdict |-> Verdict(p.fact), next |-> p.next]
<1>1. /\ p.fact \in Facts /\ p.next \in Facts \cup {None} /\ fact[p.fact] # None
      /\ p.next # None => fact[p.next] # None
  BY JobKinds DEF Recompute, IInv, TypeOK, DeriveJobs, JobOK, OnFact
<1>2. j \in Jobs /\ JobOK(j, fact, claim, proven, cited)
  BY <1>1, VerdictType DEF Jobs, WriteJobs, JobOK, OnFact, OnClaim
<1>3. Become(t, j)
  BY DEF Recompute
<1> HIDE DEF j
<1> QED BY <1>2, <1>3, OnlyJob DEF Recompute

LEMMA RewriteStep == ASSUME IInv, NEW t \in Threads, Rewrite(t) PROVE IInv'
<1> DEFINE p == job[t]
           j == [at |-> "recompute", fact |-> p.next, next |-> None]
<1>1. /\ p.fact \in Facts /\ p.next \in Facts \cup {None} /\ fact[p.fact] # None
      /\ p.next # None => fact[p.next] # None
      /\ p.verdict \in Verification
  BY JobKinds DEF Rewrite, IInv, TypeOK, WriteJobs, JobOK, OnFact
<1>2. p.next # None => j \in Jobs /\ JobOK(j, fact, claim, proven, cited)
  BY <1>1 DEF Jobs, DeriveJobs, JobOK, OnFact, OnClaim
<1>3. IF p.next = None THEN Become(t, Idle) ELSE Become(t, j)
  BY DEF Rewrite
<1> HIDE DEF j
<1> QED BY <1>1, <1>2, <1>3, IdleOK, SetVerifiedStep DEF Rewrite

-----------------------------------------------------------------------------
(* Requests about claims.                                                  *)
LEMMA PostReplaceStep ==
  ASSUME IInv, NEW t \in Threads, NEW c \in Claims, NEW links \in SUBSET Facts,
         PostReplaceFacts(t, c, links)
  PROVE  IInv'
<1> DEFINE j == [at |-> "attach", claim |-> c, links |-> links]
<1>1. j \in Jobs /\ JobOK(j, fact, claim, proven, cited)
  BY DEF Jobs, LinkJobs, JobOK, OnFact, OnClaim, PostReplaceFacts
<1>2. Enter(t, j)
  BY DEF PostReplaceFacts
<1> HIDE DEF j
<1> QED BY <1>1, <1>2, EnterStep DEF PostReplaceFacts

LEMMA PostApproveStep ==
  ASSUME IInv, NEW t \in Threads, NEW c \in Claims, NEW a \in Analysts, PostApprove(t, c, a)
  PROVE  IInv'
<1> DEFINE j == [at |-> "list", claim |-> c, actor |-> a]
<1>1. j \in Jobs /\ JobOK(j, fact, claim, proven, cited)
  BY DEF Jobs, ApproveJobs, JobOK, OnFact, OnClaim, PostApprove
<1>2. Enter(t, j)
  BY DEF PostApprove
<1> HIDE DEF j
<1> QED BY <1>1, <1>2, EnterStep DEF PostApprove

(* A step that writes the row of a claim.                                  *)
LEMMA ClaimRowStep ==
  ASSUME IInv, NEW t \in Threads, NEW j \in Jobs, Become(t, j),
         NEW c \in Claims, NEW new \in ClaimRow, claim' = [claim EXCEPT ![c] = new],
         JobOK(j, fact, claim', proven, cited),
         new.maturity = "supported" => new.approvedBy \in Analysts /\ proven \cap cited[c] # {},
         UNCHANGED <<factRows, cites, cited>>, requests' \in 0 .. MaxRequests
  PROVE  IInv'
<1>1. /\ claim' \in [Claims -> ClaimRow \cup {None}] /\ new # None
      /\ \A d \in Claims : claim'[d] = IF d = c THEN new ELSE claim[d]
  BY IntelligenceAssumption DEF IInv, TypeOK
<1>2. Evolves
  BY <1>1 DEF Evolves, factRows
<1>3. ASSUME NEW d \in Claims PROVE ClaimOK(d)'
  <2>1. ClaimOK(d)
    BY DEF IInv
  <2> QED BY <1>1, <2>1 DEF ClaimOK, factRows
<1>4. \A f \in Facts : FactOK(f)'
  BY DEF IInv, FactOK, factRows
<1>5. JobOK(j, fact', claim', proven', cited')
  BY DEF factRows
<1> QED BY <1>1, <1>2, <1>3, <1>4, <1>5, RequestStep DEF IInv, TypeOK, factRows

LEMMA CreateHypothesisStep ==
  ASSUME IInv, NEW t \in Threads, NEW c \in Claims, NEW links \in SUBSET Facts,
         CreateHypothesis(t, c, links)
  PROVE  IInv'
<1> DEFINE j == [at |-> "attach", claim |-> c, links |-> links]
           new == [maturity |-> "hypothesis", approvedBy |-> None]
<1>1. new \in ClaimRow /\ new.maturity = "hypothesis" /\ new # None
  BY IntelligenceAssumption DEF ClaimRow, Maturity
<1>2. claim' = [claim EXCEPT ![c] = new]
  BY DEF CreateHypothesis
<1>3. j \in Jobs /\ j.at = "attach" /\ j.claim = c
  BY DEF Jobs, LinkJobs
<1>4. Become(t, j) /\ requests' \in 0 .. MaxRequests
  BY IntelligenceAssumption DEF CreateHypothesis, Enter, IInv, TypeOK
<1> HIDE DEF j, new
<1>5. claim'[c] # None
  BY <1>1, <1>2 DEF IInv, TypeOK
<1>6. JobOK(j, fact, claim', proven, cited)
  BY <1>3, <1>5 DEF JobOK, OnFact, OnClaim
<1> QED BY <1>1, <1>2, <1>3, <1>4, <1>6, ClaimRowStep DEF CreateHypothesis

LEMMA BeginClaimStep ==
  ASSUME IInv, NEW t \in Threads, ClaimRequest(t)
  PROVE  IInv'
  BY PostReplaceStep, PostApproveStep, CreateHypothesisStep DEF ClaimRequest

(* ApproveClaim: a fact it cites was active when it was collected.         *)
LEMMA ApproveClaimStep == ASSUME IInv, NEW t \in Threads, ApproveClaim(t) PROVE IInv'
<1> DEFINE p == job[t]
           new == [maturity |-> "supported", approvedBy |-> p.actor]
<1>1. p.claim \in Claims /\ p.actor \in Analysts /\ proven \cap cited[p.claim] # {}
  BY JobKinds DEF ApproveClaim, IInv, TypeOK, ApproveJobs, JobOK
<1>2. new \in ClaimRow /\ new.approvedBy = p.actor
  BY <1>1 DEF ClaimRow, Maturity
<1>3. claim' = [claim EXCEPT ![p.claim] = new]
  BY DEF ApproveClaim
<1>4. Become(t, Idle) /\ requests' \in 0 .. MaxRequests
  BY DEF ApproveClaim, Return, IInv, TypeOK
<1> HIDE DEF p, new
<1> QED BY <1>1, <1>2, <1>3, <1>4, IdleOK, ClaimRowStep DEF ApproveClaim

LEMMA ReplaceStep ==
  ASSUME IInv, NEW t \in Threads, ReplaceFacts(t) \/ ReplaceClaimFacts(t)
  PROVE  IInv'
<1> DEFINE p == job[t]
           replace == [at |-> "replace", claim |-> p.claim, links |-> p.links]
           commit == [at |-> "commit", claim |-> p.claim, links |-> p.links, saw |-> cites[p.claim]]
<1>1. /\ p.claim \in Claims /\ p.links \subseteq Facts /\ claim[p.claim] # None
      /\ cites[p.claim] \subseteq Facts
  BY JobKinds DEF ReplaceFacts, ReplaceClaimFacts, IInv, TypeOK, LinkJobs, JobOK, OnClaim
<1>2. replace \in Jobs /\ JobOK(replace, fact, claim, proven, cited)
  BY <1>1 DEF Jobs, LinkJobs, JobOK, OnFact, OnClaim
<1>3. commit \in Jobs /\ ((\A f \in p.links : fact[f] # None) => JobOK(commit, fact, claim, proven, cited))
  BY <1>1 DEF Jobs, CommitJobs, JobOK, OnFact, OnClaim
<1>4. \/ Become(t, Idle) \/ Become(t, replace)
      \/ Become(t, commit) /\ \A f \in p.links : fact[f] # None
  BY DEF ReplaceFacts, ReplaceClaimFacts, Exists
<1>5. UNCHANGED <<factRows, claimRows, requests>>
  BY DEF ReplaceFacts, ReplaceClaimFacts
<1> HIDE DEF replace, commit
<1> QED BY <1>2, <1>3, <1>4, <1>5, IdleOK, OnlyJob

(* CommitClaimFacts: the facts that are cited from now on are there.       *)
LEMMA CommitStep == ASSUME IInv, NEW t \in Threads, CommitClaimFacts(t) PROVE IInv'
<1> DEFINE p == job[t]
<1>1. p.claim \in Claims /\ p.links \subseteq Facts /\ \A f \in p.links : fact[f] # None
  BY JobKinds DEF CommitClaimFacts, IInv, TypeOK, CommitJobs, JobOK
<1>2. /\ UNCHANGED <<factRows, claim, requests>> /\ Become(t, Idle)
      /\ \/ UNCHANGED <<cites, cited>>
         \/ /\ cites' = [cites EXCEPT ![p.claim] = (cites[p.claim] \ p.saw) \cup p.links]
            /\ cited' = [cited EXCEPT ![p.claim] = cited[p.claim] \cup p.links]
  BY DEF CommitClaimFacts, Return
<1> HIDE DEF p
<1>3. cites' \in [Claims -> SUBSET Facts] /\ cited' \in [Claims -> SUBSET Facts]
  BY <1>1, <1>2 DEF IInv, TypeOK
<1>4. \A c \in Claims : /\ cited[c] \subseteq cited'[c] /\ cited'[c] \subseteq cited[c] \cup p.links
                        /\ cites[c] \subseteq cited[c] => cites'[c] \subseteq cited'[c]
  BY <1>1, <1>2 DEF IInv, TypeOK
<1>5. ASSUME NEW c \in Claims PROVE ClaimOK(c)'
  <2>1. ClaimOK(c)
    BY DEF IInv
  <2> QED BY <1>1, <1>2, <1>4, <2>1 DEF ClaimOK, factRows
<1>6. Evolves /\ \A f \in Facts : FactOK(f)'
  BY <1>2, <1>4 DEF Evolves, IInv, FactOK, factRows
<1> QED BY <1>2, <1>3, <1>5, <1>6, IdleOK, RequestStep DEF IInv, TypeOK, factRows

LEMMA CollectStep ==
  ASSUME IInv, NEW t \in Threads,
         ListClaimFacts(t) \/ CollectSupportingFact(t) \/ CollectedAll(t)
  PROVE  IInv'
<1> DEFINE p == job[t]
           collect(todo, found) == [at |-> "collect", claim |-> p.claim, actor |-> p.actor,
                                    todo |-> todo, found |-> found]
           support == [at |-> "support", claim |-> p.claim, actor |-> p.actor]
<1>1. p.claim \in Claims /\ p.actor \in Analysts /\ claim[p.claim] # None
  BY JobKinds DEF ListClaimFacts, CollectSupportingFact, CollectedAll, IInv, TypeOK, ApproveJobs,
                  CollectJobs, JobOK, OnClaim
<1>2. cited[p.claim] \subseteq Facts /\ ClaimOK(p.claim)
  BY <1>1 DEF IInv, TypeOK
<1>3. UNCHANGED <<factRows, claimRows, requests>>
  BY DEF ListClaimFacts, CollectSupportingFact, CollectedAll
<1>4. ASSUME NEW todo \in SUBSET cited[p.claim], NEW found \in BOOLEAN, Become(t, collect(todo, found)),
             found => proven \cap cited[p.claim] # {}
      PROVE  IInv'
  <2> DEFINE j == collect(todo, found)
  <2>1. j \in Jobs /\ JobOK(j, fact, claim, proven, cited)
    BY <1>1, <1>2, <1>4 DEF Jobs, CollectJobs, JobOK, OnFact, OnClaim
  <2>2. Become(t, j)
    BY <1>4
  <2> HIDE DEF j
  <2> QED BY <1>3, <2>1, <2>2, OnlyJob
<1>5. ASSUME ListClaimFacts(t) PROVE IInv'
  <2>1. Become(t, collect(cites[p.claim], FALSE)) /\ cites[p.claim] \subseteq cited[p.claim]
    BY <1>2, <1>5 DEF ListClaimFacts, ClaimOK
  <2> QED BY <1>4, <2>1
<1>6. ASSUME CollectSupportingFact(t) PROVE IInv'
  <2>1. /\ p.todo \subseteq cited[p.claim] /\ p.found \in BOOLEAN
        /\ p.found => proven \cap cited[p.claim] # {}
    BY <1>6, JobKinds DEF CollectSupportingFact, IInv, TypeOK, CollectJobs, JobOK
  <2>2. PICK f \in p.todo : Become(t, collect(p.todo \ {f}, p.found \/ Supports(f)))
    BY <1>6 DEF CollectSupportingFact
  <2>3. f \in Facts /\ FactOK(f) /\ fact[f] # None
    BY <1>2, <2>1 DEF IInv, ClaimOK
  <2>4. Supports(f) => f \in proven \cap cited[p.claim]
    BY <2>1, <2>3 DEF Supports, FactOK
  <2>5. (p.found \/ Supports(f)) \in BOOLEAN
    BY <2>1
  <2> HIDE DEF collect, p
  <2> QED BY <1>4, <2>1, <2>2, <2>4, <2>5
<1>7. ASSUME CollectedAll(t) PROVE IInv'
  <2>1. p.found => proven \cap cited[p.claim] # {}
    BY <1>7 DEF CollectedAll, IInv, JobOK
  <2>2. support \in Jobs /\ (p.found => JobOK(support, fact, claim, proven, cited))
    BY <1>1, <2>1 DEF Jobs, ApproveJobs, JobOK, OnFact, OnClaim
  <2>3. IF p.found THEN Become(t, support) ELSE Become(t, Idle)
    BY <1>7 DEF CollectedAll
  <2> HIDE DEF support, p
  <2> QED BY <1>3, <2>2, <2>3, IdleOK, OnlyJob
<1> QED BY <1>5, <1>6, <1>7

LEMMA AbandonStep == ASSUME IInv, NEW t \in Threads, Abandon(t) PROVE IInv'
  BY IdleOK, OnlyJob DEF Abandon, Return

-----------------------------------------------------------------------------
LEMMA NextIInv == ASSUME IInv, [Next]_vars PROVE IInv'
<1>1. CASE UNCHANGED vars
  BY <1>1 DEF vars, factRows, claimRows, IInv, TypeOK, FactOK, ClaimOK
<1>2. ASSUME NEW t \in Threads, FactStep(t) PROVE IInv'
  BY <1>2, GateStep, LifeStep, UpdateVerificationStep, SaveSuccessorStep, MoveStep, RecomputeStep,
     RewriteStep DEF FactStep
<1>3. ASSUME NEW t \in Threads, ClaimStep(t) PROVE IInv'
  BY <1>3, ReplaceStep, CommitStep, CollectStep, ApproveClaimStep DEF ClaimStep
<1>4. CASE Next
  BY <1>2, <1>3, <1>4, CreateDraftFactStep, LinkStep, BeginFactStep, BeginClaimStep, AbandonStep DEF Next
<1> QED BY <1>1, <1>4

LEMMA IInvHolds == Spec => []IInv
<1>1. Init => IInv
  BY InitIInv
<1>2. IInv /\ [Next]_vars => IInv'
  BY NextIInv
<1> QED BY <1>1, <1>2, PTL DEF Spec

(* Rows, links and requests keep to their values: _verify_and_activate     *)
(* writes a status, supersede_fact an id, approve_claim an analyst.        *)
THEOREM IntelligenceTypeOK == Spec => []TypeOK
<1>1. IInv => TypeOK
  BY DEF IInv
<1> QED BY <1>1, IInvHolds, PTL

(* supersede_fact saves the new fact before it flips the old one: whatever *)
(* else happens to facts and claims in between, a superseded fact has a    *)
(* successor that points to it.                                            *)
THEOREM SupersededIsSucceeded == Spec => []SupersededHasSuccessor
<1>1. IInv => SupersededHasSuccessor
  BY DEF IInv, FactOK, Succeeded, SupersededHasSuccessor, Exists
<1> QED BY <1>1, IInvHolds, PTL

(* approve_claim: however requests race, a supported claim has an analyst  *)
(* to its name, and cited a fact that had passed the activation gate.      *)
THEOREM SupportedWasActive == Spec => []SupportedAfterActivation
<1>1. IInv => SupportedAfterActivation
  BY DEF IInv, ClaimOK, SupportedAfterActivation
<1> QED BY <1>1, IInvHolds, PTL

-----------------------------------------------------------------------------
(* The rows of fact_evidence.  Only a link and a split write them.         *)
RowsAreFinite == IsFiniteSet(Rows(stance))
Keeps == /\ \A a \in Anchors : (\E f \in Facts : stance[f][a] # None)
                                  => \E f \in Facts : stance'[f][a] # None
         /\ LinkCount' >= LinkCount

LEMMA SameRows == ASSUME RowsAreFinite, stance' = stance PROVE RowsAreFinite' /\ Keeps
<1>1. LinkCount \in Nat
  BY FS_CardinalityType DEF RowsAreFinite, LinkCount
<1> QED BY <1>1 DEF RowsAreFinite, Keeps, LinkCount

(* A link adds its row, or writes another stance into it.                  *)
LEMMA LinkKeeps ==
  ASSUME TypeOK, RowsAreFinite, NEW f \in Facts, NEW a \in Anchors, NEW s \in Stances, LinkEvidence(f, a, s)
  PROVE  RowsAreFinite' /\ Keeps
<1> PICK now : now = stance' OBVIOUS
<1>1. /\ now = [stance EXCEPT ![f][a] = s]
      /\ stance \in [Facts -> [Anchors -> Stances \cup {None}]]
      /\ s # None
  BY IntelligenceAssumption DEF LinkEvidence, TypeOK
<1>2. \A g \in Facts, b \in Anchors : now[g][b] = IF g = f /\ b = a THEN s ELSE stance[g][b]
  BY <1>1
<1>3. Rows(now) = Rows(stance) \cup {<<f, a>>}
  BY <1>1, <1>2 DEF Rows
<1>4. /\ IsFiniteSet(Rows(now))
      /\ Cardinality(Rows(now)) \in Nat /\ Cardinality(Rows(stance)) \in Nat
      /\ Cardinality(Rows(now)) >= Cardinality(Rows(stance))
  <2> PICK old, row : old = Rows(stance) /\ row = <<f, a>> OBVIOUS
  <2>1. IsFiniteSet(old) /\ Cardinality(old) \in Nat
    BY FS_CardinalityType DEF RowsAreFinite
  <2>2. IsFiniteSet(old \cup {row}) /\ Cardinality(old \cup {row}) \in {Cardinality(old), Cardinality(old) + 1}
    BY <2>1, FS_AddElement
  <2> QED BY <1>3, <2>1, <2>2
<1>5. \A b \in Anchors : (\E g \in Facts : stance[g][b] # None) => \E g \in Facts : now[g][b] # None
  BY <1>1, <1>2
<1> QED BY <1>4, <1>5 DEF RowsAreFinite, Keeps, LinkCount

(* A split gives each row another fact, and no two rows the same.          *)
LEMMA MoveKeeps ==
  ASSUME TypeOK, RowsAreFinite, NEW t \in Threads, MoveFactEvidence(t)
  PROVE  RowsAreFinite' /\ Keeps
<1> PICK now : now = stance' OBVIOUS
<1> PICK from, to, refs : from = job[t].from /\ to = job[t].to /\ refs = job[t].refs OBVIOUS
<1> DEFINE moved == refs \cap Linked(from)
<1>1. CASE now = stance
  BY <1>1, SameRows
<1>2. CASE now # stance
  <2>1. /\ Collisions(from, to, refs) = {}
        /\ now = [f \in Facts |-> [a \in Anchors |->
                   IF a \notin moved \/ from = to THEN stance[f][a]
                   ELSE IF f = to THEN stance[from][a]
                   ELSE IF f = from THEN None ELSE stance[f][a]]]
    BY <1>2 DEF MoveFactEvidence
  <2>2. from \in Facts /\ to \in Facts /\ stance \in [Facts -> [Anchors -> Stances \cup {None}]]
    BY JobKinds DEF MoveFactEvidence, TypeOK, SplitJobs
  <2>3. from # to
    <3>1. CASE from = to
      <4>1. now = [f \in Facts |-> [a \in Anchors |-> stance[f][a]]]
        BY <2>1, <3>1
      <4> QED BY <1>2, <2>2, <4>1
    <3> QED BY <3>1
  <2>4. \A f \in Facts, a \in Anchors :
          now[f][a] = IF a \notin moved THEN stance[f][a]
                      ELSE IF f = to THEN stance[from][a]
                      ELSE IF f = from THEN None ELSE stance[f][a]
    BY <2>1, <2>3
  <2>5. \A a \in moved : a \in Anchors /\ stance[from][a] # None /\ stance[to][a] = None
    BY <2>1, <2>2, <2>3 DEF Collisions, Linked
  <2> HIDE DEF moved
  <2> DEFINE image == [p \in Rows(stance) |-> IF p[1] = from /\ p[2] \in moved THEN <<to, p[2]>> ELSE p]
  <2>6. \A p \in Rows(stance) : image[p] \in Rows(now)
    <3> TAKE p \in Rows(stance)
    <3>1. p = <<p[1], p[2]>> /\ p[1] \in Facts /\ p[2] \in Anchors /\ stance[p[1]][p[2]] # None
      BY DEF Rows
    <3>2. CASE p[1] = from /\ p[2] \in moved
      <4>1. now[to][p[2]] = stance[from][p[2]]
        BY <2>2, <2>4, <3>1, <3>2
      <4> QED BY <2>2, <3>1, <3>2, <4>1 DEF Rows
    <3>3. CASE ~(p[1] = from /\ p[2] \in moved)
      <4>1. now[p[1]][p[2]] = stance[p[1]][p[2]]
        BY <2>2, <2>4, <2>5, <3>1, <3>3
      <4> QED BY <3>1, <3>3, <4>1 DEF Rows
    <3> QED BY <3>2, <3>3
  <2>7. \A p, q \in Rows(stance) : image[p] = image[q] => p = q
    <3> TAKE p, q \in Rows(stance)
    <3>1. /\ p = <<p[1], p[2]>> /\ p[1] \in Facts /\ p[2] \in Anchors /\ stance[p[1]][p[2]] # None
          /\ q = <<q[1], q[2]>> /\ q[1] \in Facts /\ q[2] \in Anchors /\ stance[q[1]][q[2]] # None
      BY DEF Rows
    <3>2. /\ p[2] \in moved => p[1] # to
          /\ q[2] \in moved => q[1] # to
      BY <2>5, <3>1
    <3> QED BY <3>1, <3>2
  <2>8. \A q \in Rows(now) : \E p \in Rows(stance) : image[p] = q
    <3> SUFFICES ASSUME NEW q \in Rows(now) PROVE \E p \in Rows(stance) : image[p] = q
      OBVIOUS
    <3>1. q = <<q[1], q[2]>> /\ q[1] \in Facts /\ q[2] \in Anchors /\ now[q[1]][q[2]] # None
      BY DEF Rows
    <3>2. CASE q[1] = to /\ q[2] \in moved
      <4> DEFINE p == <<from, q[2]>>
      <4>1. p \in Rows(stance)
        BY <2>2, <2>5, <3>1, <3>2 DEF Rows
      <4> QED BY <3>1, <3>2, <4>1
    <3>3. CASE ~(q[1] = to /\ q[2] \in moved)
      <4>1. q \in Rows(stance) /\ ~(q[1] = from /\ q[2] \in moved)
        BY <2>2, <2>4, <3>1, <3>3 DEF Rows
      <4> QED BY <4>1
    <3> QED BY <3>2, <3>3
  <2> HIDE DEF image
  <2>9. image \in Bijection(Rows(stance), Rows(now))
    <3>1. image \in [Rows(stance) -> Rows(now)]
      BY <2>6 DEF image
    <3> QED BY <2>7, <2>8, <3>1 DEF Bijection, Injection, Surjection, IsInjective
  <2>10. IsFiniteSet(Rows(now)) /\ Cardinality(Rows(now)) = Cardinality(Rows(stance))
    BY <2>9, FS_Bijection DEF RowsAreFinite, ExistsBijection
  <2>11. Cardinality(Rows(stance)) \in Nat
    BY FS_CardinalityType DEF RowsAreFinite
  <2>12. \A a \in Anchors : (\E f \in Facts : stance[f][a] # None) => \E f \in Facts : now[f][a] # None
    BY <2>2, <2>4, <2>5
  <2> QED BY <2>10, <2>11, <2>12 DEF RowsAreFinite, Keeps, LinkCount
<1> QED BY <1>1, <1>2

LEMMA StepKeeps == ASSUME TypeOK, RowsAreFinite, Next PROVE RowsAreFinite' /\ Keeps
<1>1. CASE \E f \in Facts, a \in Anchors, s \in Stances : LinkEvidence(f, a, s)
  BY <1>1, LinkKeeps
<1>2. CASE \E t \in Threads : MoveFactEvidence(t)
  BY <1>2, MoveKeeps
<1>3. CASE stance' = stance
  BY <1>3, SameRows
<1>4. ASSUME NEW t \in Threads, FactRequest(t) \/ ClaimRequest(t) \/ ClaimStep(t) \/ Abandon(t)
      PROVE  stance' = stance
  BY <1>4 DEF FactRequest, ClaimRequest, ClaimStep, Abandon, PostActivate, PostRetract, PostSupersede, PostSplit,
     CreateHypothesis, PostReplaceFacts, PostApprove, ReplaceFacts, ReplaceClaimFacts, CommitClaimFacts,
     ListClaimFacts, CollectSupportingFact, CollectedAll, ApproveClaim, factRows
<1>5. ASSUME NEW t \in Threads, FactStep(t), ~MoveFactEvidence(t)
      PROVE  stance' = stance
  BY <1>5 DEF FactStep, CollectGateReasons, DeriveStatus, HoldAsDraft, UpdateVerification, ActivateFact,
     RetractFact, SaveSuccessor, FlipSuperseded, Recompute, Rewrite, factRows
<1> QED BY <1>1, <1>2, <1>3, <1>4, <1>5 DEF Next, CreateDraftFact, LinkSubject

(* move_fact_evidence and link_evidence: splits and links of several       *)
(* requests lose no evidence, and no row that relates it to a fact.        *)
THEOREM EvidenceStays == Spec => EvidenceIsKept
<1>1. Init => IInv /\ RowsAreFinite
  BY InitIInv, IntelligenceAssumption DEF Init, RowsAreFinite
<1>2. IInv /\ RowsAreFinite /\ [Next]_vars => IInv' /\ RowsAreFinite'
  <2>1. CASE UNCHANGED vars
    BY <2>1, NextIInv, SameRows DEF vars, factRows
  <2>2. CASE Next
    BY <2>2, NextIInv, StepKeeps DEF IInv
  <2> QED BY <2>1, <2>2
<1>3. IInv /\ RowsAreFinite /\ [Next]_vars => [Keeps]_vars
  BY StepKeeps DEF IInv
<1>4. EvidenceIsKept <=> [][Keeps]_vars
  BY DEF EvidenceIsKept, Keeps
<1> QED BY <1>1, <1>2, <1>3, <1>4, PTL DEF Spec


-----------------------------------------------------------------------------
(* The kinds of requests, by what they are about to do.                    *)
LEMMA ReportJobKinds ==
  ASSUME NEW j \in Rep!Jobs
  PROVE  /\ j.at = "draft" => j \in Rep!DraftJobs
         /\ j.at \in {"attach_claims", "attach_evidence", "submit"} => j \in Rep!GenerateJobs
         /\ j.at = "rules" => j \in Rep!GateJobs
         /\ j.at = "judge" => j \in Rep!JudgeJobs
         /\ j.at = "apply" => j \in Rep!ApplyJobs
         /\ j.at \in {"resubmit", "approve", "reject", "publish", "delete"} => j \in Rep!DecisionJobs
         /\ j.at = "idle" => j = Rep!Idle
         /\ j.at \notin {"idle", "draft"} => j.id \in Reports
  BY DEF Rep!Jobs, Rep!Idle, Rep!DraftJobs, Rep!GenerateJobs, Rep!GateJobs, Rep!JudgeJobs,
         Rep!ApplyJobs, Rep!DecisionJobs

LEMMA ReportIdleOK == Rep!Idle \in Rep!Jobs /\ \A i, row, held : Rep!JobOK(Rep!Idle, i, row, held)
  BY DEF Rep!Jobs, Rep!Idle, Rep!JobOK

(* No row, no review and no request at first.                              *)
LEMMA ReportInitIInv == Rep!Init => Rep!IInv
  BY IntelligenceAssumption, KnowledgeAssumption, ReportIdleOK DEF Rep!Init, Rep!IInv, Rep!TypeOK,
         Rep!RowOK, Rep!JobOK, Rep!Idle, Rep!Review

(* A step that changes rows as reports may change, and one request to one  *)
(* that is as it should be.                                                *)
LEMMA ReportRequestStep ==
  ASSUME Rep!IInv, NEW t \in Threads, NEW j \in Rep!Jobs, Rep!Become(t, j),
         Rep!JobOK(j, issued', report', reviews'), Rep!Evolves, \A r \in Reports : Rep!RowOK(r)',
         report' \in [Reports -> Rep!Report \cup {None}], bound' \in [Reports -> SUBSET Anchors],
         claims' \in [Reports -> BOOLEAN], reviews' \in [Reports -> SUBSET Rep!Review],
         issued' \subseteq Reports, gone' \subseteq Requested, asked' \in 0 .. MaxRequests
  PROVE  Rep!IInv'
<1>1. desk' \in [Threads -> Rep!Jobs] /\ \A u \in Threads : desk'[u] = IF u = t THEN j ELSE desk[u]
  BY DEF Rep!IInv, Rep!TypeOK, Rep!Become
<1>2. ASSUME NEW u \in Threads PROVE Rep!JobOK(desk'[u], issued', report', reviews')
  <2>1. CASE u = t
    BY <1>1, <2>1
  <2>2. CASE u # t
    <3>1. Rep!JobOK(desk[u], issued, report, reviews) /\ desk'[u] = desk[u]
      BY <1>1, <2>2 DEF Rep!IInv
    <3> QED BY <3>1 DEF Rep!JobOK, Rep!Evolves
  <2> QED BY <2>1, <2>2
<1>3. Rep!TypeOK'
  BY <1>1 DEF Rep!TypeOK
<1> QED BY <1>2, <1>3 DEF Rep!IInv

(* A request that goes on without a change to the rows.                    *)
LEMMA ReportOnlyJob ==
  ASSUME Rep!IInv, NEW t \in Threads, NEW j \in Rep!Jobs, Rep!Become(t, j),
         Rep!JobOK(j, issued, report, reviews), UNCHANGED <<Rep!rows, gone>>, asked' \in 0 .. MaxRequests
  PROVE  Rep!IInv'
<1>1. Rep!Evolves /\ \A r \in Reports : Rep!RowOK(r)'
  BY DEF Rep!IInv, Rep!RowOK, Rep!Evolves, Rep!rows
<1> QED BY <1>1, ReportRequestStep DEF Rep!IInv, Rep!TypeOK, Rep!rows

(* A request that begins.                                                  *)
LEMMA ReportEnterStep ==
  ASSUME Rep!IInv, NEW t \in Threads, NEW j \in Rep!Jobs, Rep!Enter(t, j),
         Rep!JobOK(j, issued, report, reviews), UNCHANGED <<Rep!rows, gone>>
  PROVE  Rep!IInv'
<1>1. asked' \in 0 .. MaxRequests
  BY IntelligenceAssumption, KnowledgeAssumption DEF Rep!Enter, Rep!IInv, Rep!TypeOK
<1> QED BY <1>1, ReportOnlyJob DEF Rep!Enter

(* A request that ends.                                                    *)
LEMMA ReportReturnStep ==
  ASSUME Rep!IInv, NEW t \in Threads, Rep!Return(t), UNCHANGED <<Rep!rows, gone, asked>>
  PROVE  Rep!IInv'
  BY ReportIdleOK, ReportOnlyJob DEF Rep!Return, Rep!IInv, Rep!TypeOK

-----------------------------------------------------------------------------
LEMMA ReportBuildContextStep ==
  ASSUME Rep!IInv, NEW t \in Threads, NEW e \in SUBSET Anchors, NEW c \in BOOLEAN, NEW l \in BOOLEAN,
         Rep!BuildContext(t, e, c, l)
  PROVE  Rep!IInv'
<1> DEFINE j == [at |-> "draft", context |-> [evidence |-> e, claims |-> c, limited |-> l]]
<1>1. j \in Rep!Jobs /\ Rep!JobOK(j, issued, report, reviews)
  BY DEF Rep!Jobs, Rep!DraftJobs, Rep!Context, Rep!JobOK
<1>2. Rep!Enter(t, j)
  BY DEF Rep!BuildContext
<1> HIDE DEF j
<1> QED BY <1>1, <1>2, ReportEnterStep DEF Rep!BuildContext

(* SaveDraft: the id is new, so no request relies on it.                   *)
LEMMA ReportSaveDraftStep ==
  ASSUME Rep!IInv, NEW t \in Threads, NEW r \in Reports, NEW c \in Contents, NEW a \in BOOLEAN,
         Rep!SaveDraft(t, r, c, a)
  PROVE  Rep!IInv'
<1> DEFINE j == [at |-> "attach_claims", id |-> r, context |-> desk[t].context, auto |-> a]
           new == [status |-> "draft", review |-> "not_reviewed", content |-> c,
                   approved |-> FALSE, published |-> FALSE]
<1>1. desk[t].context \in Rep!Context
  BY ReportJobKinds DEF Rep!SaveDraft, Rep!IInv, Rep!TypeOK, Rep!DraftJobs
<1>2. j \in Rep!Jobs /\ j.at = "attach_claims" /\ j.id = r
  BY <1>1 DEF Rep!Jobs, Rep!GenerateJobs
<1>3. Rep!Become(t, j) /\ report' = [report EXCEPT ![r] = new] /\ issued' = issued \cup {r} /\ r \notin issued
  BY DEF Rep!SaveDraft
<1>4. new \in Rep!Report /\ new.status = "draft" /\ new.review = "not_reviewed" /\ new.approved = FALSE /\ new.published = FALSE
  BY DEF Rep!Report, Rep!Status, Rep!ReviewStatus
<1> HIDE DEF j, new
<1>5. report' \in [Reports -> Rep!Report \cup {None}] /\ \A q \in Reports : report'[q] = IF q = r THEN new ELSE report[q]
  BY <1>3, <1>4 DEF Rep!IInv, Rep!TypeOK
<1>6. Rep!Evolves /\ Rep!JobOK(j, issued', report', reviews')
  BY <1>2, <1>3, <1>5 DEF Rep!Evolves, Rep!JobOK, Rep!SaveDraft, Rep!IInv, Rep!TypeOK
<1>7. \A q \in Reports : Rep!RowOK(q)'
  BY <1>3, <1>4, <1>5 DEF Rep!IInv, Rep!RowOK, Rep!SaveDraft
<1>8. issued' \subseteq Reports
  BY <1>3 DEF Rep!IInv, Rep!TypeOK
<1> QED BY <1>2, <1>3, <1>5, <1>6, <1>7, <1>8, ReportRequestStep DEF Rep!SaveDraft, Rep!IInv,
         Rep!TypeOK

(* AttachClaims, AttachEvidence: neither touches the row or its reviews.   *)
LEMMA ReportAttachStep ==
  ASSUME Rep!IInv, NEW t \in Threads, Rep!AttachClaims(t) \/ Rep!AttachEvidence(t)
  PROVE  Rep!IInv'
<1> DEFINE p == desk[t]
           j(at) == [p EXCEPT !.at = at]
<1>1. p \in Rep!GenerateJobs /\ p.id \in issued /\ p.context \in Rep!Context
  BY ReportJobKinds DEF Rep!AttachClaims, Rep!AttachEvidence, Rep!IInv, Rep!TypeOK, Rep!JobOK,
                        Rep!GenerateJobs
<1>2. \A at \in {"attach_evidence", "submit"} :
        j(at) \in Rep!Jobs /\ Rep!JobOK(j(at), issued, report, reviews)
  BY <1>1 DEF Rep!Jobs, Rep!GenerateJobs, Rep!JobOK
<1>3. /\ bound' \in [Reports -> SUBSET Anchors] /\ claims' \in [Reports -> BOOLEAN]
      /\ UNCHANGED <<report, reviews, issued, gone, asked>>
  BY <1>1 DEF Rep!AttachClaims, Rep!AttachEvidence, Rep!IInv, Rep!TypeOK, Rep!Context,
              Rep!GenerateJobs
<1>4. Rep!Evolves /\ \A r \in Reports : Rep!RowOK(r)'
  BY <1>3 DEF Rep!IInv, Rep!RowOK, Rep!Evolves
<1>5. Rep!Become(t, j("attach_evidence")) \/ Rep!Become(t, j("submit")) \/ Rep!Become(t, Rep!Idle)
  BY DEF Rep!AttachClaims, Rep!AttachEvidence, Rep!Return
<1> HIDE DEF j
<1>6. ASSUME NEW k \in Rep!Jobs, Rep!JobOK(k, issued, report, reviews), Rep!Become(t, k) PROVE Rep!IInv'
  BY <1>3, <1>4, <1>6, ReportRequestStep DEF Rep!IInv, Rep!TypeOK
<1> QED BY <1>2, <1>5, <1>6, ReportIdleOK

-----------------------------------------------------------------------------
(* update_report_status, when what it writes is backed by the reviews.     *)
LEMMA ReportUpdateOK ==
  ASSUME Rep!IInv, NEW r \in issued, NEW status \in Rep!Status, NEW review \in Rep!ReviewStatus,
         Rep!UpdateStatus(r, status, review), UNCHANGED <<reviews, issued>>,
         report[r] # None =>
           /\ review = "passed" \/ status = "approved" => Rep!BothPassed \subseteq reviews[r]
           /\ status = "published" => report[r].approved
  PROVE  /\ report' \in [Reports -> Rep!Report \cup {None}]
         /\ Rep!Evolves /\ \A q \in Reports : Rep!RowOK(q)'
<1> DEFINE old == report[r]
           new == [old EXCEPT !.status = status, !.review = review,
                     !.approved = old.approved \/ status = "approved",
                     !.published = old.published \/ status = "published"]
<1>1. r \in Reports /\ (old # None => old \in Rep!Report)
  BY DEF Rep!IInv, Rep!TypeOK
<1>2. old # None =>
        /\ new \in Rep!Report /\ new.review = review /\ new.status = status
        /\ new.approved = (old.approved \/ status = "approved")
        /\ new.published = (old.published \/ status = "published")
  BY <1>1 DEF Rep!Report
<1>3. report' = [report EXCEPT ![r] = IF old = None THEN None ELSE new]
  BY DEF Rep!UpdateStatus
<1> HIDE DEF new
<1>4. /\ report' \in [Reports -> Rep!Report \cup {None}]
      /\ \A q \in Reports : report'[q] = IF q = r /\ old # None THEN new ELSE report[q]
  BY <1>1, <1>2, <1>3 DEF Rep!IInv, Rep!TypeOK
<1>5. Rep!Evolves
  BY <1>1, <1>2, <1>4 DEF Rep!Evolves, Rep!IInv, Rep!TypeOK
<1>6. ASSUME NEW q \in Reports PROVE Rep!RowOK(q)'
  <2>1. Rep!RowOK(q)
    BY DEF Rep!IInv
  <2>2. CASE q = r /\ old # None
    <3>1. report'[q] = new
      BY <1>4, <2>2
    <3> QED BY <1>2, <2>1, <2>2, <3>1 DEF Rep!RowOK
  <2>3. CASE ~(q = r /\ old # None)
    BY <1>4, <2>1, <2>3 DEF Rep!RowOK
  <2> QED BY <2>2, <2>3
<1> QED BY <1>4, <1>5, <1>6

(* A request that updates the status and goes on or ends.                  *)
LEMMA ReportUpdateStep ==
  ASSUME Rep!IInv, NEW t \in Threads, NEW r \in issued, NEW status \in Rep!Status,
         NEW review \in Rep!ReviewStatus, Rep!UpdateStatus(r, status, review),
         report[r] # None =>
           /\ review = "passed" \/ status = "approved" => Rep!BothPassed \subseteq reviews[r]
           /\ status = "published" => report[r].approved,
         NEW j \in Rep!Jobs, Rep!Become(t, j), j.at \in {"idle", "rules"}, j.at = "rules" => j.id = r,
         UNCHANGED <<bound, claims, reviews, issued, gone, asked>>
  PROVE  Rep!IInv'
<1>1. Rep!JobOK(j, issued', report', reviews')
  BY DEF Rep!JobOK
<1> QED BY <1>1, ReportUpdateOK, ReportRequestStep DEF Rep!IInv, Rep!TypeOK

LEMMA ReportSubmitStep == ASSUME Rep!IInv, NEW t \in Threads, Rep!Submit(t) PROVE Rep!IInv'
<1> DEFINE p == desk[t]
           j == [at |-> "rules", id |-> p.id, limited |-> p.context.limited, auto |-> p.auto]
<1>1. p \in Rep!GenerateJobs /\ p.id \in issued
  BY ReportJobKinds DEF Rep!Submit, Rep!IInv, Rep!TypeOK, Rep!JobOK
<1>2. j \in Rep!Jobs /\ j.at = "rules" /\ j.id = p.id
  BY <1>1 DEF Rep!Jobs, Rep!GenerateJobs, Rep!GateJobs, Rep!Context
<1>3. Rep!Idle \in Rep!Jobs /\ Rep!Idle.at = "idle"
  BY ReportIdleOK DEF Rep!Idle
<1>4. Rep!Become(t, j) \/ Rep!Become(t, Rep!Idle)
  BY DEF Rep!Submit
<1>5. "quality_reviewing" \in Rep!Status /\ "not_reviewed" \in Rep!ReviewStatus
  BY DEF Rep!Status, Rep!ReviewStatus
<1> HIDE DEF j
<1>6. ASSUME NEW k \in Rep!Jobs, k.at \in {"idle", "rules"}, k.at = "rules" => k.id = p.id, Rep!Become(t, k)
      PROVE  Rep!IInv'
  BY <1>1, <1>5, <1>6, ReportUpdateStep DEF Rep!Submit
<1> QED BY <1>2, <1>3, <1>4, <1>6

LEMMA ReportPostReviewStep ==
  ASSUME Rep!IInv, NEW t \in Threads, NEW r \in Reports, Rep!PostReview(t, r)
  PROVE  Rep!IInv'
<1> DEFINE j == [at |-> "resubmit", id |-> r]
<1>1. r \in issued
  BY DEF Rep!PostReview, Rep!Exists, Rep!IInv, Rep!RowOK
<1>2. j \in Rep!Jobs /\ Rep!JobOK(j, issued, report, reviews)
  BY <1>1 DEF Rep!Jobs, Rep!DecisionJobs, Rep!JobOK
<1>3. Rep!Enter(t, j)
  BY DEF Rep!PostReview
<1> HIDE DEF j
<1> QED BY <1>2, <1>3, ReportEnterStep DEF Rep!PostReview

(* The row's verdict is written back: it was backed by the reviews, or the *)
(* row is gone.                                                            *)
LEMMA ReportKeepReviewOK ==
  ASSUME Rep!IInv, NEW r \in issued
  PROVE  /\ Rep!KeepReview(r) \in Rep!ReviewStatus
         /\ report[r] # None /\ Rep!KeepReview(r) = "passed" => Rep!BothPassed \subseteq reviews[r]
<1>1. r \in Reports /\ Rep!RowOK(r) /\ (report[r] # None => report[r].review \in Rep!ReviewStatus)
  BY DEF Rep!IInv, Rep!TypeOK, Rep!Report
<1> QED BY <1>1 DEF Rep!KeepReview, Rep!Exists, Rep!RowOK, Rep!ReviewStatus

LEMMA ReportResubmitStep == ASSUME Rep!IInv, NEW t \in Threads, Rep!Resubmit(t) PROVE Rep!IInv'
<1> DEFINE r == desk[t].id
           j == [at |-> "rules", id |-> r, limited |-> FALSE, auto |-> FALSE]
<1>1. r \in issued /\ r \in Reports
  BY ReportJobKinds DEF Rep!Resubmit, Rep!IInv, Rep!TypeOK, Rep!JobOK
<1>2. j \in Rep!Jobs /\ j.at = "rules" /\ j.id = r
  BY <1>1 DEF Rep!Jobs, Rep!GateJobs
<1>3. Rep!Idle \in Rep!Jobs /\ Rep!Idle.at = "idle"
  BY ReportIdleOK DEF Rep!Idle
<1>4. (Rep!Become(t, j) \/ Rep!Become(t, Rep!Idle)) /\ Rep!UpdateStatus(r, "quality_reviewing", Rep!KeepReview(r))
  BY DEF Rep!Resubmit
<1>5. "quality_reviewing" \in Rep!Status
  BY DEF Rep!Status
<1> HIDE DEF j, r
<1>6. ASSUME NEW k \in Rep!Jobs, k.at \in {"idle", "rules"}, k.at = "rules" => k.id = r, Rep!Become(t, k)
      PROVE  Rep!IInv'
  BY <1>1, <1>4, <1>5, <1>6, ReportUpdateStep, ReportKeepReviewOK DEF Rep!Resubmit
<1> QED BY <1>2, <1>3, <1>4, <1>6

-----------------------------------------------------------------------------
(* The gate: a verdict is recorded before it is relied on.                 *)
LEMMA ReportSaveReviewOK ==
  ASSUME Rep!IInv, NEW r \in Reports, NEW type \in {"rule", "llm"}, NEW status \in Rep!ReviewStatus,
         Rep!SaveReview(r, type, status), UNCHANGED <<report, issued>>
  PROVE  /\ reviews' \in [Reports -> SUBSET Rep!Review]
         /\ reviews'[r] = reviews[r] \cup {[type |-> type, status |-> status]}
         /\ Rep!Evolves /\ \A q \in Reports : Rep!RowOK(q)'
<1>1. [type |-> type, status |-> status] \in Rep!Review
  BY DEF Rep!Review
<1>2. /\ reviews' \in [Reports -> SUBSET Rep!Review]
      /\ reviews'[r] = reviews[r] \cup {[type |-> type, status |-> status]}
      /\ \A q \in Reports : reviews[q] \subseteq reviews'[q]
  BY <1>1 DEF Rep!SaveReview, Rep!IInv, Rep!TypeOK
<1>3. Rep!Evolves /\ \A q \in Reports : Rep!RowOK(q)'
  BY <1>2 DEF Rep!Evolves, Rep!RowOK, Rep!IInv, Rep!TypeOK
<1> QED BY <1>2, <1>3

LEMMA ReportRunRuleGateStep == ASSUME Rep!IInv, NEW t \in Threads, Rep!RunRuleGate(t) PROVE Rep!IInv'
<1> DEFINE p == desk[t]
           status == Rep!RuleStatus(p.id, p.limited)
           failed == [at |-> "apply", id |-> p.id, verdict |-> "failed", auto |-> p.auto]
           passed == [at |-> "judge", id |-> p.id, auto |-> p.auto]
<1>1. p \in Rep!GateJobs /\ p.id \in issued /\ p.id \in Reports
  BY ReportJobKinds DEF Rep!RunRuleGate, Rep!IInv, Rep!TypeOK, Rep!JobOK
<1>2. CASE ~Rep!Exists(p.id)
  BY <1>2, ReportReturnStep DEF Rep!RunRuleGate, Rep!rows
<1>3. CASE Rep!Exists(p.id)
  <2>1. status \in {"passed", "failed"} /\ status \in Rep!ReviewStatus
    BY DEF Rep!RuleStatus, Rep!ReviewStatus
  <2>2. /\ failed \in Rep!Jobs /\ failed.at = "apply" /\ failed.id = p.id /\ failed.verdict = "failed"
        /\ passed \in Rep!Jobs /\ passed.at = "judge" /\ passed.id = p.id
    BY <1>1 DEF Rep!Jobs, Rep!GateJobs, Rep!JudgeJobs, Rep!ApplyJobs, Rep!ReviewStatus
  <2>3. Rep!SaveReview(p.id, "rule", status) /\ Rep!Become(t, IF status = "failed" THEN failed ELSE passed)
    BY <1>3 DEF Rep!RunRuleGate
  <2> HIDE DEF status, failed, passed
  <2>4. /\ reviews' \in [Reports -> SUBSET Rep!Review] /\ Rep!Evolves /\ \A q \in Reports : Rep!RowOK(q)'
        /\ reviews'[p.id] = reviews[p.id] \cup {[type |-> "rule", status |-> status]}
    BY <1>1, <2>1, <2>3, ReportSaveReviewOK DEF Rep!RunRuleGate
  <2>5. Rep!JobOK(failed, issued', report', reviews')
    BY <1>1, <2>2 DEF Rep!JobOK, Rep!RunRuleGate
  <2>6. status = "passed" => Rep!JobOK(passed, issued', report', reviews')
    BY <1>1, <2>2, <2>4 DEF Rep!JobOK, Rep!RunRuleGate, Rep!Passed
  <2>7. ASSUME NEW k \in Rep!Jobs, Rep!JobOK(k, issued', report', reviews'), Rep!Become(t, k) PROVE Rep!IInv'
    BY <2>4, <2>7, ReportRequestStep DEF Rep!RunRuleGate, Rep!IInv, Rep!TypeOK
  <2> QED BY <2>1, <2>2, <2>3, <2>5, <2>6, <2>7
<1> QED BY <1>2, <1>3

LEMMA ReportRunJudgeReviewStep ==
  ASSUME Rep!IInv, NEW t \in Threads, NEW v \in Rep!ReviewStatus, Rep!RunJudgeReview(t, v)
  PROVE  Rep!IInv'
<1> DEFINE p == desk[t]
           j == [at |-> "apply", id |-> p.id, verdict |-> v, auto |-> p.auto]
<1>1. p \in Rep!JudgeJobs /\ p.id \in issued /\ p.id \in Reports /\ Rep!JobOK(p, issued, report, reviews)
  BY ReportJobKinds DEF Rep!RunJudgeReview, Rep!IInv, Rep!TypeOK, Rep!JobOK
<1>2. CASE ~Rep!Exists(p.id)
  BY <1>2, ReportReturnStep DEF Rep!RunJudgeReview, Rep!rows
<1>3. CASE Rep!Exists(p.id)
  <2>1. j \in Rep!Jobs /\ j.at = "apply" /\ j.id = p.id /\ j.verdict = v
    BY <1>1 DEF Rep!Jobs, Rep!JudgeJobs, Rep!ApplyJobs
  <2>2. Rep!SaveReview(p.id, "llm", v) /\ Rep!Become(t, j)
    BY <1>3 DEF Rep!RunJudgeReview
  <2>3. Rep!Passed("rule") \in reviews[p.id]
    BY <1>1, <1>3 DEF Rep!JobOK, Rep!Exists, Rep!RunJudgeReview
  <2> HIDE DEF j
  <2>4. /\ reviews' \in [Reports -> SUBSET Rep!Review] /\ Rep!Evolves /\ \A q \in Reports : Rep!RowOK(q)'
        /\ reviews'[p.id] = reviews[p.id] \cup {[type |-> "llm", status |-> v]}
    BY <1>1, <2>2, ReportSaveReviewOK DEF Rep!RunJudgeReview
  <2>5. Rep!JobOK(j, issued', report', reviews')
    BY <1>1, <2>1, <2>3, <2>4 DEF Rep!JobOK, Rep!RunJudgeReview, Rep!BothPassed, Rep!Passed
  <2> QED BY <2>1, <2>2, <2>4, <2>5, ReportRequestStep DEF Rep!RunJudgeReview, Rep!IInv, Rep!TypeOK
<1> QED BY <1>2, <1>3

LEMMA ReportApplyStep == ASSUME Rep!IInv, NEW t \in Threads, Rep!ApplyQualityResult(t) PROVE Rep!IInv'
<1> DEFINE p == desk[t]
           status == CASE p.verdict = "failed" -> "revision_required"
                       [] p.verdict = "passed" /\ p.auto /\ AutoPublish -> "approved"
                       [] OTHER -> "waiting_review"
<1>1. p \in Rep!ApplyJobs /\ p.id \in issued /\ Rep!JobOK(p, issued, report, reviews)
  BY ReportJobKinds DEF Rep!ApplyQualityResult, Rep!IInv, Rep!TypeOK, Rep!JobOK
<1>2. p.verdict \in Rep!ReviewStatus
  BY <1>1 DEF Rep!ApplyJobs
<1>3. /\ status \in Rep!Status /\ status # "published"
      /\ status = "approved" => p.verdict = "passed"
  BY DEF Rep!Status
<1>4. Rep!UpdateStatus(p.id, status, p.verdict) /\ Rep!Become(t, Rep!Idle)
  BY DEF Rep!ApplyQualityResult, Rep!Return
<1>5. report[p.id] # None /\ p.verdict = "passed" => Rep!BothPassed \subseteq reviews[p.id]
  BY <1>1 DEF Rep!JobOK, Rep!ApplyQualityResult
<1>6. Rep!Idle \in Rep!Jobs /\ Rep!Idle.at = "idle"
  BY ReportIdleOK DEF Rep!Idle
<1> HIDE DEF status, p
<1> QED BY <1>1, <1>2, <1>3, <1>4, <1>5, <1>6, ReportUpdateStep DEF Rep!ApplyQualityResult

-----------------------------------------------------------------------------
(* A decision looks first: what it saw of the report stays so.             *)
LEMMA ReportLookStep ==
  ASSUME Rep!IInv, NEW t \in Threads, NEW r \in Reports,
         Rep!LookToApprove(t, r) \/ Rep!LookToReject(t, r) \/ Rep!LookToPublish(t, r) \/ Rep!LookToDelete(t, r)
  PROVE  Rep!IInv'
<1> DEFINE j(at) == [at |-> at, id |-> r]
<1>1. r \in issued /\ Rep!RowOK(r) /\ report[r] # None
  BY DEF Rep!LookToApprove, Rep!LookToReject, Rep!LookToPublish, Rep!LookToDelete, Rep!Exists,
         Rep!IInv, Rep!RowOK
<1>2. \A at \in {"approve", "reject", "publish", "delete"} : j(at) \in Rep!Jobs /\ j(at).at = at /\ j(at).id = r
  BY DEF Rep!Jobs, Rep!DecisionJobs
<1>3. /\ Rep!LookToApprove(t, r) => Rep!Enter(t, j("approve")) /\ report[r].review = "passed"
      /\ Rep!LookToReject(t, r) => Rep!Enter(t, j("reject"))
      /\ Rep!LookToPublish(t, r) => Rep!Enter(t, j("publish")) /\ report[r].review = "passed" /\ report[r].status = "approved"
      /\ Rep!LookToDelete(t, r) => Rep!Enter(t, j("delete"))
  BY DEF Rep!LookToApprove, Rep!LookToReject, Rep!LookToPublish, Rep!LookToDelete
<1> HIDE DEF j
<1>4. ASSUME NEW k \in Rep!Jobs, Rep!JobOK(k, issued, report, reviews), Rep!Enter(t, k) PROVE Rep!IInv'
  BY <1>4, ReportEnterStep DEF Rep!LookToApprove, Rep!LookToReject, Rep!LookToPublish,
                               Rep!LookToDelete
<1>5. CASE Rep!LookToApprove(t, r)
  <2>1. Rep!JobOK(j("approve"), issued, report, reviews)
    BY <1>1, <1>2, <1>3, <1>5 DEF Rep!JobOK, Rep!RowOK
  <2> QED BY <1>2, <1>3, <1>4, <1>5, <2>1
<1>6. CASE Rep!LookToPublish(t, r)
  <2>1. Rep!JobOK(j("publish"), issued, report, reviews)
    BY <1>1, <1>2, <1>3, <1>6 DEF Rep!JobOK, Rep!RowOK
  <2> QED BY <1>2, <1>3, <1>4, <1>6, <2>1
<1>7. CASE Rep!LookToReject(t, r) \/ Rep!LookToDelete(t, r)
  <2>1. \A at \in {"reject", "delete"} : Rep!JobOK(j(at), issued, report, reviews)
    BY <1>1, <1>2 DEF Rep!JobOK
  <2> QED BY <1>2, <1>3, <1>4, <1>7, <2>1
<1> QED BY <1>5, <1>6, <1>7

(* Approve, Reject, Publish: whatever the row says now.                    *)
LEMMA ReportDecideStep ==
  ASSUME Rep!IInv, NEW t \in Threads, Rep!Approve(t) \/ Rep!Reject(t) \/ Rep!Publish(t)
  PROVE  Rep!IInv'
<1> DEFINE r == desk[t].id
<1>1. /\ desk[t].at \in {"approve", "reject", "publish"} /\ r \in issued
      /\ Rep!JobOK(desk[t], issued, report, reviews)
  BY DEF Rep!Approve, Rep!Reject, Rep!Publish, Rep!Decide, Rep!IInv, Rep!JobOK
<1>2. /\ Rep!KeepReview(r) \in Rep!ReviewStatus
      /\ report[r] # None /\ Rep!KeepReview(r) = "passed" => Rep!BothPassed \subseteq reviews[r]
  BY <1>1, ReportKeepReviewOK
<1>3. Rep!Idle \in Rep!Jobs /\ Rep!Idle.at = "idle"
  BY ReportIdleOK DEF Rep!Idle
<1>4. {"approved", "revision_required", "published"} \subseteq Rep!Status
  BY DEF Rep!Status
<1>5. ASSUME NEW status \in {"approved", "revision_required", "published"}, NEW at, Rep!Decide(t, at, status),
             report[r] # None =>
               /\ status = "approved" => Rep!BothPassed \subseteq reviews[r]
               /\ status = "published" => report[r].approved
      PROVE  Rep!IInv'
  <2>1. status \in Rep!Status /\ Rep!UpdateStatus(r, status, Rep!KeepReview(r)) /\ Rep!Become(t, Rep!Idle)
    BY <1>4, <1>5 DEF Rep!Decide, Rep!Return
  <2> HIDE DEF r
  <2> QED BY <1>1, <1>2, <1>3, <1>5, <2>1, ReportUpdateStep DEF Rep!Decide
<1>6. CASE Rep!Approve(t)
  <2>1. report[r] # None => Rep!BothPassed \subseteq reviews[r]
    BY <1>1, <1>6 DEF Rep!Approve, Rep!Decide, Rep!JobOK
  <2> QED BY <1>5, <1>6, <2>1 DEF Rep!Approve
<1>7. CASE Rep!Reject(t)
  BY <1>5, <1>7 DEF Rep!Reject
<1>8. CASE Rep!Publish(t)
  <2>1. report[r] # None => report[r].approved
    BY <1>1, <1>8 DEF Rep!Publish, Rep!Decide, Rep!JobOK
  <2> QED BY <1>5, <1>8, <2>1 DEF Rep!Publish
<1> QED BY <1>6, <1>7, <1>8

(* Delete: the report is gone, and its id with it.                         *)
LEMMA ReportDeleteStep == ASSUME Rep!IInv, NEW t \in Threads, Rep!Delete(t) PROVE Rep!IInv'
<1> DEFINE r == desk[t].id
<1>1. /\ r \in Reports
      /\ report' = [report EXCEPT ![r] = None] /\ bound' = [bound EXCEPT ![r] = {}]
      /\ claims' = [claims EXCEPT ![r] = FALSE] /\ reviews' = [reviews EXCEPT ![r] = {}]
      /\ Rep!Become(t, Rep!Idle) /\ UNCHANGED <<issued, gone, asked>>
  BY ReportJobKinds DEF Rep!Delete, Rep!Return, Rep!IInv, Rep!TypeOK
<1> HIDE DEF r
<1>2. /\ report' \in [Reports -> Rep!Report \cup {None}] /\ bound' \in [Reports -> SUBSET Anchors]
      /\ claims' \in [Reports -> BOOLEAN] /\ reviews' \in [Reports -> SUBSET Rep!Review]
      /\ \A q \in Reports : report'[q] # None =>
           report[q] # None /\ report'[q] = report[q] /\ reviews'[q] = reviews[q]
  BY <1>1 DEF Rep!IInv, Rep!TypeOK
<1>3. Rep!Evolves /\ \A q \in Reports : Rep!RowOK(q)'
  BY <1>1, <1>2 DEF Rep!Evolves, Rep!RowOK, Rep!IInv, Rep!TypeOK
<1> QED BY <1>1, <1>2, <1>3, ReportIdleOK, ReportRequestStep DEF Rep!IInv, Rep!TypeOK

LEMMA ReportRemoveCompetitorStep ==
  ASSUME Rep!IInv, NEW c \in Requested, Rep!RemoveCompetitor(c)
  PROVE  Rep!IInv'
  BY IntelligenceAssumption, KnowledgeAssumption DEF Rep!RemoveCompetitor, Rep!IInv, Rep!TypeOK,
                                                     Rep!RowOK, Rep!rows

LEMMA ReportAbandonStep == ASSUME Rep!IInv, NEW t \in Threads, Rep!Abandon(t) PROVE Rep!IInv'
  BY ReportReturnStep DEF Rep!Abandon

-----------------------------------------------------------------------------
(* The invariant is inductive.                                             *)
LEMMA ReportNextIInv == Rep!IInv /\ [Rep!Next]_(Rep!vars) => Rep!IInv'
<1> SUFFICES ASSUME Rep!IInv, [Rep!Next]_(Rep!vars) PROVE Rep!IInv'
  OBVIOUS
<1>1. CASE UNCHANGED Rep!vars
  BY <1>1 DEF Rep!vars, Rep!IInv, Rep!TypeOK, Rep!RowOK
<1>2. ASSUME NEW t \in Threads, Rep!Generate(t) PROVE Rep!IInv'
  BY <1>2, ReportBuildContextStep, ReportSaveDraftStep, ReportAttachStep, ReportSubmitStep
     DEF Rep!Generate
<1>3. ASSUME NEW t \in Threads, Rep!ReviewReport(t) PROVE Rep!IInv'
  BY <1>3, ReportPostReviewStep, ReportResubmitStep, ReportRunRuleGateStep,
     ReportRunJudgeReviewStep, ReportApplyStep DEF Rep!ReviewReport
<1>4. ASSUME NEW t \in Threads, Rep!DecideOn(t) PROVE Rep!IInv'
  BY <1>4, ReportLookStep, ReportDecideStep, ReportDeleteStep DEF Rep!DecideOn
<1> QED BY <1>1, <1>2, <1>3, <1>4, ReportAbandonStep, ReportRemoveCompetitorStep DEF Rep!Next

-----------------------------------------------------------------------------
PartsIInv == IInv /\ Rep!IInv

(* Whichever part moves keeps its invariant, the other does not move.      *)
LEMMA PartsIInvHolds == SpecPart => []PartsIInv
<1>1. InitPart => PartsIInv
  BY InitIInv, ReportInitIInv DEF InitPart, PartsIInv
<1>2. PartsIInv /\ [NextPart]_<<part, vars, reports>> => PartsIInv'
  <2> SUFFICES ASSUME PartsIInv, [NextPart]_<<part, vars, reports>> PROVE PartsIInv'
    OBVIOUS
  <2>1. [Next]_vars
    BY DEF NextPart
  <2>2. [Rep!Next]_(Rep!vars)
    BY DEF NextPart, reports, Rep!vars
  <2> QED BY <2>1, <2>2, NextIInv, ReportNextIInv DEF PartsIInv
<1> QED BY <1>1, <1>2, PTL DEF SpecPart

(* Facts, claims, reports, their references and reviews, and what requests *)
(* hold of them keep to their values.                                      *)
THEOREM KnowledgeTypeOK == SpecPart => []PartsTypeOK
<1>1. PartsIInv => PartsTypeOK
  BY DEF PartsIInv, IInv, Rep!IInv, PartsTypeOK
<1> QED BY <1>1, PartsIInvHolds, PTL

(* A report is approved only when the rules and the judge have passed it   *)
(* once, and published only when it was approved, however generations,     *)
(* reviews and decisions race (update_report_status, run_quality_gate).    *)
THEOREM PublicationIsReviewed == SpecPart => []PublishedWasReviewed
<1>1. PartsIInv => PublishedWasReviewed
  BY DEF PartsIInv, Rep!IInv, Rep!TypeOK, Rep!RowOK, PublishedWasReviewed, Rep!PublishedWasReviewed,
         Rep!Exists, Rep!BothPassed
<1> QED BY <1>1, PartsIInvHolds, PTL
==================================================================================
