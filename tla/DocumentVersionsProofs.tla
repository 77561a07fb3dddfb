------------------------ MODULE DocumentVersionsProofs ------------------------
(***************************************************************************)
(* Proofs about DocumentVersions for every set of articles, URLs, bodies   *)
(* and workers and any number of crashes.                                  *)
(***************************************************************************)
EXTENDS DocumentVersions, SequenceTheorems, TLAPS

Committing(w) == job[w].pc = "committing"
Building(w) ==
  job[w].pc \in {"saving", "deriving", "marking", "opening", "switching", "failing"}

(* An occurrence always belongs to a cluster.                              *)
RowsAgree == \A u \in Urls : Known(u) <=> clusterOf[u] # None

(* No two commits hold the same advisory lock.                             *)
LocksExclude ==
  \A v, w \in Workers : v # w /\ Committing(v) /\ Committing(w) =>
    BandsOf[BodyOf[job[v].article]] \cap BandsOf[BodyOf[job[w].article]] = {}

(* What a commit found when it looked is still what there is to be found.  *)
LooksStand ==
  \A w \in Workers : Committing(w) =>
    /\ job[w].match # None => Known(job[w].match)
    /\ \A u \in Urls : Known(u) /\ BodyAt(u) = BodyOf[job[w].article] =>
         job[w].match # None /\ clusterOf[job[w].match] = clusterOf[u]

(* A worker's version is under construction, and no other worker's.        *)
BuildsStand ==
  \A w \in Workers : Building(w) =>
    /\ job[w].number \in DOMAIN versions[job[w].doc]
    /\ versions[job[w].doc][job[w].number].status = "building"
    /\ job[w].pc \in {"marking", "opening", "switching"} =>
         versions[job[w].doc][job[w].number].derived

BuildersDiffer ==
  \A v, w \in Workers : v # w /\ Building(v) /\ Building(w) =>
    job[v].doc # job[w].doc \/ job[v].number # job[w].number

ClusterInv == RowsAgree /\ LocksExclude /\ LooksStand /\ SameContentSameCluster
BuildInv   == BuildsStand /\ BuildersDiffer /\ ActiveVersionIsComplete

(* The inductive invariant.  SameContentSameCluster needs that a commit's  *)
(* look is not overtaken, which is what the locks are for; the active      *)
(* version needs that a version is built by one worker only, because       *)
(* activate_version does not ask for the status of what it activates.      *)
IInv == TypeOK /\ ClusterInv /\ BuildInv

-----------------------------------------------------------------------------
(* Sequences of versions *)

LEMMA Rows ==
  ASSUME NEW s \in Seq(Versions)
  PROVE  /\ Len(s) \in Nat
         /\ DOMAIN s = 1..Len(s)
         /\ \A i \in 1..Len(s) : s[i] \in Versions
  OBVIOUS

(* Replacing one row keeps the others.                                     *)
LEMMA Update ==
  ASSUME NEW s \in Seq(Versions), NEW i \in 1..Len(s), NEW v \in Versions
  PROVE  /\ [s EXCEPT ![i] = v] \in Seq(Versions)
         /\ Len([s EXCEPT ![i] = v]) = Len(s)
         /\ \A j \in 1..Len(s) : [s EXCEPT ![i] = v][j] = IF j = i THEN v ELSE s[j]
  BY ExceptSeq

LEMMA Extend ==
  ASSUME NEW s \in Seq(Versions), NEW v \in Versions
  PROVE  /\ Append(s, v) \in Seq(Versions)
         /\ Len(Append(s, v)) = Len(s) + 1
         /\ \A j \in 1..Len(s) : Append(s, v)[j] = s[j]
         /\ Append(s, v)[Len(s) + 1] = v
  OBVIOUS

LEMMA Restatus ==
  ASSUME NEW s \in Seq(Versions), NEW i \in 1..Len(s), NEW x \in VersionStatuses
  PROVE  [s[i] EXCEPT !.status = x] \in Versions
<1>1. s[i] \in Versions
  OBVIOUS
<1> QED
  BY <1>1 DEF Versions

(* The switch supersedes one version and activates another one.            *)
SwitchRows(s, i, n) == [Supersede(s, i) EXCEPT ![n].status = "active"]

LEMMA Switch ==
  ASSUME NEW s \in Seq(Versions), NEW i \in 0..Len(s), NEW n \in 1..Len(s), i # n
  PROVE  /\ SwitchRows(s, i, n) \in Seq(Versions)
         /\ Len(SwitchRows(s, i, n)) = Len(s)
         /\ \A j \in 1..Len(s) :
              SwitchRows(s, i, n)[j] =
                IF j = n THEN [s[n] EXCEPT !.status = "active"]
                ELSE IF j = i THEN [s[i] EXCEPT !.status = "superseded"]
                ELSE s[j]
<1>1. \A j \in 1..Len(s) : /\ [s[j] EXCEPT !.status = "superseded"] \in Versions
                           /\ [s[j] EXCEPT !.status = "active"] \in Versions
  BY Restatus DEF VersionStatuses
<1>2. /\ Supersede(s, i) \in Seq(Versions)
      /\ Len(Supersede(s, i)) = Len(s)
      /\ \A j \in 1..Len(s) :
           Supersede(s, i)[j] = IF j = i THEN [s[i] EXCEPT !.status = "superseded"] ELSE s[j]
  <2>1. CASE i = 0
    BY <2>1 DEF Supersede
  <2>2. CASE i # 0
    <3>1. i \in 1..Len(s)
      BY <2>2
    <3>2. Supersede(s, i) = [s EXCEPT ![i] = [s[i] EXCEPT !.status = "superseded"]]
      BY <2>2 DEF Supersede
    <3> DEFINE v == [s[i] EXCEPT !.status = "superseded"]
    <3>3. v \in Versions
      BY <3>1, <1>1
    <3> HIDE DEF v
    <3>4. /\ [s EXCEPT ![i] = v] \in Seq(Versions)
          /\ Len([s EXCEPT ![i] = v]) = Len(s)
          /\ \A j \in 1..Len(s) : [s EXCEPT ![i] = v][j] = IF j = i THEN v ELSE s[j]
      BY <3>1, <3>3, Update
    <3>5. Supersede(s, i) = [s EXCEPT ![i] = v]
      BY <3>2 DEF v
    <3>6. \A j \in 1..Len(s) : Supersede(s, i)[j] = IF j = i THEN v ELSE s[j]
      BY <3>4, <3>5
    <3> QED
      BY <3>4, <3>5, <3>6 DEF v
  <2> QED
    BY <2>1, <2>2
<1> DEFINE t == Supersede(s, i)
<1> HIDE DEF t
<1>3. t \in Seq(Versions) /\ Len(t) = Len(s) /\ t[n] = s[n]
  BY <1>2 DEF t
<1> DEFINE v == [s[n] EXCEPT !.status = "active"]
<1>4. [t EXCEPT ![n].status = "active"] = [t EXCEPT ![n] = v]
  BY <1>3
<1>5. v \in Versions
  BY <1>1
<1> HIDE DEF v
<1>6. /\ [t EXCEPT ![n] = v] \in Seq(Versions)
      /\ Len([t EXCEPT ![n] = v]) = Len(s)
      /\ \A j \in 1..Len(s) : [t EXCEPT ![n] = v][j] = IF j = n THEN v ELSE t[j]
  BY <1>3, <1>5, Update
<1>7. \A j \in 1..Len(s) :
        t[j] = IF j = i THEN [s[i] EXCEPT !.status = "superseded"] ELSE s[j]
  BY <1>2 DEF t
<1>8. SwitchRows(s, i, n) = [t EXCEPT ![n] = v]
  BY <1>4 DEF t, SwitchRows
<1>9. \A j \in 1..Len(s) : [t EXCEPT ![n] = v][j] =
        IF j = n THEN v ELSE IF j = i THEN [s[i] EXCEPT !.status = "superseded"] ELSE s[j]
  BY <1>6, <1>7
<1> QED
  BY <1>6, <1>8, <1>9 DEF v

-----------------------------------------------------------------------------
(* Types *)

LEMMA JobShapes ==
  ASSUME TypeOK, NEW w \in Workers
  PROVE  /\ Committing(w) =>
              job[w].article \in Articles /\ job[w].match \in Urls \cup {None}
         /\ job[w].pc = "beginning" => job[w].doc \in Documents /\ job[w].body \in Bodies
         /\ Building(w) \/ job[w].pc = "reporting" =>
              job[w].doc \in Documents /\ job[w].number \in Nat
         /\ job[w].pc = "switching" => job[w].saw \in Nat
<1>1. job[w] \in Jobs
  BY DEF TypeOK
<1>2. CASE job[w] = Idle
  BY <1>2 DEF Idle, Committing, Building
<1>3. CASE job[w] \in CommitJobs
  BY <1>3 DEF CommitJobs, Committing, Building
<1>4. CASE job[w] \in BeginJobs
  BY <1>4 DEF BeginJobs, Committing, Building
<1>5. CASE job[w] \in BuildJobs
  BY <1>5 DEF BuildJobs, BuildSteps, Committing, Building
<1>6. CASE job[w] \in SwitchJobs
  BY <1>6 DEF SwitchJobs, Committing, Building
<1> QED
  BY <1>1, <1>2, <1>3, <1>4, <1>5, <1>6 DEF Jobs

(* What a worker may become.                                               *)
LEMMA Becoming ==
  ASSUME TypeOK, NEW w \in Workers, NEW j \in Jobs, Become(w, j)
  PROVE  /\ job' \in [Workers -> Jobs]
         /\ job'[w] = j
         /\ \A v \in Workers \ {w} : job'[v] = job[v]
  BY DEF TypeOK, Become

LEMMA Proceeding ==
  ASSUME TypeOK, NEW w \in Workers, NEW pc \in BuildSteps, Proceed(w, pc),
         Building(w)
  PROVE  /\ job' \in [Workers -> Jobs]
         /\ job'[w] = [pc |-> pc, doc |-> job[w].doc, number |-> job[w].number]
         /\ \A v \in Workers \ {w} : job'[v] = job[v]
<1> DEFINE j == [pc |-> pc, doc |-> job[w].doc, number |-> job[w].number]
<1>1. j \in Jobs
  BY JobShapes DEF Jobs, BuildJobs
<1>2. Become(w, j)
  BY DEF Proceed
<1> HIDE DEF j
<1>3. /\ job' \in [Workers -> Jobs]
      /\ job'[w] = j
      /\ \A v \in Workers \ {w} : job'[v] = job[v]
  BY <1>1, <1>2, Becoming
<1> QED
  BY <1>3 DEF j

LEMMA Beginning ==
  ASSUME TypeOK, NEW w \in Workers, NEW d \in Documents, NEW a \in Articles, Begins(w, d, a)
  PROVE  /\ job' \in [Workers -> Jobs]
         /\ job'[w] = [pc |-> "beginning", doc |-> d, body |-> BodyOf[a]]
         /\ \A v \in Workers \ {w} : job'[v] = job[v]
<1> DEFINE j == [pc |-> "beginning", doc |-> d, body |-> BodyOf[a]]
<1>1. j \in Jobs
  BY DocumentVersionsAssumption DEF Jobs, BeginJobs
<1>2. Become(w, j)
  BY DEF Begins
<1> HIDE DEF j
<1>3. /\ job' \in [Workers -> Jobs]
      /\ job'[w] = j
      /\ \A v \in Workers \ {w} : job'[v] = job[v]
  BY <1>1, <1>2, Becoming
<1> QED
  BY <1>3 DEF j

LEMMA Resting ==
  ASSUME TypeOK, NEW w \in Workers, Become(w, Idle)
  PROVE  /\ job' \in [Workers -> Jobs]
         /\ job'[w] = Idle
         /\ \A v \in Workers \ {w} : job'[v] = job[v]
  BY Becoming DEF Jobs

-----------------------------------------------------------------------------
(* The initial state *)

LEMMA InitInv == Init => IInv
<1> SUFFICES ASSUME Init PROVE IInv
  OBVIOUS
<1>1. TypeOK
  BY DocumentVersionsAssumption DEF Init, TypeOK, Jobs
<1>2. ClusterInv
  BY DEF Init, ClusterInv, RowsAgree, LocksExclude, LooksStand, SameContentSameCluster,
         Known, Committing, Idle
<1>3. BuildInv
  BY DEF Init, BuildInv, BuildsStand, BuildersDiffer, ActiveVersionIsComplete, Building, Idle
<1> QED
  BY <1>1, <1>2, <1>3 DEF IInv

-----------------------------------------------------------------------------
(* Every step keeps the types.  Rows are found through the clusters and    *)
(* builds that are there, so the rest of the invariant is needed.          *)

(* The cluster an occurrence joins exists.                                 *)
LEMMA Joins ==
  ASSUME IInv, NEW w \in Workers, Committing(w), job[w].match # None
  PROVE  /\ Known(job[w].match)
         /\ clusterOf[job[w].match] \in Documents
  BY JobShapes DEF IInv, TypeOK, ClusterInv, RowsAgree, LooksStand

LEMMA CommitTypes ==
  ASSUME IInv, NEW w \in Workers, Ingest(w)
  PROVE  TypeOK'
<1> USE DEF IInv, TypeOK
<1>1. ASSUME NEW a \in queue, FindUrl(w, a)
      PROVE  TypeOK'
  BY <1>1, Resting DEF FindUrl, Take, clusters, builds
<1>2. ASSUME NEW a \in queue, NEW u \in Urls \cup {None}, FindDuplicate(w, a, u)
      PROVE  TypeOK'
  <2> DEFINE j == [pc |-> "committing", article |-> a, match |-> u]
  <2>1. j \in Jobs /\ Become(w, j)
    BY <1>2 DEF Jobs, CommitJobs, FindDuplicate
  <2>2. job' \in [Workers -> Jobs]
    BY <2>1, Becoming
  <2> QED
    BY <1>2, <2>2 DEF FindDuplicate, Take, clusters, builds
<1>3. CASE CommitOccurrence(w)
  <2>1. PICK a \in Articles, u \in Urls, d \in Documents :
          /\ a = job[w].article /\ u = UrlOf[a] /\ d = Joined(w)
    BY <1>3, Joins, JobShapes, DocumentVersionsAssumption
       DEF CommitOccurrence, Committing, Documents, Joined
  <2>2. /\ Begins(w, d, a)
        /\ occurrence' = [occurrence EXCEPT ![u] = a]
        /\ clusterOf' = [clusterOf EXCEPT ![u] = d]
        /\ canonical' = [canonical EXCEPT ![d] = u]
        /\ UNCHANGED <<versions, active, parse, queue, faults>>
    BY <1>3, <2>1 DEF CommitOccurrence, builds
  <2>3. job' \in [Workers -> Jobs]
    BY <2>2, Beginning
  <2> QED
    BY <2>2, <2>3
<1>4. CASE CommitRaises(w) \/ CommitCollides(w)
  BY <1>4, Resting DEF CommitRaises, CommitCollides, clusters, builds
<1> QED
  BY <1>1, <1>2, <1>3, <1>4 DEF Ingest

(* A worker's version of its document.                                     *)
LEMMA OwnVersion ==
  ASSUME IInv, NEW w \in Workers, Building(w)
  PROVE  LET d == job[w].doc   n == job[w].number
         IN  /\ d \in Documents /\ n \in Nat
             /\ versions[d] \in Seq(Versions)
             /\ n \in 1..Len(versions[d])
             /\ versions[d][n].status = "building"
             /\ active[d] \in 0..Len(versions[d])
             /\ active[d] # n
<1> DEFINE d == job[w].doc
           n == job[w].number
<1>1. d \in Documents /\ n \in Nat
  BY JobShapes DEF IInv
<1>2. /\ versions[d] \in Seq(Versions)
      /\ n \in 1..Len(versions[d])
      /\ versions[d][n].status = "building"
  BY <1>1 DEF IInv, TypeOK, BuildInv, BuildsStand
<1>3. /\ active[d] \in Nat
      /\ active[d] # 0 => active[d] \in DOMAIN versions[d] /\ versions[d][active[d]].status = "active"
  BY <1>1 DEF IInv, TypeOK, BuildInv, ActiveVersionIsComplete
<1> HIDE DEF d, n
<1>4. active[d] \in 0..Len(versions[d]) /\ active[d] # n
  BY <1>2, <1>3
<1> QED
  BY <1>1, <1>2, <1>4 DEF d, n

LEMMA BuildTypes ==
  ASSUME IInv, NEW w \in Workers, Build(w)
  PROVE  TypeOK'
<1> USE DEF IInv, TypeOK
<1> DEFINE d == job[w].doc
           n == job[w].number
<1>1. CASE CreateVersion(w)
  <2> DEFINE v == [body |-> job[w].body, status |-> "building", derived |-> FALSE]
             j == [pc |-> "saving", doc |-> d, number |-> Len(versions[d]) + 1]
  <2>1. d \in Documents /\ v \in Versions
    BY <1>1, JobShapes DEF CreateVersion, Versions, VersionStatuses
  <2>2. versions[d] \in Seq(Versions)
    BY <2>1
  <2>3. Append(versions[d], v) \in Seq(Versions) /\ j \in Jobs
    BY <2>1, <2>2 DEF Jobs, BuildJobs, BuildSteps
  <2>4. job' \in [Workers -> Jobs]
    BY <1>1, <2>3, Becoming DEF CreateVersion
  <2>5. versions' = [versions EXCEPT ![d] = Append(versions[d], v)]
    BY <1>1 DEF CreateVersion
  <2> HIDE DEF d, v
  <2> QED
    BY <1>1, <2>1, <2>3, <2>4, <2>5 DEF CreateVersion, clusters
<1>2. CASE SaveDocument(w)
  <2>1. job' \in [Workers -> Jobs]
    BY <1>2, Proceeding DEF SaveDocument, Building, BuildSteps
  <2> QED
    BY <1>2, <2>1 DEF SaveDocument, clusters
<1>3. CASE Derive(w)
  <2>1. job' \in [Workers -> Jobs]
    BY <1>3, Proceeding DEF Derive, Building, BuildSteps
  <2>2. Building(w)
    BY <1>3 DEF Derive, Building
  <2>3. d \in Documents /\ versions[d] \in Seq(Versions) /\ n \in 1..Len(versions[d])
    BY <2>2, OwnVersion
  <2> DEFINE v == [versions[d][n] EXCEPT !.derived = TRUE]
  <2>4. v \in Versions
    <3>1. versions[d][n] \in Versions
      BY <2>3
    <3> QED
      BY <3>1 DEF Versions
  <2>5. versions' = [versions EXCEPT ![d] = [versions[d] EXCEPT ![n] = v]]
    BY <1>3 DEF Derive
  <2> HIDE DEF v, d, n
  <2>6. [versions[d] EXCEPT ![n] = v] \in Seq(Versions)
    BY <2>3, <2>4, Update
  <2> QED
    BY <1>3, <2>1, <2>3, <2>5, <2>6 DEF Derive, clusters
<1>4. CASE MarkVectorized(w)
  <2>1. job' \in [Workers -> Jobs]
    BY <1>4, Proceeding DEF MarkVectorized, Building, BuildSteps
  <2> QED
    BY <1>4, <2>1 DEF MarkVectorized, clusters
<1>5. CASE OpenSwitch(w)
  <2> DEFINE j == [pc |-> "switching", doc |-> d, number |-> n, saw |-> active[d]]
  <2>1. d \in Documents /\ n \in Nat
    BY <1>5, JobShapes DEF OpenSwitch, Building
  <2>2. j \in Jobs
    BY <2>1 DEF Jobs, SwitchJobs
  <2>3. job' \in [Workers -> Jobs]
    BY <1>5, <2>2, Becoming DEF OpenSwitch
  <2> QED
    BY <1>5, <2>3 DEF OpenSwitch, clusters, builds
<1>6. CASE Activate(w)
  <2>1. job' \in [Workers -> Jobs]
    BY <1>6, Resting DEF Activate
  <2>2. Building(w)
    BY <1>6 DEF Activate, Building
  <2>3. /\ d \in Documents /\ versions[d] \in Seq(Versions)
        /\ n \in 1..Len(versions[d]) /\ n \in Nat
        /\ active[d] \in 0..Len(versions[d]) /\ active[d] # n
    BY <2>2, OwnVersion
  <2> DEFINE r == [Supersede(versions[d], active[d]) EXCEPT ![n].status = "active"]
  <2>4. r \in Seq(Versions)
    BY <2>3, Switch DEF SwitchRows
  <2>5. versions' = [versions EXCEPT ![d] = r] /\ active' = [active EXCEPT ![d] = n]
    BY <1>6 DEF Activate
  <2>6. UNCHANGED <<occurrence, clusterOf, canonical, parse, queue, faults>>
    BY <1>6 DEF Activate, clusters
  <2> HIDE DEF r, d, n
  <2>7. versions' \in [Documents -> Seq(Versions)] /\ active' \in [Documents -> Nat]
    BY <2>3, <2>4, <2>5
  <2> QED
    BY <2>1, <2>6, <2>7
<1>7. CASE ActivationCollides(w)
  <2>1. job' \in [Workers -> Jobs]
    BY <1>7, Proceeding DEF ActivationCollides, Building, BuildSteps
  <2> QED
    BY <1>7, <2>1 DEF ActivationCollides, clusters, builds
<1>8. CASE BuildFails(w)
  <2>1. job' \in [Workers -> Jobs]
    BY <1>8, Proceeding DEF BuildFails, Building, BuildSteps
  <2> QED
    BY <1>8, <2>1 DEF BuildFails, clusters, builds
<1>9. CASE FailVersion(w)
  <2>1. job' \in [Workers -> Jobs]
    BY <1>9, Proceeding DEF FailVersion, Building, BuildSteps
  <2>2. Building(w)
    BY <1>9 DEF FailVersion, Building
  <2>3. d \in Documents /\ versions[d] \in Seq(Versions) /\ n \in 1..Len(versions[d])
    BY <2>2, OwnVersion
  <2> DEFINE v == [versions[d][n] EXCEPT !.status = "failed"]
  <2>4. v \in Versions
    BY <2>3, Restatus DEF VersionStatuses
  <2>5. versions' = [versions EXCEPT ![d] = [versions[d] EXCEPT ![n] = v]]
    BY <1>9 DEF FailVersion
  <2> HIDE DEF v, d, n
  <2>6. [versions[d] EXCEPT ![n] = v] \in Seq(Versions)
    BY <2>3, <2>4, Update
  <2> QED
    BY <1>9, <2>1, <2>3, <2>5, <2>6 DEF FailVersion, clusters
<1>10. CASE ReportFailure(w)
  <2>1. job' \in [Workers -> Jobs]
    BY <1>10, Resting DEF ReportFailure
  <2> QED
    BY <1>10, <2>1 DEF ReportFailure, clusters
<1> QED
  BY <1>1, <1>2, <1>3, <1>4, <1>5, <1>6, <1>7, <1>8, <1>9, <1>10 DEF Build

LEMMA StepTypes == IInv /\ [Next]_vars => TypeOK'
<1> SUFFICES ASSUME IInv, [Next]_vars PROVE TypeOK'
  OBVIOUS
<1>1. ASSUME NEW a \in Articles, Send(a) PROVE TypeOK'
  BY <1>1 DEF IInv, TypeOK, Send, clusters, builds
<1>2. ASSUME NEW w \in Workers, Crash(w) PROVE TypeOK'
  <2>1. job' \in [Workers -> Jobs]
    BY <1>2, Resting DEF Crash, IInv
  <2>2. faults' \in 0..MaxFaults
    BY <1>2, DocumentVersionsAssumption DEF Crash, IInv, TypeOK
  <2> QED
    BY <1>2, <2>1, <2>2 DEF IInv, TypeOK, Crash, clusters, builds
<1>3. ASSUME NEW d \in Documents, NEW u \in Urls, SetCanonical(d, u) PROVE TypeOK'
  BY <1>3 DEF IInv, TypeOK, SetCanonical, builds
<1>4. CASE UNCHANGED vars
  BY <1>4 DEF IInv, TypeOK, vars
<1> QED
  BY <1>1, <1>2, <1>3, <1>4, CommitTypes, BuildTypes DEF Next

-----------------------------------------------------------------------------
(* The clusters *)

(* A step that neither stores an occurrence nor opens a commit.            *)
LEMMA ClusterFrame ==
  ASSUME IInv, UNCHANGED <<occurrence, clusterOf>>,
         \A v \in Workers : Committing(v)' => Committing(v) /\ job'[v] = job[v]
  PROVE  ClusterInv'
<1> USE DEF IInv, ClusterInv
<1>1. RowsAgree'
  BY DEF RowsAgree, Known
<1>2. LocksExclude'
  BY DEF LocksExclude
<1>3. LooksStand'
  BY DEF LooksStand, Known, BodyAt
<1>4. SameContentSameCluster'
  BY DEF SameContentSameCluster, Known, BodyAt
<1> QED
  BY <1>1, <1>2, <1>3, <1>4

(* One worker's step, to a job that is no commit.                          *)
LEMMA ClusterFrameOfWorker ==
  ASSUME IInv, UNCHANGED <<occurrence, clusterOf>>, NEW w \in Workers,
         \A v \in Workers \ {w} : job'[v] = job[v],
         job'[w].pc # "committing"
  PROVE  ClusterInv'
  BY ClusterFrame DEF Committing

(* The locks are free, and the look sees every occurrence there is.        *)
LEMMA LookStep ==
  ASSUME IInv, NEW w \in Workers, NEW a \in Articles, NEW u \in Urls \cup {None},
         FindDuplicate(w, a, u)
  PROVE  ClusterInv'
<1> DEFINE j == [pc |-> "committing", article |-> a, match |-> u]
<1> USE DEF IInv, ClusterInv
<1>1. UNCHANGED <<occurrence, clusterOf>>
  BY DEF FindDuplicate, clusters
<1>2. job'[w] = j /\ \A v \in Workers \ {w} : job'[v] = job[v]
  <2>1. j \in Jobs /\ Become(w, j)
    BY DEF Jobs, CommitJobs, FindDuplicate
  <2> HIDE DEF j
  <2> QED
    BY <2>1, Becoming
<1>3. job'[w].article = a /\ job'[w].match = u
  BY <1>2
<1>4. RowsAgree'
  BY <1>1 DEF RowsAgree, Known
<1>5. LocksExclude'
  <2>1. \A v \in Workers : Committing(v) =>
          BandsOf[BodyOf[job[v].article]] \cap BandsOf[BodyOf[a]] = {}
    BY DEF FindDuplicate, Take, LocksFree, Committing
  <2>2. SUFFICES ASSUME NEW v \in Workers, NEW x \in Workers, v # x,
                        Committing(v)', Committing(x)'
                 PROVE  BandsOf[BodyOf[job'[v].article]] \cap BandsOf[BodyOf[job'[x].article]] = {}
    BY DEF LocksExclude
  <2> HIDE DEF j
  <2>3. CASE v = w
    BY <2>1, <2>2, <2>3, <1>2, <1>3 DEF Committing
  <2>4. CASE x = w
    BY <2>1, <2>2, <2>4, <1>2, <1>3 DEF Committing
  <2>5. CASE v # w /\ x # w
    BY <2>2, <2>5, <1>2 DEF Committing, LocksExclude
  <2> QED
    BY <2>3, <2>4, <2>5
<1>6. LooksStand'
  <2>1. \A v \in Urls : Known(v) /\ BodyAt(v) = BodyOf[a] =>
          /\ u # None
          /\ Known(u)
          /\ clusterOf[u] = clusterOf[v]
    <3> SUFFICES ASSUME NEW v \in Urls, Known(v), BodyAt(v) = BodyOf[a]
                 PROVE  u # None /\ Known(u) /\ clusterOf[u] = clusterOf[v]
      OBVIOUS
    <3>1. u \in {x \in Urls : Known(x) /\ BodyAt(x) = BodyOf[a]}
      BY DEF FindDuplicate, Matches
    <3> QED
      BY <3>1, DocumentVersionsAssumption DEF SameContentSameCluster
  <2>2. u # None => Known(u)
    BY DEF FindDuplicate, Matches
  <2>3. \A x \in Workers \ {w} : Committing(x)' => Committing(x) /\ job'[x] = job[x]
    BY <1>2 DEF Committing
  <2> QED
    BY <2>1, <2>2, <2>3, <1>1, <1>3 DEF LooksStand, Known, BodyAt
<1>7. SameContentSameCluster'
  BY <1>1 DEF SameContentSameCluster, Known, BodyAt
<1> QED
  BY <1>4, <1>5, <1>6, <1>7

(* The insert finds what the look found, and no other commit looks for the *)
(* same content: it would hold the same locks.                             *)
LEMMA CommitStep ==
  ASSUME IInv, NEW w \in Workers, CommitOccurrence(w)
  PROVE  ClusterInv'
<1> USE DEF IInv, ClusterInv
<1>1. Committing(w)
  BY DEF CommitOccurrence, Committing
<1>2. PICK a \in Articles, m \in Urls \cup {None} : a = job[w].article /\ m = job[w].match
  BY <1>1, JobShapes
<1>3. PICK u \in Urls, d \in Documents :
        /\ u = UrlOf[a] /\ d = IF m = None THEN a ELSE clusterOf[m]
        /\ a # None /\ d # None
        /\ ~Known(u)
        /\ occurrence' = [occurrence EXCEPT ![u] = a]
        /\ clusterOf' = [clusterOf EXCEPT ![u] = d]
        /\ Begins(w, d, a)
  <2>1. UrlOf[a] \in Urls /\ Joined(w) \in Documents
    BY <1>1, <1>2, Joins, DocumentVersionsAssumption DEF Documents, Joined
  <2>2. None \notin Documents
    BY DocumentVersionsAssumption DEF Documents
  <2>3. Joined(w) = IF m = None THEN a ELSE clusterOf[m]
    BY <1>2 DEF Joined
  <2> QED
    BY <1>2, <2>1, <2>2, <2>3 DEF CommitOccurrence, Documents
<1>4. job'[w].pc # "committing" /\ \A v \in Workers \ {w} : job'[v] = job[v]
  <2>1. /\ job'[w] = [pc |-> "beginning", doc |-> d, body |-> BodyOf[a]]
        /\ \A v \in Workers \ {w} : job'[v] = job[v]
    BY <1>3, Beginning, Zenon
  <2> QED
    BY <2>1
<1>5. /\ m # None => Known(m) /\ m # u
      /\ \A v \in Urls : Known(v) /\ BodyAt(v) = BodyOf[a] => clusterOf[v] = d
  BY <1>1, <1>2, <1>3 DEF LooksStand
<1>6. \A v \in Workers \ {w} : Committing(v) => BodyOf[job[v].article] # BodyOf[a]
  <2> SUFFICES ASSUME NEW v \in Workers \ {w}, Committing(v)
               PROVE  BodyOf[job[v].article] # BodyOf[a]
    OBVIOUS
  <2>1. BandsOf[BodyOf[job[v].article]] \cap BandsOf[BodyOf[a]] = {}
    BY <1>1, <1>2 DEF LocksExclude
  <2>2. BodyOf[a] \in Bodies /\ BandsOf[BodyOf[a]] # {}
    BY <1>2, DocumentVersionsAssumption
  <2> QED
    BY <2>1, <2>2
<1>7. /\ \A v \in Urls \ {u} : occurrence'[v] = occurrence[v] /\ clusterOf'[v] = clusterOf[v]
      /\ occurrence'[u] = a /\ clusterOf'[u] = d
  BY <1>2, <1>3 DEF TypeOK
<1>8. /\ \A v \in Urls \ {u} : (Known(v)' <=> Known(v)) /\ BodyAt(v)' = BodyAt(v)
      /\ Known(u)' /\ BodyAt(u)' = BodyOf[a]
  BY <1>3, <1>7 DEF Known, BodyAt
<1>9. RowsAgree'
  BY <1>3, <1>7, <1>8 DEF RowsAgree
<1>10. \A v \in Workers : Committing(v)' => v # w /\ Committing(v) /\ job'[v] = job[v]
  BY <1>4 DEF Committing
<1>11. LocksExclude'
  BY <1>10 DEF LocksExclude
<1>12. LooksStand'
  <2> SUFFICES ASSUME NEW v \in Workers, v # w, Committing(v), job'[v] = job[v]
               PROVE  /\ job[v].match # None => Known(job[v].match)'
                      /\ \A x \in Urls : Known(x)' /\ BodyAt(x)' = BodyOf[job[v].article] =>
                           /\ job[v].match # None
                           /\ clusterOf'[job[v].match] = clusterOf'[x]
    BY <1>10 DEF LooksStand
  <2>1. job[v].match # None => job[v].match \in Urls \ {u} /\ Known(job[v].match)
    BY <1>3, JobShapes DEF LooksStand
  <2>2. \A x \in Urls : Known(x)' /\ BodyAt(x)' = BodyOf[job[v].article] =>
          x # u /\ Known(x) /\ BodyAt(x) = BodyOf[job[v].article]
    BY <1>6, <1>8
  <2> QED
    BY <2>1, <2>2, <1>7, <1>8 DEF LooksStand
<1>13. SameContentSameCluster'
  BY <1>5, <1>7, <1>8 DEF SameContentSameCluster
<1> QED
  BY <1>9, <1>11, <1>12, <1>13

LEMMA ClusterStep == IInv /\ [Next]_vars => ClusterInv'
<1> SUFFICES ASSUME IInv, [Next]_vars PROVE ClusterInv'
  OBVIOUS
<1> USE DEF IInv
<1>1. ASSUME NEW w \in Workers, Become(w, Idle), UNCHANGED <<occurrence, clusterOf>>
      PROVE  ClusterInv'
  <2>1. job'[w] = Idle /\ \A v \in Workers \ {w} : job'[v] = job[v]
    BY <1>1, Resting
  <2>2. job'[w].pc # "committing"
    BY <2>1 DEF Idle
  <2> QED
    BY <1>1, <2>1, <2>2, ClusterFrameOfWorker
<1>2. ASSUME NEW w \in Workers, NEW a \in queue, FindUrl(w, a)
      PROVE  ClusterInv'
  BY <1>2, <1>1 DEF FindUrl, clusters
<1>3. ASSUME NEW w \in Workers, NEW pc \in BuildSteps, Building(w), Proceed(w, pc),
             UNCHANGED <<occurrence, clusterOf>>
      PROVE  ClusterInv'
  <2>1. /\ job'[w] = [pc |-> pc, doc |-> job[w].doc, number |-> job[w].number]
        /\ \A v \in Workers \ {w} : job'[v] = job[v]
    BY <1>3, Proceeding
  <2>2. job'[w].pc # "committing"
    BY <2>1 DEF BuildSteps
  <2> QED
    BY <1>3, <2>1, <2>2, ClusterFrameOfWorker
<1>4. ASSUME NEW w \in Workers, Ingest(w) PROVE ClusterInv'
  <2>1. CASE CommitRaises(w) \/ CommitCollides(w)
    BY <2>1, <1>1 DEF CommitRaises, CommitCollides, clusters
  <2> QED
    BY <1>2, <1>4, <2>1, LookStep, CommitStep DEF Ingest, TypeOK
<1>5. ASSUME NEW w \in Workers, Build(w) PROVE ClusterInv'
  <2>1. CASE CreateVersion(w)
    <3>1. \A v \in Workers \ {w} : job'[v] = job[v]
      BY <2>1 DEF CreateVersion, Become, TypeOK
    <3>2. job'[w].pc # "committing"
      BY <2>1 DEF CreateVersion, Become, TypeOK
    <3> QED
      BY <2>1, <3>1, <3>2, ClusterFrameOfWorker DEF CreateVersion, clusters
  <2>2. CASE SaveDocument(w)
    BY <2>2, <1>3 DEF SaveDocument, clusters, BuildSteps, Building
  <2>3. CASE Derive(w)
    BY <2>3, <1>3 DEF Derive, clusters, BuildSteps, Building
  <2>4. CASE MarkVectorized(w)
    BY <2>4, <1>3 DEF MarkVectorized, clusters, BuildSteps, Building
  <2>5. CASE OpenSwitch(w)
    <3>1. \A v \in Workers \ {w} : job'[v] = job[v]
      BY <2>5 DEF OpenSwitch, Become, TypeOK
    <3>2. job'[w].pc # "committing"
      BY <2>5 DEF OpenSwitch, Become, TypeOK
    <3> QED
      BY <2>5, <3>1, <3>2, ClusterFrameOfWorker DEF OpenSwitch, clusters
  <2>6. CASE Activate(w)
    BY <2>6, <1>1 DEF Activate, clusters
  <2>7. CASE ActivationCollides(w)
    BY <2>7, <1>3 DEF ActivationCollides, clusters, BuildSteps, Building
  <2>8. CASE BuildFails(w)
    BY <2>8, <1>3 DEF BuildFails, clusters, BuildSteps, Building
  <2>9. CASE FailVersion(w)
    BY <2>9, <1>3 DEF FailVersion, clusters, BuildSteps, Building
  <2>10. CASE ReportFailure(w)
    BY <2>10, <1>1 DEF ReportFailure, clusters
  <2> QED
    BY <1>5, <2>1, <2>2, <2>3, <2>4, <2>5, <2>6, <2>7, <2>8, <2>9, <2>10 DEF Build
<1>6. ASSUME NEW w \in Workers, Crash(w) PROVE ClusterInv'
  BY <1>6, <1>1 DEF Crash, clusters
<1>7. CASE UNCHANGED <<occurrence, clusterOf, job>>
  BY <1>7, ClusterFrame DEF Committing
<1> QED
  BY <1>4, <1>5, <1>6, <1>7 DEF Next, Send, SetCanonical, vars, clusters

-----------------------------------------------------------------------------
(* The builds *)

Deriving == {"marking", "opening", "switching"}

(* A step that changes no version and starts no build.                     *)
LEMMA BuildFrame ==
  ASSUME IInv, UNCHANGED <<versions, active>>,
         \A v \in Workers : Building(v)' =>
           /\ Building(v)
           /\ job'[v].doc = job[v].doc /\ job'[v].number = job[v].number
           /\ job'[v].pc \in Deriving => job[v].pc \in Deriving
  PROVE  BuildInv'
<1> USE DEF IInv, BuildInv, Deriving
<1>1. BuildsStand'
  BY DEF BuildsStand
<1>2. BuildersDiffer'
  BY DEF BuildersDiffer
<1>3. ActiveVersionIsComplete'
  BY DEF ActiveVersionIsComplete
<1> QED
  BY <1>1, <1>2, <1>3

LEMMA BuildFrameOfWorker ==
  ASSUME IInv, UNCHANGED <<versions, active>>, NEW w \in Workers,
         \A v \in Workers \ {w} : job'[v] = job[v],
         Building(w)' =>
           /\ Building(w)
           /\ job'[w].doc = job[w].doc /\ job'[w].number = job[w].number
           /\ job'[w].pc \in Deriving => job[w].pc \in Deriving
  PROVE  BuildInv'
<1>1. \A v \in Workers : Building(v)' =>
        /\ Building(v)
        /\ job'[v].doc = job[v].doc /\ job'[v].number = job[v].number
        /\ job'[v].pc \in Deriving => job[v].pc \in Deriving
  BY DEF Building
<1> QED
  BY <1>1, BuildFrame

(* A worker's step that writes the row of its own version.                 *)
LEMMA OwnRowStep ==
  ASSUME IInv, NEW w \in Workers, Building(w),
         NEW d \in Documents, NEW n \in Nat, d = job[w].doc, n = job[w].number,
         NEW x \in Versions, x.status # "active",
         versions' = [versions EXCEPT ![d] = [versions[d] EXCEPT ![n] = x]],
         UNCHANGED active,
         \A v \in Workers \ {w} : job'[v] = job[v],
         Building(w)' =>
           /\ job'[w].doc = d /\ job'[w].number = n
           /\ x.status = "building"
           /\ job'[w].pc \in Deriving => x.derived
  PROVE  BuildInv'
<1> USE DEF IInv, BuildInv
<1>1. /\ versions[d] \in Seq(Versions) /\ n \in 1..Len(versions[d])
      /\ versions[d][n].status = "building" /\ active[d] # n
  BY OwnVersion
<1>2. /\ \A e \in Documents \ {d} : versions'[e] = versions[e]
      /\ versions'[d] = [versions[d] EXCEPT ![n] = x]
  BY DEF TypeOK
<1>3. /\ DOMAIN versions'[d] = DOMAIN versions[d]
      /\ versions'[d][n] = x
      /\ \A i \in DOMAIN versions[d] \ {n} : versions'[d][i] = versions[d][i]
  BY <1>1, <1>2
<1>4. BuildsStand'
  <2> SUFFICES ASSUME NEW v \in Workers, Building(v)'
               PROVE  /\ job'[v].number \in DOMAIN versions'[job'[v].doc]
                      /\ versions'[job'[v].doc][job'[v].number].status = "building"
                      /\ job'[v].pc \in {"marking", "opening", "switching"} =>
                           versions'[job'[v].doc][job'[v].number].derived
    BY DEF BuildsStand
  <2>1. CASE v = w
    BY <2>1, <1>1, <1>3 DEF Deriving
  <2>2. CASE v # w
    <3>1. Building(v) /\ job'[v] = job[v]
      BY <2>2 DEF Building
    <3>2. job[v].doc # d \/ job[v].number # n
      BY <2>2, <3>1 DEF BuildersDiffer
    <3>3. job[v].doc \in Documents
      BY <3>1, OwnVersion
    <3> QED
      BY <3>1, <3>2, <3>3, <1>2, <1>3 DEF BuildsStand
  <2> QED
    BY <2>1, <2>2
<1>5. BuildersDiffer'
  <2>1. \A v \in Workers : Building(v)' =>
          /\ Building(v)
          /\ job'[v].doc = job[v].doc /\ job'[v].number = job[v].number
    BY DEF Building
  <2> QED
    BY <2>1 DEF BuildersDiffer
<1>6. ActiveVersionIsComplete'
  <2>1. \A i \in DOMAIN versions'[d] : versions'[d][i].status = "active" <=> i = active[d]
    BY <1>1, <1>3 DEF ActiveVersionIsComplete
  <2>2. active[d] # 0 => active[d] \in DOMAIN versions'[d] /\ versions'[d][active[d]].derived
    BY <1>1, <1>3 DEF ActiveVersionIsComplete
  <2>3. \A e \in Documents \ {d} :
          /\ \A i \in DOMAIN versions'[e] : versions'[e][i].status = "active" <=> i = active[e]
          /\ active[e] # 0 => active[e] \in DOMAIN versions'[e] /\ versions'[e][active[e]].derived
    BY <1>2 DEF ActiveVersionIsComplete
  <2> QED
    BY <2>1, <2>2, <2>3 DEF ActiveVersionIsComplete
<1> QED
  BY <1>4, <1>5, <1>6

LEMMA CreateStep ==
  ASSUME IInv, NEW w \in Workers, CreateVersion(w)
  PROVE  BuildInv'
<1> USE DEF IInv, BuildInv
<1>1. PICK d \in Documents, b \in Bodies : d = job[w].doc /\ b = job[w].body
  BY JobShapes DEF CreateVersion
<1>2. PICK k \in Nat : k = Len(versions[d]) /\ versions[d] \in Seq(Versions)
  BY <1>1 DEF TypeOK
<1> DEFINE x == [body |-> b, status |-> "building", derived |-> FALSE]
<1>3. x \in Versions /\ x.status = "building"
  BY <1>1 DEF Versions, VersionStatuses
<1>4. /\ versions' = [versions EXCEPT ![d] = Append(versions[d], x)]
      /\ UNCHANGED active
      /\ Become(w, [pc |-> "saving", doc |-> d, number |-> k + 1])
  BY <1>1, <1>2 DEF CreateVersion
<1> HIDE DEF x
<1>5. /\ \A e \in Documents \ {d} : versions'[e] = versions[e]
      /\ versions'[d] = Append(versions[d], x)
  BY <1>4 DEF TypeOK
<1>6. /\ DOMAIN versions'[d] = 1..k + 1
      /\ DOMAIN versions[d] = 1..k
      /\ versions'[d][k + 1] = x
      /\ \A i \in 1..k : versions'[d][i] = versions[d][i]
  BY <1>2, <1>3, <1>5, Extend, Rows
<1>7. /\ job'[w] = [pc |-> "saving", doc |-> d, number |-> k + 1]
      /\ \A v \in Workers \ {w} : job'[v] = job[v]
  BY <1>4 DEF Become, TypeOK
<1>8. job'[w].pc = "saving" /\ job'[w].doc = d /\ job'[w].number = k + 1
  BY <1>7
<1>9. \A v \in Workers \ {w} : Building(v)' =>
        /\ Building(v) /\ job'[v] = job[v]
        /\ job[v].doc \in Documents
        /\ job[v].number \in DOMAIN versions[job[v].doc]
        /\ job[v].doc = d => job[v].number # k + 1
  <2> SUFFICES ASSUME NEW v \in Workers \ {w}, Building(v)'
               PROVE  /\ Building(v) /\ job'[v] = job[v]
                      /\ job[v].doc \in Documents
                      /\ job[v].number \in DOMAIN versions[job[v].doc]
                      /\ job[v].doc = d => job[v].number # k + 1
    OBVIOUS
  <2>1. Building(v) /\ job'[v] = job[v]
    BY <1>7 DEF Building
  <2>2. job[v].doc \in Documents /\ job[v].number \in DOMAIN versions[job[v].doc]
    BY <2>1, OwnVersion DEF BuildsStand
  <2> QED
    BY <2>1, <2>2, <1>2, <1>6
<1>10. BuildsStand'
  <2> SUFFICES ASSUME NEW v \in Workers, Building(v)'
               PROVE  /\ job'[v].number \in DOMAIN versions'[job'[v].doc]
                      /\ versions'[job'[v].doc][job'[v].number].status = "building"
                      /\ job'[v].pc \in {"marking", "opening", "switching"} =>
                           versions'[job'[v].doc][job'[v].number].derived
    BY DEF BuildsStand
  <2>1. CASE v = w
    <3>1. job'[v].doc = d /\ job'[v].number = k + 1 /\ job'[v].pc = "saving"
      BY <2>1, <1>8
    <3>2. k + 1 \in DOMAIN versions'[d] /\ versions'[d][k + 1].status = "building"
      BY <1>3, <1>6
    <3> QED
      BY <3>1, <3>2
  <2>2. CASE v # w
    <3>1. Building(v) /\ job'[v] = job[v]
      BY <2>2, <1>9
    <3>2. PICK e, i : /\ e \in Documents /\ e = job[v].doc
                     /\ i = job[v].number /\ i \in DOMAIN versions[e]
      BY <2>2, <1>9
    <3>3. /\ versions[e][i].status = "building"
          /\ job[v].pc \in {"marking", "opening", "switching"} => versions[e][i].derived
      BY <3>1, <3>2 DEF BuildsStand
    <3>4. i \in DOMAIN versions'[e] /\ versions'[e][i] = versions[e][i]
      BY <3>2, <1>2, <1>5, <1>6
    <3> QED
      BY <3>1, <3>2, <3>3, <3>4
  <2> QED
    BY <2>1, <2>2
<1>11. BuildersDiffer'
  BY <1>8, <1>9 DEF BuildersDiffer
<1>12. ActiveVersionIsComplete'
  <2>1. active[d] # k + 1
    BY <1>2, <1>6 DEF ActiveVersionIsComplete
  <2>2. \A i \in DOMAIN versions'[d] : versions'[d][i].status = "active" <=> i = active[d]
    BY <2>1, <1>2, <1>3, <1>6 DEF ActiveVersionIsComplete
  <2>3. active[d] # 0 => active[d] \in DOMAIN versions'[d] /\ versions'[d][active[d]].derived
    BY <1>2, <1>6 DEF ActiveVersionIsComplete
  <2>4. \A e \in Documents \ {d} :
          /\ \A i \in DOMAIN versions'[e] : versions'[e][i].status = "active" <=> i = active[e]
          /\ active[e] # 0 => active[e] \in DOMAIN versions'[e] /\ versions'[e][active[e]].derived
    BY <1>5 DEF ActiveVersionIsComplete
  <2> QED
    BY <2>2, <2>3, <2>4, <1>4 DEF ActiveVersionIsComplete
<1> QED
  BY <1>10, <1>11, <1>12

(* What a switch does to the rows of the document.                         *)
LEMMA Switched ==
  ASSUME IInv, NEW w \in Workers, Activate(w),
         NEW d \in Documents, NEW n \in Nat, d = job[w].doc, n = job[w].number
  PROVE  /\ active' = [active EXCEPT ![d] = n]
         /\ n \in DOMAIN versions[d]
         /\ versions[d][n].status = "building" /\ versions[d][n].derived
         /\ \A e \in Documents \ {d} : versions'[e] = versions[e]
         /\ DOMAIN versions'[d] = DOMAIN versions[d]
         /\ versions'[d][n].derived
         /\ \A i \in DOMAIN versions'[d] : versions'[d][i].status = "active" <=> i = n
         /\ \A i \in DOMAIN versions[d] :
              versions[d][i].status = "building" /\ i # n => versions'[d][i] = versions[d][i]
<1> USE DEF IInv, BuildInv
<1>1. /\ versions[d] \in Seq(Versions)
      /\ n \in 1..Len(versions[d])
      /\ versions[d][n].status = "building"
      /\ active[d] \in 0..Len(versions[d])
      /\ active[d] # n
  BY OwnVersion DEF Activate, Building
<1>2. versions[d][n].derived
  BY DEF Activate, BuildsStand, Building
<1>3. PICK r : r = [Supersede(versions[d], active[d]) EXCEPT ![n].status = "active"]
  OBVIOUS
<1>4. /\ r \in Seq(Versions)
      /\ Len(r) = Len(versions[d])
      /\ \A j \in 1..Len(versions[d]) :
           r[j] = IF j = n THEN [versions[d][n] EXCEPT !.status = "active"]
                  ELSE IF j = active[d] THEN [versions[d][active[d]] EXCEPT !.status = "superseded"]
                  ELSE versions[d][j]
  <2> DEFINE s == versions[d]
             i == active[d]
  <2>1. s \in Seq(Versions) /\ i \in 0..Len(s) /\ n \in 1..Len(s) /\ i # n
    BY <1>1
  <2>2. r = SwitchRows(s, i, n)
    BY <1>3 DEF SwitchRows
  <2> HIDE DEF s, i
  <2>3. /\ r \in Seq(Versions)
        /\ Len(r) = Len(s)
        /\ \A j \in 1..Len(s) :
             r[j] = IF j = n THEN [s[n] EXCEPT !.status = "active"]
                    ELSE IF j = i THEN [s[i] EXCEPT !.status = "superseded"]
                    ELSE s[j]
    BY <2>1, <2>2, Switch
  <2> QED
    BY <2>3 DEF s, i
<1>5. versions' = [versions EXCEPT ![d] = r] /\ active' = [active EXCEPT ![d] = n]
  BY <1>3 DEF Activate
<1>6. (\A e \in Documents \ {d} : versions'[e] = versions[e]) /\ versions'[d] = r
  BY <1>5 DEF TypeOK
<1>7. DOMAIN versions[d] = 1..Len(versions[d]) /\ DOMAIN r = 1..Len(versions[d])
  BY <1>1, <1>4
<1>8. \A i \in 1..Len(versions[d]) : versions[d][i] \in Versions
  BY <1>1
<1>9. r[n].status = "active" /\ r[n].derived
  BY <1>1, <1>2, <1>4, <1>8 DEF Versions
<1>10. \A i \in 1..Len(versions[d]) : i # n => r[i].status # "active"
  BY <1>1, <1>4, <1>7, <1>8 DEF Versions, ActiveVersionIsComplete
<1>11. \A i \in DOMAIN versions[d] :
         versions[d][i].status = "building" /\ i # n => r[i] = versions[d][i]
  <2> SUFFICES ASSUME NEW i \in DOMAIN versions[d], versions[d][i].status = "building", i # n
               PROVE  r[i] = versions[d][i]
    OBVIOUS
  <2>1. i # active[d]
    BY DEF ActiveVersionIsComplete
  <2> QED
    BY <2>1, <1>4, <1>7
<1> QED
  BY <1>1, <1>2, <1>5, <1>6, <1>7, <1>9, <1>10, <1>11

LEMMA ActivateStep ==
  ASSUME IInv, NEW w \in Workers, Activate(w)
  PROVE  BuildInv'
<1> USE DEF IInv, BuildInv
<1>1. PICK d \in Documents, n \in Nat : d = job[w].doc /\ n = job[w].number
  BY OwnVersion DEF Activate, Building
<1>2. /\ active' = [active EXCEPT ![d] = n]
      /\ n \in DOMAIN versions[d]
      /\ \A e \in Documents \ {d} : versions'[e] = versions[e]
      /\ DOMAIN versions'[d] = DOMAIN versions[d]
      /\ versions'[d][n].derived
      /\ \A i \in DOMAIN versions'[d] : versions'[d][i].status = "active" <=> i = n
      /\ \A i \in DOMAIN versions[d] :
           versions[d][i].status = "building" /\ i # n => versions'[d][i] = versions[d][i]
  BY <1>1, Switched
<1>3. job'[w] = Idle /\ \A v \in Workers \ {w} : job'[v] = job[v]
  BY Resting DEF Activate
<1>4. \A v \in Workers : Building(v)' =>
        /\ v # w /\ Building(v) /\ job'[v] = job[v]
        /\ job[v].doc \in Documents
        /\ job[v].doc # d \/ job[v].number # n
  <2> SUFFICES ASSUME NEW v \in Workers, Building(v)'
               PROVE  /\ v # w /\ Building(v) /\ job'[v] = job[v]
                      /\ job[v].doc \in Documents
                      /\ job[v].doc # d \/ job[v].number # n
    OBVIOUS
  <2>1. v # w
    BY <1>3 DEF Building, Idle
  <2>2. Building(v) /\ job'[v] = job[v]
    BY <2>1, <1>3 DEF Building
  <2>3. Building(w)
    BY DEF Activate, Building
  <2> QED
    BY <2>1, <2>2, <2>3, <1>1, OwnVersion DEF BuildersDiffer
<1>5. BuildsStand'
  <2> SUFFICES ASSUME NEW v \in Workers, Building(v), job'[v] = job[v],
                      job[v].doc \in Documents, job[v].doc # d \/ job[v].number # n
               PROVE  /\ job[v].number \in DOMAIN versions'[job[v].doc]
                      /\ versions'[job[v].doc][job[v].number] = versions[job[v].doc][job[v].number]
    BY <1>4 DEF BuildsStand
  <2>1. /\ job[v].number \in DOMAIN versions[job[v].doc]
        /\ versions[job[v].doc][job[v].number].status = "building"
    BY DEF BuildsStand
  <2> QED
    BY <2>1, <1>2
<1>6. BuildersDiffer'
  BY <1>4 DEF BuildersDiffer
<1>7. ActiveVersionIsComplete'
  <2>1. active'[d] = n /\ \A e \in Documents \ {d} : active'[e] = active[e]
    BY <1>2 DEF TypeOK
  <2>2. \A e \in Documents \ {d} :
          /\ \A i \in DOMAIN versions'[e] : versions'[e][i].status = "active" <=> i = active'[e]
          /\ active'[e] # 0 => active'[e] \in DOMAIN versions'[e] /\ versions'[e][active'[e]].derived
    BY <2>1, <1>2 DEF ActiveVersionIsComplete
  <2> QED
    BY <2>1, <2>2, <1>2 DEF ActiveVersionIsComplete
<1> QED
  BY <1>5, <1>6, <1>7

LEMMA DeriveStep ==
  ASSUME IInv, NEW w \in Workers, Derive(w)
  PROVE  BuildInv'
<1>1. Building(w) /\ job[w].pc = "deriving"
  BY DEF Derive, Building
<1>2. PICK d \in Documents, n \in Nat : d = job[w].doc /\ n = job[w].number
  BY <1>1, OwnVersion
<1>3. /\ versions[d] \in Seq(Versions) /\ n \in 1..Len(versions[d])
      /\ versions[d][n].status = "building"
  BY <1>1, <1>2, OwnVersion
<1>4. PICK x \in Versions : x = [versions[d][n] EXCEPT !.derived = TRUE]
  <2>1. versions[d][n] \in Versions
    BY <1>3
  <2> QED
    BY <2>1 DEF Versions
<1>5. x.status = "building" /\ x.derived
  <2>1. versions[d][n] \in Versions
    BY <1>3
  <2> QED
    BY <2>1, <1>3, <1>4 DEF Versions
<1>6. versions' = [versions EXCEPT ![d] = [versions[d] EXCEPT ![n] = x]] /\ UNCHANGED active
  BY <1>2, <1>4 DEF Derive
<1>7. /\ job'[w] = [pc |-> "marking", doc |-> d, number |-> n]
      /\ \A v \in Workers \ {w} : job'[v] = job[v]
  BY <1>1, <1>2, Proceeding DEF Derive, IInv, BuildSteps
<1>8. job'[w].doc = d /\ job'[w].number = n
  BY <1>7
<1> QED
  BY <1>1, <1>2, <1>5, <1>6, <1>7, <1>8, OwnRowStep

LEMMA FailStep ==
  ASSUME IInv, NEW w \in Workers, FailVersion(w)
  PROVE  BuildInv'
<1>1. Building(w) /\ job[w].pc = "failing"
  BY DEF FailVersion, Building
<1>2. PICK d \in Documents, n \in Nat : d = job[w].doc /\ n = job[w].number
  BY <1>1, OwnVersion
<1>3. versions[d] \in Seq(Versions) /\ n \in 1..Len(versions[d])
  BY <1>1, <1>2, OwnVersion
<1>4. PICK x \in Versions : x = [versions[d][n] EXCEPT !.status = "failed"]
  BY <1>3, Restatus DEF VersionStatuses
<1>5. x.status = "failed"
  <2>1. versions[d][n] \in Versions
    BY <1>3
  <2> QED
    BY <2>1, <1>4 DEF Versions
<1>6. versions' = [versions EXCEPT ![d] = [versions[d] EXCEPT ![n] = x]] /\ UNCHANGED active
  BY <1>2, <1>4 DEF FailVersion
<1>7. /\ job'[w] = [pc |-> "reporting", doc |-> d, number |-> n]
      /\ \A v \in Workers \ {w} : job'[v] = job[v]
  BY <1>1, <1>2, Proceeding DEF FailVersion, IInv, BuildSteps
<1>8. job'[w].pc = "reporting"
  BY <1>7
<1>9. ~Building(w)'
  BY <1>8 DEF Building
<1> QED
  BY <1>1, <1>2, <1>5, <1>6, <1>7, <1>9, OwnRowStep

(* Every other step of a worker.                                           *)
LEMMA OtherBuildStep ==
  ASSUME IInv, NEW w \in Workers,
         \/ SaveDocument(w) \/ MarkVectorized(w) \/ OpenSwitch(w)
         \/ ActivationCollides(w) \/ BuildFails(w) \/ ReportFailure(w)
  PROVE  BuildInv'
<1> USE DEF IInv
<1>1. ASSUME NEW pc \in BuildSteps, Proceed(w, pc), Building(w), UNCHANGED <<versions, active>>,
             pc \in Deriving => job[w].pc \in Deriving
      PROVE  BuildInv'
  <2>1. /\ job'[w] = [pc |-> pc, doc |-> job[w].doc, number |-> job[w].number]
        /\ \A v \in Workers \ {w} : job'[v] = job[v]
    BY <1>1, Proceeding
  <2>2. job'[w].pc = pc /\ job'[w].doc = job[w].doc /\ job'[w].number = job[w].number
    BY <2>1
  <2> QED
    BY <1>1, <2>1, <2>2, BuildFrameOfWorker
<1>2. CASE SaveDocument(w)
  BY <1>2, <1>1 DEF SaveDocument, BuildSteps, Building, Deriving
<1>3. CASE MarkVectorized(w)
  BY <1>3, <1>1 DEF MarkVectorized, BuildSteps, Building, Deriving
<1>4. CASE OpenSwitch(w)
  <2>1. /\ job'[w] = [pc |-> "switching", doc |-> job[w].doc, number |-> job[w].number,
                      saw |-> active[job[w].doc]]
        /\ \A v \in Workers \ {w} : job'[v] = job[v]
    BY <1>4 DEF OpenSwitch, Become, TypeOK
  <2>2. job'[w].doc = job[w].doc /\ job'[w].number = job[w].number
    BY <2>1
  <2>3. Building(w) /\ job[w].pc \in Deriving /\ UNCHANGED <<versions, active>>
    BY <1>4 DEF OpenSwitch, Building, Deriving, builds
  <2> QED
    BY <2>1, <2>2, <2>3, BuildFrameOfWorker
<1>5. CASE ActivationCollides(w)
  BY <1>5, <1>1 DEF ActivationCollides, BuildSteps, Building, Deriving, builds
<1>6. CASE BuildFails(w)
  BY <1>6, <1>1 DEF BuildFails, BuildSteps, Building, Deriving, builds
<1>7. CASE ReportFailure(w)
  <2>1. job'[w] = Idle /\ \A v \in Workers \ {w} : job'[v] = job[v]
    BY <1>7, Resting DEF ReportFailure
  <2>2. ~Building(w)'
    BY <2>1 DEF Building, Idle
  <2> QED
    BY <1>7, <2>1, <2>2, BuildFrameOfWorker DEF ReportFailure
<1> QED
  BY <1>2, <1>3, <1>4, <1>5, <1>6, <1>7

(* Steps of the commit, and crashes, begin no version.                     *)
LEMMA NoBuildStep ==
  ASSUME IInv, NEW w \in Workers, Ingest(w) \/ Crash(w)
  PROVE  BuildInv'
<1> USE DEF IInv, TypeOK
<1>1. ASSUME NEW j, Become(w, j), UNCHANGED <<versions, active>>,
             j.pc \in {"idle", "committing", "beginning"}
      PROVE  BuildInv'
  <2>1. job'[w] = j /\ \A v \in Workers \ {w} : job'[v] = job[v]
    BY <1>1 DEF Become
  <2>2. ~Building(w)'
    BY <1>1, <2>1 DEF Building
  <2> QED
    BY <1>1, <2>1, <2>2, BuildFrameOfWorker
<1>2. ASSUME NEW d, NEW a, Begins(w, d, a), UNCHANGED <<versions, active>>
      PROVE  BuildInv'
  <2> DEFINE j == [pc |-> "beginning", doc |-> d, body |-> BodyOf[a]]
  <2>1. Become(w, j) /\ j.pc = "beginning"
    BY <1>2 DEF Begins
  <2> HIDE DEF j
  <2> QED
    BY <1>1, <1>2, <2>1
<1>3. ASSUME Become(w, Idle), UNCHANGED <<versions, active>>
      PROVE  BuildInv'
  BY <1>1, <1>3 DEF Idle
<1>4. ASSUME NEW a \in queue, FindUrl(w, a)
      PROVE  BuildInv'
  BY <1>4, <1>3 DEF FindUrl, builds
<1>5. ASSUME NEW a \in queue, NEW u \in Urls \cup {None}, FindDuplicate(w, a, u)
      PROVE  BuildInv'
  <2> DEFINE j == [pc |-> "committing", article |-> a, match |-> u]
  <2>1. Become(w, j) /\ j.pc = "committing" /\ UNCHANGED <<versions, active>>
    BY <1>5 DEF FindDuplicate, builds
  <2> HIDE DEF j
  <2> QED
    BY <1>1, <2>1
<1>6. CASE CommitOccurrence(w)
  <2>1. PICK d, a : Begins(w, d, a)
    BY <1>6 DEF CommitOccurrence
  <2> QED
    BY <1>6, <2>1, <1>2 DEF CommitOccurrence, builds
<1>7. CASE CommitRaises(w) \/ CommitCollides(w) \/ Crash(w)
  BY <1>7, <1>3 DEF CommitRaises, CommitCollides, Crash, builds
<1> QED
  BY <1>4, <1>5, <1>6, <1>7 DEF Ingest

LEMMA BuildStep == IInv /\ [Next]_vars => BuildInv'
<1> SUFFICES ASSUME IInv, [Next]_vars PROVE BuildInv'
  OBVIOUS
<1>1. ASSUME NEW w \in Workers, Build(w) PROVE BuildInv'
  BY <1>1, CreateStep, DeriveStep, ActivateStep, FailStep, OtherBuildStep DEF Build
<1>2. CASE UNCHANGED <<versions, active, job>>
  BY <1>2, BuildFrame DEF Building
<1> QED
  BY <1>1, <1>2, NoBuildStep DEF Next, Send, SetCanonical, vars, builds

-----------------------------------------------------------------------------
(* The theorems *)

LEMMA StepInv == IInv /\ [Next]_vars => IInv'
  BY StepTypes, ClusterStep, BuildStep DEF IInv

LEMMA Invariance == Spec => []IInv
<1>1. Init => IInv
  BY InitInv
<1>2. IInv /\ [Next]_vars => IInv'
  BY StepInv
<1> QED
  BY <1>1, <1>2, PTL DEF Spec

(* The tables and the workers keep their types, for any number of          *)
(* articles, workers, builds and crashes.                                  *)
THEOREM TypeCorrect == Spec => []TypeOK
<1>1. IInv => TypeOK
  BY DEF IInv
<1> QED
  BY <1>1, Invariance, PTL

(* Equal content is in one cluster, whoever commits it and when.           *)
THEOREM SameContent == Spec => []SameContentSameCluster
<1>1. IInv => SameContentSameCluster
  BY DEF IInv, ClusterInv
<1> QED
  BY <1>1, Invariance, PTL

(* The one version with status active is the one the cluster points to,    *)
(* and it is complete.                                                     *)
THEOREM ActiveComplete == Spec => []ActiveVersionIsComplete
<1>1. IInv => ActiveVersionIsComplete
  BY DEF IInv, BuildInv
<1> QED
  BY <1>1, Invariance, PTL

-----------------------------------------------------------------------------
(* A document that is served stays served.                                 *)

HandsOver ==
  \A d \in Documents : Served(d) # {} =>
    /\ Served(d)' # {}
    /\ \A i \in Served(d)' \ Served(d) : versions[d][i].status = "building"

(* A row of another status is written, or a row is added.                  *)
LEMMA ServedFrame ==
  ASSUME IInv, NEW d \in Documents,
         /\ DOMAIN versions[d] \subseteq DOMAIN versions'[d]
         /\ \A i \in DOMAIN versions[d] :
              versions'[d][i].status = "active" <=> versions[d][i].status = "active"
         /\ \A i \in DOMAIN versions'[d] \ DOMAIN versions[d] : versions'[d][i].status # "active"
  PROVE  Served(d)' = Served(d)
  BY DEF Served

LEMMA RowServed ==
  ASSUME IInv, NEW w \in Workers, Building(w), NEW d \in Documents, NEW e \in Documents,
         NEW n \in Nat, d = job[w].doc, n = job[w].number,
         NEW x \in Versions, x.status # "active",
         versions' = [versions EXCEPT ![d] = [versions[d] EXCEPT ![n] = x]]
  PROVE  Served(e)' = Served(e)
<1>1. /\ versions[d] \in Seq(Versions) /\ n \in 1..Len(versions[d])
      /\ versions[d][n].status = "building"
  BY OwnVersion
<1>2. /\ DOMAIN versions'[e] = DOMAIN versions[e]
      /\ \A i \in DOMAIN versions[e] :
           versions'[e][i].status = "active" <=> versions[e][i].status = "active"
  BY <1>1 DEF IInv, TypeOK
<1> QED
  BY <1>2, ServedFrame

LEMMA HandOver == IInv /\ [Next]_vars => [HandsOver]_vars
<1> SUFFICES ASSUME IInv, [Next]_vars, NEW d \in Documents, Served(d) # {}
             PROVE  /\ Served(d)' # {}
                    /\ \A i \in Served(d)' \ Served(d) : versions[d][i].status = "building"
  BY DEF HandsOver
<1>1. SUFFICES Served(d)' = Served(d) \/ \E w \in Workers : Activate(w) /\ job[w].doc = d
  <2>1. ASSUME NEW w \in Workers, Activate(w), job[w].doc = d
        PROVE  /\ Served(d)' # {}
               /\ \A i \in Served(d)' : versions[d][i].status = "building"
    <3>1. PICK n \in Nat : n = job[w].number
      BY <2>1, OwnVersion DEF Activate, Building
    <3>2. /\ n \in DOMAIN versions[d] /\ versions[d][n].status = "building"
          /\ DOMAIN versions'[d] = DOMAIN versions[d]
          /\ \A i \in DOMAIN versions'[d] : versions'[d][i].status = "active" <=> i = n
      BY <2>1, <3>1, Switched
    <3>3. Served(d)' = {n}
      BY <3>2 DEF Served
    <3> QED
      BY <3>2, <3>3
  <2> QED
    BY <2>1
<1>2. CASE UNCHANGED versions
  BY <1>2 DEF Served
<1>3. ASSUME NEW w \in Workers, CreateVersion(w) PROVE Served(d)' = Served(d)
  <2>1. PICK e \in Documents, b \in Bodies : e = job[w].doc /\ b = job[w].body
    BY <1>3, JobShapes DEF CreateVersion, IInv
  <2>2. PICK x \in Versions : x = [body |-> b, status |-> "building", derived |-> FALSE]
    BY DEF Versions, VersionStatuses
  <2>3. versions' = [versions EXCEPT ![e] = Append(versions[e], x)]
    BY <1>3, <2>1, <2>2 DEF CreateVersion
  <2>4. x.status # "active"
    BY <2>2
  <2>5. versions[d] \in Seq(Versions)
    BY DEF IInv, TypeOK
  <2>6. versions'[d] = versions[d] \/ versions'[d] = Append(versions[d], x)
    BY <2>3 DEF IInv, TypeOK
  <2>7. CASE versions'[d] = Append(versions[d], x)
    <3>1. /\ DOMAIN versions[d] = 1..Len(versions[d])
          /\ DOMAIN versions'[d] = 1..Len(versions[d]) + 1
          /\ \A i \in 1..Len(versions[d]) : versions'[d][i] = versions[d][i]
          /\ versions'[d][Len(versions[d]) + 1] = x
      BY <2>5, <2>7, Extend, Rows
    <3> QED
      BY <3>1, <2>4, <2>5, ServedFrame
  <2>8. CASE versions'[d] = versions[d]
    BY <2>8 DEF Served
  <2> QED
    BY <2>6, <2>7, <2>8
<1>4. ASSUME NEW w \in Workers, Derive(w) \/ FailVersion(w) PROVE Served(d)' = Served(d)
  <2>1. Building(w)
    BY <1>4 DEF Derive, FailVersion, Building
  <2>2. PICK e \in Documents, n \in Nat : e = job[w].doc /\ n = job[w].number
    BY <2>1, OwnVersion
  <2>3. /\ versions[e] \in Seq(Versions) /\ n \in 1..Len(versions[e])
        /\ versions[e][n].status = "building"
    BY <2>1, <2>2, OwnVersion
  <2>4. versions[e][n] \in Versions
    BY <2>3
  <2>5. PICK x \in Versions :
          /\ x.status # "active"
          /\ versions' = [versions EXCEPT ![e] = [versions[e] EXCEPT ![n] = x]]
    <3>1. CASE Derive(w)
      <4>1. [versions[e][n] EXCEPT !.derived = TRUE] \in Versions
        BY <2>4 DEF Versions
      <4>2. [versions[e][n] EXCEPT !.derived = TRUE].status = "building"
        BY <2>3, <2>4 DEF Versions
      <4> QED
        BY <3>1, <4>1, <4>2, <2>2 DEF Derive
    <3>2. CASE FailVersion(w)
      <4>1. [versions[e][n] EXCEPT !.status = "failed"] \in Versions
        BY <2>4 DEF Versions, VersionStatuses
      <4>2. [versions[e][n] EXCEPT !.status = "failed"].status = "failed"
        BY <2>4 DEF Versions
      <4> QED
        BY <3>2, <4>1, <4>2, <2>2 DEF FailVersion
    <3> QED
      BY <1>4, <3>1, <3>2
  <2> QED
    BY <2>1, <2>2, <2>5, RowServed
<1>5. ASSUME NEW w \in Workers, Activate(w), job[w].doc # d PROVE Served(d)' = Served(d)
  <2>1. PICK e \in Documents, n \in Nat : e = job[w].doc /\ n = job[w].number
    BY <1>5, OwnVersion DEF Activate, Building
  <2>2. \A c \in Documents \ {e} : versions'[c] = versions[c]
    BY <1>5, <2>1, Switched
  <2>3. versions'[d] = versions[d]
    BY <1>5, <2>1, <2>2
  <2> QED
    BY <2>3 DEF Served
<1>6. ASSUME NEW w \in Workers, Ingest(w) PROVE UNCHANGED versions
  BY <1>6 DEF Ingest, FindUrl, FindDuplicate, CommitOccurrence, CommitRaises,
              CommitCollides, builds
<1>7. ASSUME NEW w \in Workers, Build(w)
      PROVE  \/ UNCHANGED versions
             \/ CreateVersion(w) \/ Derive(w) \/ FailVersion(w) \/ Activate(w)
  BY <1>7 DEF Build, SaveDocument, MarkVectorized, OpenSwitch, ActivationCollides, BuildFails,
              ReportFailure, builds
<1> QED
  BY <1>2, <1>3, <1>4, <1>5, <1>6, <1>7 DEF Next, Send, Crash, SetCanonical, vars, builds

(* A version that is served is replaced only by a version under            *)
(* construction, in the step that supersedes it.                           *)
THEOREM AlwaysServed == Spec => ServedThroughout
<1>1. IInv /\ [Next]_vars => [HandsOver]_vars
  BY HandOver
<1> QED
  BY <1>1, Invariance, PTL DEF Spec, ServedThroughout, HandsOver

-----------------------------------------------------------------------------
(***************************************************************************)
(* DocumentVersions implements ServedVersions, for every value of the      *)
(* constants: each step of a worker changes what a document serves by one  *)
(* step of the abstract specification, or not at all.                      *)
(***************************************************************************)
(* The rows of one document are written, and those of the others kept.     *)
Writes(d) == \A e \in Documents \ {d} : versions'[e] = versions[e]

LEMMA OneDocument ==
  ASSUME NEW d \in Documents, Writes(d)
  PROVE  /\ Begun' = [Begun EXCEPT ![d] = Len(versions'[d])]
         /\ Ready' = [Ready EXCEPT ![d] = ReadyOf(d)']
         /\ Spent' = [Spent EXCEPT ![d] = SpentOf(d)']
  BY DEF Writes, Begun, Ready, Spent, ReadyOf, SpentOf

LEMMA Values ==
  ASSUME NEW d \in Documents
  PROVE  Begun[d] = Len(versions[d]) /\ Ready[d] = ReadyOf(d) /\ Spent[d] = SpentOf(d)
  BY DEF Begun, Ready, Spent

LEMMA Rest ==
  ASSUME UNCHANGED <<versions, active>>
  PROVE  UNCHANGED Serving!vars
  BY DEF Serving!vars, Begun, Ready, Spent, ReadyOf, SpentOf

LEMMA InitServing == Init => Serving!Init
<1> SUFFICES ASSUME Init PROVE Serving!Init
  OBVIOUS
<1>1. \A d \in Documents : versions[d] = << >>
  BY DEF Init
<1>2. \A d \in Documents : Len(versions[d]) = 0 /\ DOMAIN versions[d] = {}
  BY <1>1
<1>3. \A d \in Documents : ReadyOf(d) = {} /\ SpentOf(d) = {}
  BY <1>2 DEF ReadyOf, SpentOf
<1> QED
  BY <1>2, <1>3 DEF Init, Serving!Init, Begun, Ready, Spent

(* A new version is under construction, and nothing was derived from it.   *)
LEMMA CreateBegins ==
  ASSUME IInv, NEW w \in Workers, CreateVersion(w)
  PROVE  Serving!Next
<1>1. PICK d \in Documents, b \in Bodies : d = job[w].doc /\ b = job[w].body
  BY JobShapes DEF CreateVersion, IInv
<1>2. PICK x \in Versions : x = [body |-> b, status |-> "building", derived |-> FALSE]
  BY DEF Versions, VersionStatuses
<1>3. versions' = [versions EXCEPT ![d] = Append(versions[d], x)] /\ UNCHANGED active
  BY <1>1, <1>2 DEF CreateVersion
<1>4. versions[d] \in Seq(Versions)
  BY DEF IInv, TypeOK
<1>5. Writes(d) /\ versions'[d] = Append(versions[d], x)
  BY <1>3 DEF Writes, IInv, TypeOK
<1>6. x.status = "building" /\ x.derived = FALSE
  BY <1>2
<1>7. /\ Len(versions'[d]) = Len(versions[d]) + 1
      /\ DOMAIN versions[d] = 1..Len(versions[d])
      /\ DOMAIN versions'[d] = 1..Len(versions[d]) + 1
      /\ Len(versions[d]) \in Nat
      /\ \A i \in 1..Len(versions[d]) : versions'[d][i] = versions[d][i]
      /\ versions'[d][Len(versions[d]) + 1] = x
  <2>1. PICK s, t : s = versions[d] /\ t = versions'[d]
    OBVIOUS
  <2>2. s \in Seq(Versions) /\ t = Append(s, x)
    BY <1>4, <1>5, <2>1
  <2>3. /\ t \in Seq(Versions) /\ Len(t) = Len(s) + 1
        /\ \A i \in 1..Len(s) : t[i] = s[i]
        /\ t[Len(s) + 1] = x
    BY <2>2, Extend
  <2>4. Len(s) \in Nat /\ DOMAIN s = 1..Len(s) /\ DOMAIN t = 1..Len(t)
    BY <2>2, <2>3, Rows
  <2> QED BY <2>1, <2>3, <2>4
<1>8. ReadyOf(d)' = ReadyOf(d) /\ SpentOf(d)' = SpentOf(d)
  <2>1. PICK s, t, n : s = versions[d] /\ t = versions'[d] /\ n = Len(versions[d])
    OBVIOUS
  <2>2. /\ n \in Nat /\ DOMAIN s = 1..n /\ DOMAIN t = 1..n + 1
        /\ \A i \in 1..n : t[i] = s[i]
        /\ t[n + 1] = x
    BY <1>7, <2>1
  <2>3. n + 1 \notin {i \in DOMAIN t : t[i].status = "building" /\ t[i].derived}
    BY <1>6, <2>2
  <2>4. n + 1 \notin {i \in DOMAIN t : t[i].status \in {"superseded", "failed"}}
    BY <1>6, <2>2
  <2>5. \A i \in 1..n + 1 : i \in 1..n \/ i = n + 1
    BY <2>2
  <2>6. {i \in DOMAIN t : t[i].status = "building" /\ t[i].derived}
          = {i \in DOMAIN s : s[i].status = "building" /\ s[i].derived}
    BY <2>2, <2>3, <2>5
  <2>7. {i \in DOMAIN t : t[i].status \in {"superseded", "failed"}}
          = {i \in DOMAIN s : s[i].status \in {"superseded", "failed"}}
    BY <2>2, <2>4, <2>5
  <2>8. ReadyOf(d) = {i \in DOMAIN s : s[i].status = "building" /\ s[i].derived}
        /\ ReadyOf(d)' = {i \in DOMAIN t : t[i].status = "building" /\ t[i].derived}
    BY <2>1 DEF ReadyOf
  <2>9. SpentOf(d) = {i \in DOMAIN s : s[i].status \in {"superseded", "failed"}}
        /\ SpentOf(d)' = {i \in DOMAIN t : t[i].status \in {"superseded", "failed"}}
    BY <2>1 DEF SpentOf
  <2> QED BY <2>6, <2>7, <2>8, <2>9
<1>9. Begun' = [Begun EXCEPT ![d] = Begun[d] + 1] /\ UNCHANGED <<Ready, Spent>>
  BY <1>5, <1>7, <1>8, OneDocument, Values DEF Ready, Spent
<1> QED
  BY <1>3, <1>9 DEF Serving!Next, Serving!Begin

(* The one write to a row of a version, as the two steps below make it.    *)
LEMMA RowWritten ==
  ASSUME TypeOK, NEW d \in Documents, NEW n \in 1..Len(versions[d]), NEW x \in Versions,
         versions' = [versions EXCEPT ![d] = [versions[d] EXCEPT ![n] = x]]
  PROVE  /\ Writes(d)
         /\ Len(versions'[d]) = Len(versions[d])
         /\ DOMAIN versions[d] = 1..Len(versions[d]) /\ DOMAIN versions'[d] = 1..Len(versions[d])
         /\ \A i \in 1..Len(versions[d]) : versions'[d][i] = IF i = n THEN x ELSE versions[d][i]
<1>1. versions[d] \in Seq(Versions)
  BY DEF TypeOK
<1>2. versions'[d] = [versions[d] EXCEPT ![n] = x] /\ Writes(d)
  BY DEF TypeOK, Writes
<1>3. /\ versions'[d] \in Seq(Versions)
      /\ Len(versions'[d]) = Len(versions[d])
      /\ \A i \in 1..Len(versions[d]) : versions'[d][i] = IF i = n THEN x ELSE versions[d][i]
  BY <1>1, <1>2, Update
<1> QED
  BY <1>1, <1>2, <1>3, Rows

LEMMA DeriveCompletes ==
  ASSUME IInv, NEW w \in Workers, Derive(w)
  PROVE  Serving!Next
<1>1. Building(w)
  BY DEF Derive, Building
<1>2. PICK d \in Documents, n \in Nat : d = job[w].doc /\ n = job[w].number
  BY <1>1, OwnVersion
<1>3. /\ versions[d] \in Seq(Versions) /\ n \in 1..Len(versions[d])
      /\ versions[d][n].status = "building"
  BY <1>1, <1>2, OwnVersion
<1>4. versions[d][n] \in Versions
  BY <1>3
<1>5. PICK x \in Versions :
        /\ x.status = "building" /\ x.derived
        /\ versions' = [versions EXCEPT ![d] = [versions[d] EXCEPT ![n] = x]]
  <2>1. [versions[d][n] EXCEPT !.derived = TRUE] \in Versions
    BY <1>4 DEF Versions
  <2>2. /\ [versions[d][n] EXCEPT !.derived = TRUE].status = "building"
        /\ [versions[d][n] EXCEPT !.derived = TRUE].derived
    BY <1>3, <1>4 DEF Versions
  <2> QED
    BY <2>1, <2>2, <1>2 DEF Derive
<1>6. n \in 1..Len(versions[d]) /\ n # active[d] /\ versions[d][n].status = "building"
  BY <1>1, <1>2, OwnVersion
<1>7. /\ Writes(d)
      /\ Len(versions'[d]) = Len(versions[d])
      /\ DOMAIN versions[d] = 1..Len(versions[d]) /\ DOMAIN versions'[d] = 1..Len(versions[d])
      /\ \A i \in 1..Len(versions[d]) : versions'[d][i] = IF i = n THEN x ELSE versions[d][i]
  BY <1>5, <1>6, RowWritten DEF IInv
<1>8. ReadyOf(d)' = ReadyOf(d) \cup {n} /\ SpentOf(d)' = SpentOf(d) /\ n \notin SpentOf(d)
  BY <1>5, <1>6, <1>7 DEF ReadyOf, SpentOf
<1>9. Ready' = [Ready EXCEPT ![d] = Ready[d] \cup {n}] /\ UNCHANGED <<Begun, Spent>>
  BY <1>7, <1>8, OneDocument, Values DEF Begun, Spent
<1>10. n \in 1..Begun[d] /\ n \notin Spent[d] \cup {active[d]}
  BY <1>6, <1>8, Values
<1>11. UNCHANGED active
  BY DEF Derive
<1> QED
  BY <1>9, <1>10, <1>11 DEF Serving!Next, Serving!Complete

LEMMA FailGivesUp ==
  ASSUME IInv, NEW w \in Workers, FailVersion(w)
  PROVE  Serving!Next
<1>1. Building(w)
  BY DEF FailVersion, Building
<1>2. PICK d \in Documents, n \in Nat : d = job[w].doc /\ n = job[w].number
  BY <1>1, OwnVersion
<1>3. versions[d] \in Seq(Versions) /\ n \in 1..Len(versions[d])
  BY <1>1, <1>2, OwnVersion
<1>4. versions[d][n] \in Versions
  BY <1>3
<1>5. PICK x \in Versions :
        /\ x.status = "failed"
        /\ versions' = [versions EXCEPT ![d] = [versions[d] EXCEPT ![n] = x]]
  <2>1. /\ [versions[d][n] EXCEPT !.status = "failed"] \in Versions
        /\ [versions[d][n] EXCEPT !.status = "failed"].status = "failed"
    BY <1>4 DEF Versions, VersionStatuses
  <2> QED
    BY <2>1, <1>2 DEF FailVersion
<1>6. n \in 1..Len(versions[d]) /\ n # active[d] /\ versions[d][n].status = "building"
  BY <1>1, <1>2, OwnVersion
<1>7. /\ Writes(d)
      /\ Len(versions'[d]) = Len(versions[d])
      /\ DOMAIN versions[d] = 1..Len(versions[d]) /\ DOMAIN versions'[d] = 1..Len(versions[d])
      /\ \A i \in 1..Len(versions[d]) : versions'[d][i] = IF i = n THEN x ELSE versions[d][i]
  BY <1>5, <1>6, RowWritten DEF IInv
<1>8. ReadyOf(d)' = ReadyOf(d) \ {n} /\ SpentOf(d)' = SpentOf(d) \cup {n}
  BY <1>5, <1>6, <1>7 DEF ReadyOf, SpentOf
<1>9. /\ Ready' = [Ready EXCEPT ![d] = Ready[d] \ {n}]
      /\ Spent' = [Spent EXCEPT ![d] = Spent[d] \cup {n}]
      /\ UNCHANGED Begun
  BY <1>7, <1>8, OneDocument, Values DEF Begun
<1>10. n \in 1..Begun[d] /\ n # active[d]
  BY <1>6, Values
<1>11. UNCHANGED active
  BY DEF FailVersion
<1> QED
  BY <1>9, <1>10, <1>11 DEF Serving!Next, Serving!GiveUp

(* The switch retires the version the document served, and no other one.   *)
LEMMA ActivateServes ==
  ASSUME IInv, NEW w \in Workers, Activate(w)
  PROVE  Serving!Next
<1> USE DEF IInv, BuildInv
<1>1. Building(w)
  BY DEF Activate, Building
<1>2. PICK d \in Documents, n \in Nat : d = job[w].doc /\ n = job[w].number
  BY <1>1, OwnVersion
<1>3. PICK s, i : s = versions[d] /\ i = active[d]
  OBVIOUS
<1>4. /\ s \in Seq(Versions) /\ i \in 0..Len(s) /\ n \in 1..Len(s) /\ i # n
      /\ s[n].status = "building"
  BY <1>1, <1>2, <1>3, OwnVersion
<1>5. s[n].derived
  BY <1>1, <1>2, <1>3 DEF Activate, BuildsStand
<1>6. \A j \in 1..Len(s) : s[j].status = "active" <=> j = i
  BY <1>3, <1>4, Rows DEF ActiveVersionIsComplete
<1>7. PICK r : r = SwitchRows(s, i, n)
  OBVIOUS
<1>8. /\ r \in Seq(Versions) /\ Len(r) = Len(s)
      /\ \A j \in 1..Len(s) :
           r[j] = IF j = n THEN [s[n] EXCEPT !.status = "active"]
                  ELSE IF j = i THEN [s[i] EXCEPT !.status = "superseded"]
                  ELSE s[j]
  BY <1>4, <1>7, Switch
<1>9. versions' = [versions EXCEPT ![d] = r] /\ active' = [active EXCEPT ![d] = n]
  BY <1>2, <1>3, <1>7 DEF Activate, SwitchRows
<1>10. versions'[d] = r /\ Writes(d)
  BY <1>9 DEF TypeOK, Writes
<1>11. DOMAIN s = 1..Len(s) /\ DOMAIN r = 1..Len(s)
  BY <1>4, <1>8, Rows
<1>12. \A j \in 1..Len(s) : s[j] \in Versions
  BY <1>4
<1>13. /\ r[n].status = "active"
       /\ i # 0 => r[i].status = "superseded"
       /\ \A j \in 1..Len(s) : j # n /\ j # i => r[j] = s[j]
  BY <1>4, <1>8, <1>12 DEF Versions
<1>14. ReadyOf(d)' = ReadyOf(d) \ {n}
  <2>1. ReadyOf(d)' = {j \in 1..Len(s) : r[j].status = "building" /\ r[j].derived}
    BY <1>10, <1>11 DEF ReadyOf
  <2>2. ReadyOf(d) = {j \in 1..Len(s) : s[j].status = "building" /\ s[j].derived}
    BY <1>3, <1>11 DEF ReadyOf
  <2> QED
    BY <2>1, <2>2, <1>6, <1>13
<1>15. SpentOf(d)' = SpentOf(d) \cup ({i} \ {0})
  <2>1. SpentOf(d)' = {j \in 1..Len(s) : r[j].status \in {"superseded", "failed"}}
    BY <1>10, <1>11 DEF SpentOf
  <2>2. SpentOf(d) = {j \in 1..Len(s) : s[j].status \in {"superseded", "failed"}}
    BY <1>3, <1>11 DEF SpentOf
  <2> QED
    BY <2>1, <2>2, <1>4, <1>13
<1>16. n \in ReadyOf(d)
  BY <1>3, <1>4, <1>5, <1>11 DEF ReadyOf
<1>17. /\ Ready' = [Ready EXCEPT ![d] = Ready[d] \ {n}]
       /\ Spent' = [Spent EXCEPT ![d] = Spent[d] \cup ({active[d]} \ {0})]
       /\ UNCHANGED Begun
  <2>1. Ready' = [Ready EXCEPT ![d] = Ready[d] \ {n}]
    BY <1>10, <1>14, OneDocument, Values
  <2>2. Spent' = [Spent EXCEPT ![d] = Spent[d] \cup ({active[d]} \ {0})]
    BY <1>3, <1>10, <1>15, OneDocument, Values
  <2>3. Begun' = [Begun EXCEPT ![d] = Len(versions[d])]
    BY <1>3, <1>8, <1>10, OneDocument
  <2> QED
    BY <2>1, <2>2, <2>3 DEF Begun
<1>18. n \in 1..Begun[d] /\ n \in Ready[d]
  BY <1>3, <1>4, <1>16, Values
<1> QED
  BY <1>9, <1>17, <1>18 DEF Serving!Next, Serving!Serve

LEMMA StepServing == IInv /\ [Next]_vars => [Serving!Next]_(Serving!vars)
<1> SUFFICES ASSUME IInv, [Next]_vars PROVE Serving!Next \/ UNCHANGED Serving!vars
  OBVIOUS
<1>1. ASSUME UNCHANGED <<versions, active>> PROVE UNCHANGED Serving!vars
  BY <1>1, Rest
<1>2. ASSUME NEW w \in Workers, Ingest(w) PROVE UNCHANGED <<versions, active>>
  BY <1>2 DEF Ingest, FindUrl, FindDuplicate, CommitOccurrence, CommitRaises,
              CommitCollides, builds
<1>3. ASSUME NEW w \in Workers, Build(w)
      PROVE  Serving!Next \/ UNCHANGED <<versions, active>>
  <2>1. \/ CreateVersion(w) \/ Derive(w) \/ FailVersion(w) \/ Activate(w)
        \/ UNCHANGED <<versions, active>>
    BY <1>3 DEF Build, SaveDocument, MarkVectorized, OpenSwitch, ActivationCollides, BuildFails,
                ReportFailure, builds
  <2> QED
    BY <2>1, CreateBegins, DeriveCompletes, FailGivesUp, ActivateServes
<1>4. \/ \E w \in Workers : Ingest(w) \/ Build(w)
      \/ UNCHANGED <<versions, active>>
  BY DEF Next, Send, Crash, SetCanonical, vars, builds
<1> QED
  BY <1>1, <1>2, <1>3, <1>4

(* Whatever the builds of a document do, what it serves evolves as         *)
(* ServedVersions says: only complete versions are served, one at a time,  *)
(* and none of them returns after it was replaced or given up.             *)
THEOREM ServingImplemented == Spec => ImplementsServing
<1>1. Init => Serving!Init
  BY InitServing
<1>2. IInv /\ [Next]_vars => [Serving!Next]_(Serving!vars)
  BY StepServing
<1> QED
  BY <1>1, <1>2, Invariance, PTL DEF Spec, ImplementsServing, Serving!Spec
===============================================================================
