--------------------------- MODULE DocumentVersions ---------------------------
(***************************************************************************)
(* The ingest stage of InsightForge: an accepted article becomes a Source  *)
(* Occurrence of a Document Cluster, and new or promoted content is built  *)
(* as a Document Version that is switched to active when it is complete.   *)
(*                                                                         *)
(* Several Celery workers run ingest_normalized_document_task, also for    *)
(* articles of the same cluster and for the same article twice.  A commit  *)
(* of an occurrence and a switch of the active version are transactions    *)
(* that read first and write later; each is two actions here, so that what *)
(* the advisory locks and the unique indexes are for is in the model.      *)
(***************************************************************************)
EXTENDS Naturals, Sequences

CONSTANTS Articles,   \* accepted Normalized Documents
          Urls,       \* normalized URLs
          Bodies,     \* contents up to normalize_content: equal content_hash
          Bands,      \* 16 bit bands of SimHash values
          Workers,    \* Celery workers of the ingest queue
          UrlOf, BodyOf, TierOf,   \* of an article; tiers by their rank
          LengthOf,   \* content_length of a body
          BandsOf,    \* high_bands of a body
          Similar,    \* pairs of bodies _find_near_duplicate calls duplicates
          None,       \* NULL
          MaxFaults   \* bound: worker crashes

ASSUME DocumentVersionsAssumption ==
  /\ UrlOf \in [Articles -> Urls]
  /\ BodyOf \in [Articles -> Bodies]
  /\ TierOf \in [Articles -> Nat]
  /\ LengthOf \in [Bodies -> Nat]
  /\ BandsOf \in [Bodies -> SUBSET Bands]
  /\ \A b \in Bodies : BandsOf[b] # {}
  /\ Similar \subseteq Bodies \X Bodies
  /\ None \notin Urls /\ None \notin Articles
  /\ MaxFaults \in Nat

(* A cluster is named after the article whose commit created it.           *)
Documents == Articles

VARIABLES
  occurrence,  \* source_occurrences: the article recorded for a URL
  clusterOf,   \* source_occurrences.document_id
  canonical,   \* document_clusters.canonical_occurrence_id, by its URL
  versions,    \* source_document_versions of a document, by version number
  active,      \* document_clusters.active_version_id (0: NULL)
  parse,       \* source_documents.parse_status ("none": no row)
  queue,       \* articles with a message in the ingest queue
  job,         \* what each worker is doing
  faults       \* crashes so far

clusters == <<occurrence, clusterOf, canonical>>
builds   == <<versions, active, parse>>
vars     == <<occurrence, clusterOf, canonical, versions, active, parse, queue, job, faults>>

-----------------------------------------------------------------------------
VersionStatuses == {"building", "active", "superseded", "failed"}
Versions == [body : Bodies, status : VersionStatuses, derived : BOOLEAN]

BuildSteps == {"saving", "deriving", "marking", "opening", "failing", "reporting"}
Idle == [pc |-> "idle"]
CommitJobs == [pc : {"committing"}, article : Articles, match : Urls \cup {None}]
BeginJobs  == [pc : {"beginning"}, doc : Documents, body : Bodies]
BuildJobs  == [pc : BuildSteps, doc : Documents, number : Nat]
SwitchJobs == [pc : {"switching"}, doc : Documents, number : Nat, saw : Nat]
Jobs == {Idle} \cup CommitJobs \cup BeginJobs \cup BuildJobs \cup SwitchJobs

Become(w, j) == job' = [job EXCEPT ![w] = j]
Proceed(w, pc) == Become(w, [pc |-> pc, doc |-> job[w].doc, number |-> job[w].number])

Known(u) == occurrence[u] # None
BodyAt(u) == BodyOf[occurrence[u]]

(* Variant: no advisory locks.                                             *)
LocksNotTaken(a) == a \in Articles

(* commit_occurrence holds the advisory locks of the article's high bands  *)
(* from its first statement to its end.                                    *)
LocksFree(a) ==
  \A w \in Workers : job[w].pc = "committing" =>
    BandsOf[BodyOf[job[w].article]] \cap BandsOf[BodyOf[a]] = {}

(* The stored duplicates of an article: equal content first, then similar. *)
Matches(a) ==
  LET equal == {u \in Urls : Known(u) /\ BodyAt(u) = BodyOf[a]}
      near  == {u \in Urls : Known(u) /\ <<BodyOf[a], BodyAt(u)>> \in Similar}
  IN  IF equal # {} THEN equal ELSE IF near # {} THEN near ELSE {None}

(* _should_promote: at least 70 percent of the length and a better tier.   *)
Promotes(a, d) ==
  LET current == canonical[d]
  IN  current # None =>
        /\ LengthOf[BodyAt(current)] # 0 =>
             10 * LengthOf[BodyOf[a]] >= 7 * LengthOf[BodyAt(current)]
        /\ TierOf[a] > TierOf[occurrence[current]]

-----------------------------------------------------------------------------
Init ==
  /\ occurrence = [u \in Urls |-> None]
  /\ clusterOf  = [u \in Urls |-> None]
  /\ canonical  = [d \in Documents |-> None]
  /\ versions   = [d \in Documents |-> << >>]
  /\ active     = [d \in Documents |-> 0]
  /\ parse      = [d \in Documents |-> "none"]
  /\ queue      = {}
  /\ job        = [w \in Workers |-> Idle]
  /\ faults     = 0

(* Normalisation sends an accepted article, and sends it again whenever it *)
(* is replayed.                                                            *)
Send(a) ==
  /\ queue' = queue \cup {a}
  /\ UNCHANGED <<clusters, builds, job, faults>>

-----------------------------------------------------------------------------
(* commit_occurrence.                                                      *)

Begins(w, d, a) == Become(w, [pc |-> "beginning", doc |-> d, body |-> BodyOf[a]])

Take(w, a) ==
  /\ job[w].pc = "idle"
  /\ a \in queue
  /\ LocksFree(a)
  /\ queue' = queue \ {a}

(* The URL is known.  _requires_build asks source_documents for a          *)
(* document_id, a column it does not have: the statement raises and the    *)
(* transaction is rolled back.                                             *)
FindUrl(w, a) ==
  /\ Take(w, a)
  /\ Known(UrlOf[a])
  /\ Become(w, Idle)
  /\ UNCHANGED <<clusters, builds, faults>>

FindDuplicate(w, a, u) ==
  /\ Take(w, a)
  /\ ~Known(UrlOf[a])
  /\ u \in Matches(a)
  /\ Become(w, [pc |-> "committing", article |-> a, match |-> u])
  /\ UNCHANGED <<clusters, builds, faults>>

(* The document an occurrence joins, and whether it becomes canonical.  A  *)
(* gray candidate only adds a row for review, it is a cluster of its own.  *)
Joined(w) == IF job[w].match = None THEN job[w].article ELSE clusterOf[job[w].match]
BecomesCanonical(w) == job[w].match # None => Promotes(job[w].article, Joined(w))

CommitOccurrence(w) ==
  LET a == job[w].article   u == UrlOf[a]   d == Joined(w)
  IN  /\ job[w].pc = "committing"
      /\ ~Known(u)
      /\ BecomesCanonical(w)
      /\ occurrence' = [occurrence EXCEPT ![u] = a]
      /\ clusterOf' = [clusterOf EXCEPT ![u] = d]
      /\ canonical' = [canonical EXCEPT ![d] = u]
      /\ Begins(w, d, a)
      /\ UNCHANGED <<builds, queue, faults>>

(* A duplicate that is not promoted: whether to build depends on           *)
(* _requires_build, which raises, and its occurrence is rolled back.       *)
CommitRaises(w) ==
  /\ job[w].pc = "committing"
  /\ ~BecomesCanonical(w)
  /\ Become(w, Idle)
  /\ UNCHANGED <<clusters, builds, queue, faults>>

(* The UNIQUE index of normalized_url: the URL was inserted meanwhile, by  *)
(* a commit of other content that holds other locks.                       *)
CommitCollides(w) ==
  /\ job[w].pc = "committing"
  /\ Known(UrlOf[job[w].article])
  /\ Become(w, Idle)
  /\ UNCHANGED <<clusters, builds, queue, faults>>

(* promote_source of the governance API.                                   *)
SetCanonical(d, u) ==
  /\ clusterOf[u] = d
  /\ canonical' = [canonical EXCEPT ![d] = u]
  /\ UNCHANGED <<occurrence, clusterOf, builds, queue, job, faults>>

-----------------------------------------------------------------------------
(* The build of a version.                                                 *)

CreateVersion(w) ==
  LET d == job[w].doc
  IN  /\ job[w].pc = "beginning"
      /\ versions' = [versions EXCEPT ![d] =
                        Append(@, [body |-> job[w].body, status |-> "building", derived |-> FALSE])]
      /\ Become(w, [pc |-> "saving", doc |-> d, number |-> Len(versions[d]) + 1])
      /\ UNCHANGED <<clusters, active, parse, queue, faults>>

SaveDocument(w) ==
  /\ job[w].pc = "saving"
  /\ parse' = [parse EXCEPT ![job[w].doc] = "parsed"]
  /\ Proceed(w, "deriving")
  /\ UNCHANGED <<clusters, versions, active, queue, faults>>

(* Variant: points and chunks are written for the latest version.          *)
DeriveLatest(w) ==
  /\ job[w].pc = "deriving"
  /\ versions' = [versions EXCEPT ![job[w].doc][Len(versions[job[w].doc])].derived = TRUE]
  /\ Proceed(w, "marking")
  /\ UNCHANGED <<clusters, active, parse, queue, faults>>

(* Parent chunks and vector points, all of them or an exception.           *)
Derive(w) ==
  /\ job[w].pc = "deriving"
  /\ versions' = [versions EXCEPT ![job[w].doc][job[w].number].derived = TRUE]
  /\ Proceed(w, "marking")
  /\ UNCHANGED <<clusters, active, parse, queue, faults>>

(* Variant: the status of the version is written to the document.          *)
MarkActive(w) ==
  /\ job[w].pc = "marking"
  /\ parse' = [parse EXCEPT ![job[w].doc] = "active"]
  /\ Proceed(w, "opening")
  /\ UNCHANGED <<clusters, versions, active, queue, faults>>

MarkVectorized(w) ==
  /\ job[w].pc = "marking"
  /\ parse' = [parse EXCEPT ![job[w].doc] = "vectorized"]
  /\ Proceed(w, "opening")
  /\ UNCHANGED <<clusters, versions, active, queue, faults>>

(* activate_version's first UPDATE sees the version that is active now.    *)
OpenSwitch(w) ==
  /\ job[w].pc = "opening"
  /\ Become(w, [pc |-> "switching", doc |-> job[w].doc, number |-> job[w].number,
                saw |-> active[job[w].doc]])
  /\ UNCHANGED <<clusters, builds, queue, faults>>

Supersede(vs, i) == IF i = 0 THEN vs ELSE [vs EXCEPT ![i].status = "superseded"]

(* Variant: no unique index on the active version.                         *)
ActivateUnchecked(w) ==
  LET d == job[w].doc   n == job[w].number
  IN  /\ job[w].pc = "switching"
      /\ versions' = [versions EXCEPT ![d] = [Supersede(@, job[w].saw) EXCEPT ![n].status = "active"]]
      /\ active' = [active EXCEPT ![d] = n]
      /\ Become(w, Idle)
      /\ UNCHANGED <<clusters, parse, queue, faults>>

Activate(w) ==
  LET d == job[w].doc   n == job[w].number
  IN  /\ job[w].pc = "switching"
      /\ active[d] = job[w].saw
      /\ versions' = [versions EXCEPT ![d] = [Supersede(@, active[d]) EXCEPT ![n].status = "active"]]
      /\ active' = [active EXCEPT ![d] = n]
      /\ Become(w, Idle)
      /\ UNCHANGED <<clusters, parse, queue, faults>>

(* uq_active_document_version: another version became active meanwhile.    *)
ActivationCollides(w) ==
  /\ job[w].pc = "switching"
  /\ active[job[w].doc] # job[w].saw
  /\ Proceed(w, "failing")
  /\ UNCHANGED <<clusters, builds, queue, faults>>

(* The document store, the embedding service or the vector index raises.   *)
BuildFails(w) ==
  /\ job[w].pc \in {"saving", "deriving", "marking", "opening"}
  /\ Proceed(w, "failing")
  /\ UNCHANGED <<clusters, builds, queue, faults>>

(* Variant: fail_version without its conditions on the id and the status.  *)
FailVersions(w) ==
  LET d == job[w].doc
  IN  /\ job[w].pc = "failing"
      /\ versions' = [versions EXCEPT ![d] =
                        [i \in DOMAIN @ |-> [@[i] EXCEPT !.status = "failed"]]]
      /\ Proceed(w, "reporting")
      /\ UNCHANGED <<clusters, active, parse, queue, faults>>

FailVersion(w) ==
  LET d == job[w].doc   n == job[w].number
  IN  /\ job[w].pc = "failing"
      /\ versions[d][n].status = "building"
      /\ versions' = [versions EXCEPT ![d][n].status = "failed"]
      /\ Proceed(w, "reporting")
      /\ UNCHANGED <<clusters, active, parse, queue, faults>>

ReportFailure(w) ==
  /\ job[w].pc = "reporting"
  /\ parse' = [parse EXCEPT ![job[w].doc] = IF @ = "none" THEN @ ELSE "failed"]
  /\ Become(w, Idle)
  /\ UNCHANGED <<clusters, versions, active, queue, faults>>

Crash(w) ==
  /\ job[w].pc # "idle"
  /\ faults < MaxFaults
  /\ faults' = faults + 1
  /\ Become(w, Idle)
  /\ UNCHANGED <<clusters, builds, queue>>

-----------------------------------------------------------------------------
Ingest(w) ==
  \/ \E a \in queue : FindUrl(w, a) \/ \E u \in Urls \cup {None} : FindDuplicate(w, a, u)
  \/ CommitOccurrence(w) \/ CommitRaises(w) \/ CommitCollides(w)

Build(w) ==
  \/ CreateVersion(w) \/ SaveDocument(w) \/ Derive(w) \/ MarkVectorized(w)
  \/ OpenSwitch(w) \/ Activate(w) \/ ActivationCollides(w)
  \/ BuildFails(w) \/ FailVersion(w) \/ ReportFailure(w)

Next ==
  \/ \E a \in Articles : Send(a)
  \/ \E w \in Workers : Ingest(w) \/ Build(w) \/ Crash(w)
  \/ \E d \in Documents, u \in Urls : SetCanonical(d, u)

Spec == Init /\ [][Next]_vars

-----------------------------------------------------------------------------
(* Rows, statuses and jobs stay within the values the code knows.          *)
TypeOK ==
  /\ occurrence \in [Urls -> Articles \cup {None}]
  /\ clusterOf  \in [Urls -> Documents \cup {None}]
  /\ canonical  \in [Documents -> Urls \cup {None}]
  /\ versions   \in [Documents -> Seq(Versions)]
  /\ active     \in [Documents -> Nat]
  /\ parse      \in [Documents -> {"none", "parsed", "vectorized", "failed"}]
  /\ queue      \subseteq Articles
  /\ job        \in [Workers -> Jobs]
  /\ faults     \in 0..MaxFaults

(* Equal content is one document: no two occurrences of the same content   *)
(* are in different clusters, although workers commit them concurrently    *)
(* and each looks for a duplicate before any of them has inserted.         *)
SameContentSameCluster ==
  \A u, v \in Urls : Known(u) /\ Known(v) /\ BodyAt(u) = BodyAt(v) =>
    clusterOf[u] = clusterOf[v]

(* The active version of a cluster is the one version with status active,  *)
(* and everything search needs was derived from it, although builds of the *)
(* same document overlap and finish in any order.                          *)
ActiveVersionIsComplete ==
  \A d \in Documents :
    /\ \A i \in DOMAIN versions[d] : versions[d][i].status = "active" <=> i = active[d]
    /\ active[d] # 0 => active[d] \in DOMAIN versions[d] /\ versions[d][active[d]].derived

(* A failing, colliding or crashing build leaves the version that is being *)
(* served alone: it is served until a version under construction takes     *)
(* over, in the same step.                                                 *)
Served(d) == {i \in DOMAIN versions[d] : versions[d][i].status = "active"}
ServedThroughout ==
  [][\A d \in Documents : Served(d) # {} =>
       /\ Served(d)' # {}
       /\ \A i \in Served(d)' \ Served(d) : versions[d][i].status = "building"]_vars

(* DocumentVersions implements ServedVersions, what search relies on: of   *)
(* overlapping, failing and crashing builds it sees that versions begin,   *)
(* become complete, are given up, and that one complete version at a time  *)
(* takes over.                                                             *)
ReadyOf(d) == {i \in DOMAIN versions[d] : versions[d][i].status = "building" /\ versions[d][i].derived}
SpentOf(d) == {i \in DOMAIN versions[d] : versions[d][i].status \in {"superseded", "failed"}}

Begun == [d \in Documents |-> Len(versions[d])]
Ready == [d \in Documents |-> ReadyOf(d)]
Spent == [d \in Documents |-> SpentOf(d)]

Serving == INSTANCE ServedVersions WITH
             begun <- Begun, ready <- Ready, serving <- active, spent <- Spent
ImplementsServing == Serving!Spec

(* The comment in PostgresDocumentDedupStore._requires_build: whether a    *)
(* build is needed can be replayed from PostgreSQL, and does not depend on *)
(* the new_cluster that is returned once.  An article of a document that   *)
(* is not vectorized begins a build when it is delivered again.            *)
BuildIsReplayed ==
  [][\A a \in queue \ queue' :
       LET d == clusterOf[UrlOf[a]]
       IN  Known(UrlOf[a]) /\ parse[d] # "vectorized" =>
             \E w \in Workers : /\ job[w].pc = "idle"
                               /\ job'[w] = [pc |-> "beginning", doc |-> d, body |-> BodyOf[a]]]_vars
===============================================================================
