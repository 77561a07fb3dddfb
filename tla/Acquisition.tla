------------------------------- MODULE Acquisition -------------------------------
(***************************************************************************)
(* The parts documents come in by and are found by.  They share no state:  *)
(* the first state chooses which of them moves, and the variables of the   *)
(* others are None.                                                        *)
(***************************************************************************)
EXTENDS Naturals, Sequences, FiniteSets

CONSTANTS
  Parts, None, MaxTime,
  Blobs, Rejected, Empty, Workers, MaxTasks, MaxFaults,     \* Uploads
  Discovers, Base, Maximum, Threshold, Versions,            \* SourceSchedule
  Fetches, Rate, Capacity, Ttl, CoolDown,                   \* RateLimiter
  Candidates, Cleanups, Life, Limit, MaxFiles, LastTime,    \* ArtifactRetention, with Fetches
  Unnamed, FooterTexts, MaxLevel, Weight, PartOf, Titles, Lines, MaxLines,
  MaxChild, SoftChild, LeastBudget, Tiny,
  TargetParent, SoftParent, Overlap,                        \* Chunking
  Documents, MaxVersion, ChildrenOf, Depth, TopK, RrfK,
  VectorWeight, KeywordWeight                               \* HybridSearch

VARIABLES
  part,
  batch, blob, doc, points, indexed, run, lock, linked, job, dead, faults, \* Uploads
  now, feed, saved, cursor, discover,                                  \* SourceSchedule
  clock, strict, up, bucket, cooling, request, mark, granted,          \* RateLimiter
  time, artifact, files, written, fetch, cleanup,                      \* ArtifactRetention
  format, file, document, children, parents, step,                     \* Chunking
  active, vectors, semantic, keyword, results, search                  \* HybridSearch

uploads   == <<batch, blob, doc, points, indexed, run, lock, linked, job, dead, faults>>
schedule  == <<now, feed, saved, cursor, discover>>
limiter   == <<clock, strict, up, bucket, cooling, request, mark, granted>>
retention == <<time, artifact, files, written, fetch, cleanup>>
chunking  == <<format, file, document, children, parents, step>>
searching == <<active, vectors, semantic, keyword, results, search>>
vars == <<part, uploads, schedule, limiter, retention, chunking, searching>>

Upl == INSTANCE Uploads
Sch == INSTANCE SourceSchedule
Lim == INSTANCE RateLimiter WITH now <- clock, fetch <- request
Ret == INSTANCE ArtifactRetention WITH now <- time, MaxTime <- LastTime
Chu == INSTANCE Chunking
Hyb == INSTANCE HybridSearch WITH points <- vectors, Candidates <- Depth

(* Redis drops a bucket after 120 seconds, which fills up in 60.           *)
ASSUME LimiterAssumption ==
  /\ Rate \in Nat /\ Capacity \in Nat /\ Ttl \in Nat /\ CoolDown \in Nat /\ MaxTime \in Nat
  /\ Capacity <= Rate * Ttl

(* None stands for no ETag and for no path, neither is a number.           *)
ASSUME NoneAssumption == None \notin Nat

ASSUME PartsAssumption ==
  Parts \subseteq {"uploads", "schedule", "limiter", "retention", "chunking", "search"}

ASSUME UploadsAssumption ==
  /\ MaxTasks \in Nat /\ MaxFaults \in Nat
  /\ None \notin Upl!Document /\ None \notin Upl!TaskStatus

(* A feed has a first version, and intervals are numbers.                  *)
ASSUME ScheduleAssumption == Base \in Nat /\ Maximum \in Nat /\ Versions \in Nat \ {0}

(* A document has a first version, and limits and weights are numbers.     *)
ASSUME SearchingAssumption ==
  /\ MaxVersion \in Nat \ {0} /\ Depth \in Nat /\ TopK \in Nat /\ RrfK \in Nat
  /\ VectorWeight \in Nat /\ KeywordWeight \in Nat

(* Markdown has two levels of headings or more, and a part of a text that  *)
(* is cut by force has at least one token.                                 *)
ASSUME ChunkingAssumption ==
  /\ MaxLevel \in Nat /\ MaxLevel >= 2
  /\ Lines \subseteq [kind : Chu!Kinds, level : 0..MaxLevel, text : STRING]
  /\ Weight \in [Chu!Kinds \ {"heading"} -> Nat]
  /\ MaxLines \in Nat /\ MaxChild \in Nat /\ LeastBudget \in Nat \ {0}

(* A file has a name, and what is part of a character is a token.          *)
ASSUME TextAssumption == Titles \subseteq STRING \ {""} /\ DOMAIN PartOf \subseteq Nat \X Nat

(* A parent has room for any child, a merged one and one cut by force below *)
(* the deepest headings too, and for the overlap on both sides.            *)
ASSUME ParentsAssumption ==
  /\ Overlap \in Nat /\ TargetParent \in Nat
  /\ MaxChild + 1 + 2 * Overlap <= TargetParent
  /\ MaxLevel + 3 + LeastBudget + 2 * Overlap <= TargetParent

ASSUME RetentionAssumption == Life \in Nat /\ MaxFiles \in Nat /\ LastTime \in Nat

-----------------------------------------------------------------------------
NoUploads == batch = None /\ blob = None /\ doc = None /\ points = None /\ indexed = None
  /\ run = None /\ lock = None /\ linked = None /\ job = None /\ dead = None /\ faults = None
NoSchedule == now = None /\ feed = None /\ saved = None /\ cursor = None /\ discover = None
NoLimiter == clock = None /\ strict = None /\ up = None /\ bucket = None /\ cooling = None
  /\ request = None /\ mark = None /\ granted = None
NoRetention == time = None /\ artifact = None /\ files = None /\ written = None
  /\ fetch = None /\ cleanup = None
NoChunking == format = None /\ file = None /\ document = None /\ children = None
  /\ parents = None /\ step = None
NoSearching == active = None /\ vectors = None /\ semantic = None /\ keyword = None
  /\ results = None /\ search = None

Init ==
  /\ part \in Parts
  /\ IF part = "uploads" THEN Upl!Init ELSE NoUploads
  /\ IF part = "schedule" THEN Sch!Init ELSE NoSchedule
  /\ IF part = "limiter" THEN Lim!Init ELSE NoLimiter
  /\ IF part = "retention" THEN Ret!Init ELSE NoRetention
  /\ IF part = "chunking" THEN Chu!Init ELSE NoChunking
  /\ IF part = "search" THEN Hyb!Init ELSE NoSearching

Work(w) == part = "uploads" /\ Upl!Work(w)
             /\ UNCHANGED <<part, schedule, limiter, retention, chunking, searching>>
Next ==
  \/ part = "uploads" /\ Upl!Next
       /\ UNCHANGED <<part, schedule, limiter, retention, chunking, searching>>
  \/ part = "schedule" /\ Sch!Next
       /\ UNCHANGED <<part, uploads, limiter, retention, chunking, searching>>
  \/ part = "limiter" /\ Lim!Next
       /\ UNCHANGED <<part, uploads, schedule, retention, chunking, searching>>
  \/ part = "retention" /\ Ret!Next
       /\ UNCHANGED <<part, uploads, schedule, limiter, chunking, searching>>
  \/ part = "chunking" /\ Chu!Next
       /\ UNCHANGED <<part, uploads, schedule, limiter, retention, searching>>
  \/ part = "search" /\ Hyb!Next
       /\ UNCHANGED <<part, uploads, schedule, limiter, retention, chunking>>

(* A worker that runs goes on with its task.                               *)
Fairness == \A w \in Workers : WF_vars(Work(w))
Spec == Init /\ [][Next]_vars /\ Fairness

-----------------------------------------------------------------------------
(* The part that moves keeps to its types.                                 *)
TypeOK ==
  CASE part = "uploads"   -> Upl!TypeOK
    [] part = "schedule"  -> Sch!TypeOK
    [] part = "limiter"   -> Lim!TypeOK
    [] part = "retention" -> Ret!TypeOK
    [] part = "chunking"  -> Chu!TypeOK
    [] part = "search"    -> Hyb!TypeOK

(* What each part promises, see its module.                                *)
SucceededBatchIsIngested == part = "uploads" => Upl!SucceededBatchIsIngested
LocksHold == part = "uploads" => Upl!LocksHold
Underway(r) == part = "uploads" /\ Upl!Underway(r)
EveryRunEnds == \A r \in 1 .. MaxTasks : Underway(r) ~> ~Underway(r)
UploadsAreFound == part = "uploads" => Upl!UploadsAreFound
RememberedIsSaved == part = "schedule" => Sch!RememberedIsSaved
StrictIsLimited == part = "limiter" => Lim!StrictIsLimited
BodyIsKept == part = "retention" => Ret!BodyIsKept
ChunkingKeepsText == part = "chunking" => Chu!ChunkingKeepsText
ParentsCoverChildren == part = "chunking" => Chu!ParentsCoverChildren
NormalizingIsStable == part = "chunking" => Chu!NormalizingIsStable
OneVersionPerAnswer == part = "search" => Hyb!OneVersionPerAnswer
AnswersInOrder == part = "search" => Hyb!AnswersInOrder
==================================================================================
