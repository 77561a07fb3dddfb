-------------------------------- MODULE Assistant --------------------------------
(***************************************************************************)
(* The parts around the assistant and its upkeep.  They share no state:    *)
(* the first state chooses which of them moves, and the variables of the   *)
(* others are None, those of Webhooks what they are at first.              *)
(***************************************************************************)
EXTENDS Webhooks, Sequences

CONSTANTS
  Parts, None,
  Admins, Askers, Wanted, Changes, MaxEdits, Tools,               \* Components
  MaxSteps, MaxText,                                              \* AgentLoop
  MaxSessionRequests, MaxFaults,                                  \* Sessions
  Contents, MaxMemories, MaxRevisions,                            \* Memory
  LastFile, Published, Silent, Expand, Batches, BareVersions, MaxStarts, MaxDrafts,  \* Rebuild
  OfferedPieces, Extracted, Stated, MaxPosts, MaxFacts, MaxEvidence,    \* Facts
  Names, Aliases, FactNames, FactTexts, MaxCompetitors, MaxProducts, MaxClaims,   \* Competitors
  Domains, Parents, BareDomains,                                  \* SourceProfiles
  Offers                                                          \* WebSearch

VARIABLES
  part,
  edits, env, config, built, lost, lock, tools, job,                   \* Components
  streams, at, step, text, offset, deltas, early, calls, answer,       \* AgentLoop
  row, cache, linked, files, saves, task, requests, faults,          \* Sessions
  memories, core, ask, revise,                            \* Memory
  schema, ledger, drifted, drafts, progress, command, starts,          \* Rebuild
  facts, evidence, work, weighed, posts,                               \* Facts
  competitors, products, links, productLinks, claims, linking, texts, stated, byName, puts,  \* Competitors
  profile, revisions, filing, filings,                                 \* SourceProfiles
  waiting, raw, kept, raised                                           \* WebSearch

components == <<edits, env, config, built, lost, lock, tools, job>>
loop       == <<streams, at, step, text, offset, deltas, early, calls, answer>>
sessions   == <<row, cache, linked, files, saves, task, requests, faults>>
memory     == <<memories, core, ask, revise>>
rebuild    == <<schema, ledger, drifted, drafts, progress, command, starts>>
fact       == <<facts, evidence, work, weighed, posts>>
registry   == <<competitors, products, links, productLinks, claims, linking, texts, stated, byName, puts>>
profiles   == <<profile, revisions, filing, filings>>
search     == <<waiting, raw, kept, raised>>
parts == <<part, components, loop, sessions, memory, vars, rebuild, fact, registry, profiles, search>>

Com == INSTANCE Components
Age == INSTANCE AgentLoop
Ses == INSTANCE Sessions WITH job <- task, MaxRequests <- MaxSessionRequests
Mem == INSTANCE Memory
Reb == INSTANCE Rebuild WITH Commands <- Threads, Last <- LastFile, Bare <- BareVersions
Fac == INSTANCE Facts WITH Offered <- OfferedPieces, requests <- posts, MaxRequests <- MaxPosts
Cmp == INSTANCE Competitors WITH Facts <- FactNames, Texts <- FactTexts, work <- linking, requests <- puts, MaxRequests <- MaxPosts
Pro == INSTANCE SourceProfiles WITH job <- filing, requests <- filings, Bare <- BareDomains
Search == INSTANCE WebSearch

(* The parts there are.                                                    *)
ASSUME PartsAssumption ==
  Parts \subseteq {"components", "loop", "sessions", "memory", "webhooks", "rebuild", "facts",
                   "competitors", "profiles", "search"}

(* The migrations the commands know of are among the migrations, and no    *)
(* batch of a rebuild is empty.                                            *)
ASSUME RebuildAssumption ==
  /\ LastFile \in Nat /\ Published \in 0 .. LastFile /\ MaxStarts \in Nat /\ MaxDrafts \in Nat
  /\ Len(Batches) \in Nat \ {0}
  /\ \A b \in 1 .. Len(Batches) : Len(Batches[b]) \in Nat \ {0}

(* Of the last migration before the ledger something is looked for.        *)
ASSUME SentinelsAssumption == Published \notin Silent

(* None stands for no answer and no report, which are numbered.            *)
ASSUME SessionsAssumption ==
  MaxSessionRequests \in Nat /\ MaxFaults \in Nat /\ None \notin Nat

(* A run has a step.                                                       *)
ASSUME LoopAssumption == MaxSteps \in Nat \ {0} /\ MaxText \in Nat

(* Engines offer lists of results, whose scores and lengths are numbers;   *)
(* one engine needs no key.                                                *)
ASSUME SearchAssumption ==
  /\ "duckduckgo" \in DOMAIN Offers
  /\ \A e \in DOMAIN Offers : Offers[e] \subseteq Seq(Search!Results)
  /\ \A r \in Search!Results : r.score \in Nat \cup {None} /\ r.snippet \in Nat \cup {None}

(* None is no request, and nothing a component can be built from.          *)
ASSUME ComponentsAssumption ==
  /\ Len(Tools) \in Nat \ {0} /\ Tools = [i \in 1 .. Len(Tools) |-> Tools[i]]
  /\ None \notin Com!Callers /\ None \notin [Com!Groups -> SUBSET Nat]

(* What a request may state is a verification.                             *)
ASSUME FactsAssumption == Stated \subseteq Fac!Verifications

(* The bounds of the model are numbers.                                    *)
ASSUME BoundsAssumption ==
  {MaxRevisions, MaxFacts, MaxPosts, MaxCompetitors, MaxEdits} \subseteq Nat

(* A domain has a list of parents.                                         *)
ASSUME ProfilesAssumption == Parents \in [Domains -> Seq(Domains)]

-----------------------------------------------------------------------------
NoComponents == edits = None /\ env = None /\ config = None /\ built = None /\ lost = None
  /\ lock = None /\ tools = None /\ job = None
NoLoop == streams = None /\ at = None /\ step = None /\ text = None /\ offset = None
  /\ deltas = None /\ early = None /\ calls = None /\ answer = None
NoSessions == row = None /\ cache = None /\ linked = None /\ files = None /\ saves = None
  /\ task = None /\ requests = None /\ faults = None
NoMemory == memories = None /\ core = None /\ ask = None /\ revise = None
NoRebuild == schema = None /\ ledger = None /\ drifted = None /\ drafts = None
  /\ progress = None /\ command = None /\ starts = None
NoFact == facts = None /\ evidence = None /\ work = None /\ weighed = None /\ posts = None
NoRegistry == competitors = None /\ products = None /\ links = None /\ productLinks = None
  /\ claims = None /\ linking = None /\ texts = None /\ stated = None /\ byName = None /\ puts = None
NoProfiles == profile = None /\ revisions = None /\ filing = None /\ filings = None
NoSearch == waiting = None /\ raw = None /\ kept = None /\ raised = None

InitPart ==
  /\ part \in Parts
  /\ Init
  /\ IF part = "components" THEN Com!Init ELSE NoComponents
  /\ IF part = "loop" THEN Age!Init ELSE NoLoop
  /\ IF part = "sessions" THEN Ses!Init ELSE NoSessions
  /\ IF part = "memory" THEN Mem!Init ELSE NoMemory
  /\ IF part = "rebuild" THEN Reb!Init ELSE NoRebuild
  /\ IF part = "facts" THEN Fac!Init ELSE NoFact
  /\ IF part = "competitors" THEN Cmp!Init ELSE NoRegistry
  /\ IF part = "profiles" THEN Pro!Init ELSE NoProfiles
  /\ IF part = "search" THEN Search!Init ELSE NoSearch

NextPart ==
  \/ part = "components" /\ Com!Next
       /\ UNCHANGED <<part, loop, sessions, memory, vars, rebuild, fact, registry, profiles, search>>
  \/ part = "loop" /\ Age!Next
       /\ UNCHANGED <<part, components, sessions, memory, vars, rebuild, fact, registry, profiles, search>>
  \/ part = "sessions" /\ Ses!Next
       /\ UNCHANGED <<part, components, loop, memory, vars, rebuild, fact, registry, profiles, search>>
  \/ part = "memory" /\ Mem!Next
       /\ UNCHANGED <<part, components, loop, sessions, vars, rebuild, fact, registry, profiles, search>>
  \/ part = "webhooks" /\ Next
       /\ UNCHANGED <<part, components, loop, sessions, memory, rebuild, fact, registry, profiles, search>>
  \/ part = "rebuild" /\ Reb!Next
       /\ UNCHANGED <<part, components, loop, sessions, memory, vars, fact, registry, profiles, search>>
  \/ part = "facts" /\ Fac!Next
       /\ UNCHANGED <<part, components, loop, sessions, memory, vars, rebuild, registry, profiles, search>>
  \/ part = "competitors" /\ Cmp!Next
       /\ UNCHANGED <<part, components, loop, sessions, memory, vars, rebuild, fact, profiles, search>>
  \/ part = "profiles" /\ Pro!Next
       /\ UNCHANGED <<part, components, loop, sessions, memory, vars, rebuild, fact, registry, search>>
  \/ part = "search" /\ Search!Next
       /\ UNCHANGED <<part, components, loop, sessions, memory, vars, rebuild, fact, registry, profiles>>
SpecPart == InitPart /\ [][NextPart]_parts

-----------------------------------------------------------------------------
(* The part that moves keeps to its types.                                 *)
PartsTypeOK ==
  CASE part = "components" -> Com!TypeOK
    [] part = "loop"       -> Age!TypeOK
    [] part = "sessions"   -> Ses!TypeOK
    [] part = "memory"     -> Mem!TypeOK
    [] part = "webhooks"   -> TypeOK
    [] part = "rebuild"    -> Reb!TypeOK
    [] part = "facts"      -> Fac!TypeOK
    [] part = "competitors" -> Cmp!TypeOK
    [] part = "profiles" -> Pro!TypeOK
    [] part = "search"   -> Search!TypeOK

(* What each part promises, see its module.                                *)
ReloadReachesEveryHolder == part = "components" => Com!ReloadReachesEveryHolder
ToolsComeBack == part = "components" => Com!ToolsComeBack
StreamedIsAnswered == part = "loop" => Age!StreamedIsAnswered
CompletedHasReport == part = "sessions" => Ses!CompletedHasReport
RevisionIsServed == part = "memory" => Mem!RevisionIsServed
EvidenceIsWeighed == part = "facts" => Fac!EvidenceIsWeighed
LinkedByNameStaysNamed == part = "competitors" => Cmp!LinkedByNameStaysNamed
TierHasRevision == part = "profiles" => Pro!TierHasRevision
BestIsKept == part = "search" => Search!BestIsKept
RecordedIsDone == part = "rebuild" => Reb!RecordedIsDone
==================================================================================
