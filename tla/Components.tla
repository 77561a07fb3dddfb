------------------------------- MODULE Components -------------------------------
(***************************************************************************)
(* ConfigManager: the components of a process, the configuration each was  *)
(* built from, the reload that rebuilds and drops them while requests ask  *)
(* for them, and the agent tools that are registered from them.            *)
(*                                                                         *)
(* The settings are grouped by the sets of fields reload tells apart; a    *)
(* group has a version.  The ten PostgreSQL stores, which one branch       *)
(* rebuilds from the same field, are one component, and so are the four    *)
(* file components of the uploads.  A service that holds another component *)
(* holds what that was built from.                                         *)
(***************************************************************************)
EXTENDS Naturals, Sequences

CONSTANTS Admins,      \* requests that save the configuration
          Askers,      \* requests that need a service
          Wanted,      \* the services they may need first
          Changes,     \* sets of groups that one edit of the settings changes
          MaxEdits,    \* bound: edits of the settings
          None,
          Tools        \* the agent tools, as a sequence of the services they need

VARIABLES
  edits,    \* how often the settings were edited
  env,      \* the .env file: group -> version
  config,   \* the configuration in memory
  built,    \* component -> the versions of each group its instance holds, None: no instance
  lost,     \* history: groups whose last reload did not succeed, or was undone
  lock,     \* the thread that holds the component lock over several steps
  tools,    \* the tools that are registered
  job       \* where a request is

vars == <<edits, env, config, built, lost, lock, tools, job>>

Groups == {"pg", "broker", "upload", "qdrant", "size", "embedding", "llm", "extraction",
           "judge", "rerank", "web", "rrf", "chunk", "gate"}
Eager == {"stores", "session_store", "redis_state", "files", "vector_index", "llm_client",
          "extraction_client", "judge_client", "embedding_client", "rerank_client", "chunking"}

Lazy == {"intel", "insight", "competitor", "report", "hybrid", "web", "registry", "factory",
         "query", "memory", "ingestion"}
Callers == Admins \cup Askers

(* The fields a create function of the factory reads.                      *)
Reads(c) ==
  CASE c = "stores" -> {"pg"}                  [] c = "session_store" -> {"pg", "broker"}
    [] c = "redis_state" -> {"broker"}         [] c = "files" -> {"upload"}
    [] c = "vector_index" -> {"qdrant", "size"} [] c = "llm_client" -> {"llm"}
    [] c = "extraction_client" -> {"extraction"} [] c = "judge_client" -> {"judge"}
    [] c = "embedding_client" -> {"embedding", "size"} [] c = "rerank_client" -> {"rerank"}
    [] c = "chunking" -> {"chunk"}             [] c = "report" -> {"gate", "judge"}
    [] c = "hybrid" -> {"rrf"}                 [] c = "web" -> {"web"}
    [] OTHER -> {}

(* The components a create function takes from the manager.                *)
Holds(c) ==
  CASE c = "hybrid" -> {"stores", "vector_index", "embedding_client"}
    [] c = "intel" -> {"stores", "extraction_client", "redis_state"}
    [] c \in {"competitor", "insight"} -> {"stores"}
    [] c = "report" -> {"stores", "judge_client", "llm_client", "intel", "insight"}
    [] c = "registry" -> {"intel", "insight", "competitor", "report", "hybrid", "web"}
    [] c = "factory" -> {"registry"}
    [] c = "query" -> {"stores", "vector_index", "llm_client", "embedding_client", "session_store"}
    [] c = "memory" -> {"stores", "session_store", "llm_client"}
    [] c = "ingestion" -> {"stores", "files", "chunking", "embedding_client", "vector_index",
                           "redis_state"}
    [] OTHER -> {}

(* The getters that run when c is built.                                   *)
Needs(c) ==
  CASE c = "report" -> {"intel", "insight"}
    [] c = "registry" -> Holds("registry")
    [] c = "factory" -> Holds("registry") \cup {"registry"}
    [] OTHER -> {}

Made(b, cfg, c) == [g \in Groups |->
  (IF g \in Reads(c) THEN {cfg[g]} ELSE {}) \cup UNION {b[d][g] : d \in {e \in Holds(c) : b[e] # None}}]

(* The hybrid search and the ingestion raise without an embedding client;  *)
(* the registry has asked for four services by then.                       *)
Raises(b, c) == b["embedding_client"] = None /\ c \in {"hybrid", "registry", "factory", "ingestion"}

(* What building c leaves in the manager: first the services that need no  *)
(* other getter, then those that do.                                       *)
Fill(S, b, cfg) == [s \in DOMAIN b |-> IF s \in S /\ b[s] = None THEN Made(b, cfg, s) ELSE b[s]]
Build(b, cfg, c) ==
  LET unreached == IF Raises(b, c) THEN {"hybrid", "web", "registry", "factory", "ingestion"} ELSE {}
      wanted == (Needs(c) \cup {c}) \ unreached
      first == Fill(wanted \cap (Lazy \ {"report", "registry", "factory"}), b, cfg)
      second == Fill(wanted \cap {"report"}, first, cfg)
      third == Fill(wanted \cap {"registry"}, second, cfg)
  IN  Fill(wanted \cap {"factory"}, third, cfg)

Clients == {"llm_client", "extraction_client", "judge_client", "embedding_client", "rerank_client"}
Idle == [at |-> "idle", want |-> None, refresh |-> FALSE, changed |-> {}, new |-> None, left |-> <<>>]

(* _rebuild_all: a client that cannot be created is None.  The tools are   *)
(* registered if their factory can be built.                               *)
Init ==
  /\ edits = 0
  /\ env = [g \in Groups |-> 0] /\ config = env
  /\ \E bad \in {{}, {"llm_client"}, {"embedding_client"}} :
       LET made == [c \in Eager \cup Lazy |->
                      IF c \in Lazy \cup bad THEN None ELSE Made([d \in {} |-> None], config, c)]
       IN  built = Build(made, config, "factory")
  /\ lost = {}
  /\ lock = None
  /\ tools = IF built["factory"] = None THEN {} ELSE {Tools[i] : i \in 1 .. Len(Tools)}
  /\ job = [t \in Callers |-> Idle]

-----------------------------------------------------------------------------
(* PUT /api/config writes the file; it may also be edited by hand before   *)
(* POST /api/config/reload.                                                *)
Save(a) ==
  /\ job[a].at = "idle"
  /\ \E D \in Changes :
       /\ edits < MaxEdits /\ edits' = edits + 1
       /\ env' = [g \in Groups |-> IF g \in D THEN env[g] + 1 ELSE env[g]]
  /\ job' = [job EXCEPT ![a].at = "saved"]
  /\ UNCHANGED <<config, built, lost, lock, tools>>

(* reload: the difference between the file and the configuration ...       *)
Compare(a) ==
  /\ job[a].at = "saved"
  /\ job' = [job EXCEPT ![a] = IF env = config THEN Idle ELSE
       [@ EXCEPT !.at = "compared", !.new = env, !.changed = {g \in Groups : env[g] # config[g]}]]
  /\ UNCHANGED <<edits, env, config, built, lost, lock, tools>>

(* ... the configuration, set before the lock is taken.  Of two reloads    *)
(* at once one may set back what the other has set, and does not know ...  *)
SetConfig(a) ==
  /\ job[a].at = "compared"
  /\ config' = job[a].new
  /\ lost' = lost \cup {g \in Groups \ job[a].changed : job[a].new[g] # config[g]}
  /\ job' = [job EXCEPT ![a].at = "set", ![a].new = None]
  /\ UNCHANGED <<edits, env, built, lock, tools>>

(* The groups for which reload rebuilds a component.                       *)
RebuiltOn(c) ==
  CASE c = "stores" -> {"pg"}                    [] c = "session_store" -> {"pg", "broker"}
    [] c = "redis_state" -> {"broker"}           [] c = "files" -> {"upload"}
    [] c = "vector_index" -> {"qdrant", "size"}  [] c = "llm_client" -> {"llm"}
    [] c = "extraction_client" -> {"extraction"} [] c = "judge_client" -> {"judge"}
    [] c = "embedding_client" -> {"embedding", "size"} [] c = "rerank_client" -> {"rerank"}
    [] OTHER -> {}

(* Variant: the embedding client is not among them.                        *)
DocumentNarrow == {"pg", "size", "qdrant"}

(* The groups for which it drops a service.                                *)
Document == {"pg", "embedding", "size", "qdrant"}

DroppedOn(c) ==
  CASE c = "hybrid" -> Document \cup {"rrf"}
    [] c \in {"competitor", "insight", "query", "memory"} -> Document \cup {"llm"}
    [] c = "intel" -> Document \cup {"llm", "broker", "extraction"}
    [] c = "report" -> Document \cup {"llm", "judge"}
    [] c = "web" -> {"web"}
    [] c \in {"registry", "factory"} ->
         Document \cup {"llm", "broker", "extraction", "judge", "rrf", "web"}
    [] c = "ingestion" -> Document \cup {"llm", "upload"}
    [] OTHER -> {}

(* ... and the components, under the lock.  A client that cannot be made   *)
(* keeps the old instance, the extraction and the judge become None and    *)
(* drop nothing.                                                           *)
Rebuild(a) ==
  /\ job[a].at = "set" /\ lock = None
  /\ \E bad \in SUBSET {c \in Clients : RebuiltOn(c) \cap job[a].changed # {}} :
       LET D == job[a].changed
           followed == D \ ((IF "extraction_client" \in bad THEN {"extraction"} ELSE {}) \cup
                            (IF "judge_client" \in bad THEN {"judge"} ELSE {}))
       IN  /\ built' = [c \in DOMAIN built |->
                CASE c \in bad \cap {"extraction_client", "judge_client"} -> None
                  [] c \in Eager \ bad /\ RebuiltOn(c) \cap D # {} -> Made(built, config, c)
                  [] c \in Lazy /\ DroppedOn(c) \cap followed # {} -> None
                  [] OTHER -> built[c]]
           /\ lost' = (lost \ D) \cup UNION {RebuiltOn(c) \cap D : c \in bad}
  /\ job' = [job EXCEPT ![a].at = "check", ![a].want = "factory", ![a].refresh = TRUE]
  /\ UNCHANGED <<edits, env, config, lock, tools>>

(* Qdrant does not answer: ensure_collection raises, and what reload does  *)
(* after the stores, the sessions, Redis and the files is not done.        *)
RebuildAborts(a) ==
  LET D == job[a].changed
      dropped == (IF "pg" \in D THEN {"competitor", "intel", "insight", "report", "registry", "factory"}
                  ELSE {}) \cup (IF "broker" \in D THEN {"intel", "registry", "factory"} ELSE {})
  IN /\ job[a].at = "set" /\ lock = None
     /\ RebuiltOn("vector_index") \cap D # {}
     /\ built' = [c \in DOMAIN built |->
          CASE c \in {"stores", "session_store", "redis_state", "files"}
                 /\ RebuiltOn(c) \cap D # {} -> Made(built, config, c)
            [] c \in dropped -> None
            [] OTHER -> built[c]]
     /\ lost' = lost \cup D
     /\ job' = [job EXCEPT ![a] = Idle]
     /\ UNCHANGED <<edits, env, config, lock, tools>>

-----------------------------------------------------------------------------
(* A request needs a service.                                              *)
Ask(q) ==
  /\ job[q].at = "idle"
  /\ \E c \in Wanted : job' = [job EXCEPT ![q].at = "check", ![q].want = c]
  /\ UNCHANGED <<edits, env, config, built, lost, lock, tools>>

(* A getter looks without the lock ...                                     *)
Check(t) ==
  /\ job[t].at = "check"
  /\ job' = [job EXCEPT ![t].at = IF built[job[t].want] = None THEN "build" ELSE "take"]
  /\ UNCHANGED <<edits, env, config, built, lost, lock, tools>>

(* ... again under it, and builds what is missing ...                      *)
BuildMissing(t) ==
  /\ job[t].at = "build" /\ lock = None /\ job[t].want # "query"
  /\ LET c == job[t].want IN
       /\ built' = Build(built, config, c)
       /\ job' = [job EXCEPT ![t] = IF built[c] = None /\ Raises(built, c) THEN Idle
                                    ELSE [@ EXCEPT !.at = "take"]]
  /\ UNCHANGED <<edits, env, config, lost, lock, tools>>

(* ... the query service after a bootstrap of the tools, with the lock held*)
BuildQuery(t) ==
  /\ job[t].at = "build" /\ lock = None /\ job[t].want = "query"
  /\ IF built["query"] # None
       THEN job' = [job EXCEPT ![t].at = "take"] /\ UNCHANGED <<built, lock>>
       ELSE /\ built' = Build(built, config, "factory")
            /\ lock' = t
            /\ job' = [job EXCEPT ![t].at = "register",
                                  ![t].left = IF built'["factory"] = None THEN <<>> ELSE Tools]
  /\ UNCHANGED <<edits, env, config, lost, tools>>

FinishQuery(t) ==
  /\ lock = t /\ job[t].left = <<>>
  /\ built' = Build(built, config, "query")
  /\ lock' = None
  /\ job' = [job EXCEPT ![t].at = "take"]
  /\ UNCHANGED <<edits, env, config, lost, tools>>

(* ... and reads the attribute again, without the lock: a reload may have  *)
(* dropped it, and the request fails.  A question then bootstraps the tools*)
TakeService(t) ==
  /\ job[t].at = "take" /\ job[t].want # "factory"
  /\ job' = [job EXCEPT ![t] = IF @.want = "query" /\ built["query"] # None
                               THEN [@ EXCEPT !.at = "check", !.want = "factory"] ELSE Idle]
  /\ UNCHANGED <<edits, env, config, built, lost, lock, tools>>

(* register_builtin_tools: without a factory it makes one from the registry*)
TakeFactory(t) ==
  /\ job[t].at = "take" /\ job[t].want = "factory"
  /\ built["factory"] = None => lock = None
  /\ built' = IF built["factory"] = None THEN Build(built, config, "registry") ELSE built
  /\ job' = [job EXCEPT ![t] =
       IF built["factory"] = None /\ built'["registry"] = None THEN Idle
       ELSE [@ EXCEPT !.at = IF job[t].refresh THEN "unregister" ELSE "register", !.left = Tools]]
  /\ UNCHANGED <<edits, env, config, lost, lock, tools>>

Unregister(t) ==
  /\ job[t].at = "unregister"
  /\ tools' = tools \ {Head(job[t].left)}
  /\ job' = [job EXCEPT ![t] = IF Len(@.left) = 1
       THEN [@ EXCEPT !.at = "register", !.left = Tools] ELSE [@ EXCEPT !.left = Tail(job[t].left)]]
  /\ UNCHANGED <<edits, env, config, built, lost, lock>>

(* A tool that is registered already is passed over; after the last one    *)
(* the request is done, unless it is in the middle of building a service.  *)
After(t, left) ==
  job' = [job EXCEPT ![t] = IF left = <<>> /\ lock # t THEN Idle ELSE [@ EXCEPT !.left = left]]

(* Variant: the registration ends at the first tool it finds registered.   *)
RegisterUntilFound(t) ==
  /\ job[t].at = "register" /\ job[t].left # <<>>
  /\ tools' = tools \cup {Head(job[t].left)}
  /\ After(t, IF Head(job[t].left) \in tools THEN <<>> ELSE Tail(job[t].left))
  /\ UNCHANGED <<edits, env, config, built, lost, lock>>

Register(t) ==
  /\ job[t].at = "register" /\ job[t].left # <<>>
  /\ tools' = tools \cup {Head(job[t].left)}
  /\ After(t, Tail(job[t].left))
  /\ UNCHANGED <<edits, env, config, built, lost, lock>>

Next ==
  \/ \E a \in Admins : Save(a) \/ Compare(a) \/ SetConfig(a) \/ Rebuild(a) \/ RebuildAborts(a)
  \/ \E q \in Askers : Ask(q)
  \/ \E t \in Callers : Check(t) \/ BuildMissing(t) \/ BuildQuery(t) \/ FinishQuery(t)
                            \/ TakeService(t) \/ TakeFactory(t) \/ Unregister(t) \/ Register(t)
Spec == Init /\ [][Next]_vars

-----------------------------------------------------------------------------
TypeOK ==
  /\ edits \in 0 .. MaxEdits
  /\ env \in [Groups -> 0 .. MaxEdits] /\ config \in [Groups -> 0 .. MaxEdits]
  /\ \A c \in Eager \cup Lazy : built[c] # None => built[c] \in [Groups -> SUBSET (0 .. MaxEdits)]
  /\ lost \subseteq Groups
  /\ lock \in Callers \cup {None}
  /\ tools \subseteq {Tools[i] : i \in 1 .. Len(Tools)}
  /\ \A t \in Callers : job[t].left # <<>> => job[t].at \in {"unregister", "register"}

(* The groups reload follows to every component that holds them.  The      *)
(* others it follows only in part: a new broker leaves the session store   *)
(* of the question service, a new extraction model the facts of the report *)
(* service, and chunking and the gate of the reports are never rebuilt.    *)
Followed == Groups \ {"broker", "extraction", "chunk", "gate"}

(* Once a reload is done, no component holds anything that was built from  *)
(* an earlier value of those settings, directly or through what it holds,  *)
(* although services are built while reload runs (reload, the getters).    *)
(* Only what another reload, at the same time, has set back is not         *)
(* rebuilt: neither of the two finds it changed.                           *)
ReloadReachesEveryHolder ==
  (\A a \in Admins : job[a].at # "set") =>
    \A c \in {d \in Eager \cup Lazy : built[d] # None} :
      \A g \in Followed \ lost : built[c][g] \subseteq {config[g]}

(* When nothing is under way every tool is registered, although requests   *)
(* register missing tools while a reload takes them away.                  *)
ToolsComeBack ==
  (built["embedding_client"] # None /\ \A t \in Callers : job[t].at = "idle") =>
    tools = {Tools[i] : i \in 1 .. Len(Tools)}

(* Inductive form: what a component may have been built from, directly or  *)
(* through what it holds; and that it was built from the configuration as  *)
(* it is, but for groups that were lost or that a reload will get to.      *)
Carries(c) ==
  CASE c = "hybrid" -> {"pg", "qdrant", "size", "embedding", "rrf"}
    [] c = "intel" -> {"pg", "extraction", "broker"}
    [] c \in {"competitor", "insight"} -> {"pg"}
    [] c = "report" -> {"pg", "judge", "llm", "extraction", "broker", "gate"}
    [] c \in {"registry", "factory"} -> Groups \ {"upload", "chunk", "rerank"}
    [] c = "query" -> {"pg", "qdrant", "size", "embedding", "llm", "broker"}
    [] c = "memory" -> {"pg", "broker", "llm"}
    [] c = "ingestion" -> {"pg", "upload", "chunk", "embedding", "size", "qdrant", "broker"}
    [] OTHER -> Reads(c)
Awaits(a, g) == job[a].at = "set" /\ g \in job[a].changed
Settled == {g \in Followed \ lost : ~\E a \in Admins : Awaits(a, g)}
BuiltOK(b, cfg, G) == \A c \in Eager \cup Lazy : b[c] # None =>
  /\ b[c] \in [Groups -> SUBSET Nat]
  /\ \A g \in Groups : b[c][g] # {} => g \in Carries(c) /\ (g \in G => b[c][g] = {cfg[g]})

(* ... and a tool that is not registered will be, by a request that has    *)
(* unregistered the tools or is about to, or that registers it.            *)
Known == {Tools[i] : i \in 1 .. Len(Tools)}
Returns(j, x) ==
  \/ j.refresh /\ j.want = "factory" /\ j.at \in {"check", "build", "take"}
  \/ j.at = "unregister"
  \/ j.at = "register" /\ \E i \in 1 .. Len(j.left) : j.left[i] = x
JobOK(j) ==
  /\ j = [at |-> j.at, want |-> j.want, refresh |-> j.refresh, changed |-> j.changed, new |-> j.new, left |-> j.left]
  /\ j.at = "compared" => j.new \in [Groups -> Nat]
  /\ j.left \in Seq(Known) /\ (j.at = "unregister" => j.left # <<>>)
IInv ==
  /\ env \in [Groups -> Nat] /\ config \in [Groups -> Nat]
  /\ DOMAIN built = Eager \cup Lazy /\ BuiltOK(built, config, Settled)
  /\ tools \subseteq Known
  /\ built["embedding_client"] # None => \A x \in Known \ tools : \E t \in Callers : Returns(job[t], x)
  /\ job = [t \in Callers |-> job[t]]
  /\ \A t \in Callers : JobOK(job[t]) /\ (lock = t => job[t].at = "register")
(* Inductive form of the types: a version of a group is no later than the  *)
(* last edit, and only a request that registers the tools has some left.   *)
VersionsOf(b, V) == \A c \in Eager \cup Lazy : b[c] # None => b[c] \in [Groups -> SUBSET V]
StepOK(j) ==
  /\ j.changed \subseteq Groups
  /\ j.at = "compared" => j.new \in [Groups -> 0 .. MaxEdits]
  /\ j.left # <<>> => j.at \in {"unregister", "register"}
ITypeOK ==
  /\ edits \in 0 .. MaxEdits
  /\ env \in [Groups -> 0 .. edits] /\ config \in [Groups -> 0 .. MaxEdits]
  /\ VersionsOf(built, 0 .. MaxEdits)
  /\ lost \subseteq Groups /\ lock \in Callers \cup {None}
  /\ \A t \in Callers : StepOK(job[t])
=================================================================================
