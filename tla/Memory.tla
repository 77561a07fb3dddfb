---------------------------------- MODULE Memory ----------------------------------
(***************************************************************************)
(* What the assistant remembers: the persistent memories that a question   *)
(* suggests and an analyst confirms, and the revisions of a core memory,   *)
(* and the prompt of a question that both are put into (MemoryService,     *)
(* MemoryStore, the /api/memory routes).                                   *)
(*                                                                         *)
(* A call of the store is one transaction (READ COMMITTED): psycopg2 begins *)
(* and ends one with the block of the connection, also of a connection set *)
(* to autocommit.  The calls of two requests interleave, and so do the     *)
(* statements of two revisions, each of which has three.                   *)
(***************************************************************************)
EXTENDS Naturals, Sequences, FiniteSetsExt

CONSTANTS Threads,       \* request threads
          Contents,      \* what a memory may say; two of the same are duplicates
          MaxMemories,   \* bound: persistent memories; at most 3, the smallest limit of a selection
          MaxRevisions   \* bound: revisions of the core memory

VARIABLES
  memories,   \* persistent_memories: content and status, in order of creation
  core,       \* core_memory_revisions of one kind, in order of commit
  ask,        \* a question: where it is, its prompt, the duplicates it checks
  revise      \* a new revision: where its transaction is, and what it has seen

vars == <<memories, core, ask, revise>>

Statuses == {"pending", "active", "archived", "deleted"}
Stored == 1 .. Len(memories)
With(statuses) == {m \in Stored : memories[m].status \in statuses}
Served == {r \in 1 .. Len(core) : core[r].active}

NoAsk == [at |-> "idle", persistent |-> {}, suggests |-> {}, known |-> {}]
NoRevision == [at |-> "idle", version |-> 0, after |-> 0, rows |-> {}]

Init ==
  /\ memories = <<>> /\ core = <<>>
  /\ ask = [t \in Threads |-> NoAsk]
  /\ revise = [t \in Threads |-> NoRevision]

(* A request thread does one thing at a time.                              *)
Free(t) == ask[t].at = "idle" /\ revise[t].at = "idle"
OnlyAsk == UNCHANGED <<memories, core, revise>>
OnlyMemories == UNCHANGED <<core, ask, revise>>
OnlyRevise == UNCHANGED <<memories, ask>>

-----------------------------------------------------------------------------
(* create_persistent_memory.                                               *)
Insert(c) ==
  /\ Len(memories) < MaxMemories
  /\ memories' = Append(memories, [content |-> c, status |-> "pending"])

(* POST /persistent: as a candidate, and without a look for duplicates.    *)
Create(t) == Free(t) /\ (\E c \in Contents : Insert(c)) /\ OnlyMemories

(* update_persistent_memory_status.                                        *)
WithStatus(m, s) == [memories EXCEPT ![m].status = s]

(* PUT /persistent/{id}/status and DELETE: from any status to any other;   *)
(* a deleted memory keeps its row.                                         *)
SetStatus(t) ==
  /\ Free(t)
  /\ \E m \in Stored : \E s \in Statuses \ {memories[m].status} :
       memories' = WithStatus(m, s)
  /\ OnlyMemories

(* build_memory_context: the core memories, the index and the memories     *)
(* chosen by the words of the question are three reads; the core memories  *)
(* are those that are Served now and are not kept.  If no word is found    *)
(* the first memories are taken.                                           *)
ReadCore(t) ==
  /\ Free(t)
  /\ ask' = [ask EXCEPT ![t] = [NoAsk EXCEPT !.at = "index"]]
  /\ OnlyAsk

ReadIndex(t) ==
  /\ ask[t].at = "index"
  /\ ask' = [ask EXCEPT ![t].at = "select", ![t].persistent = With({"active"})]
  /\ OnlyAsk

Select(t) ==
  /\ ask[t].at = "select"
  /\ \E chosen \in SUBSET With({"active"}) :
       /\ chosen = {} => With({"active"}) = {}
       /\ ask' = [ask EXCEPT ![t].at = "answer", ![t].persistent = @ \cup chosen]
  /\ OnlyAsk

(* The model's answer, or none, and then what it suggests to remember; of  *)
(* up to three suggestions, which are taken one after another, one.        *)
Answer(t) ==
  /\ ask[t].at = "answer"
  /\ \/ ask' = [ask EXCEPT ![t] = NoAsk]
     \/ \E c \in Contents : ask' = [ask EXCEPT ![t].at = "pending", ![t].suggests = {c}]
  /\ OnlyAsk

(* _is_duplicate_candidate: the candidates are read, then what is active.  *)
ReadPending(t) ==
  /\ ask[t].at = "pending"
  /\ ask' = [ask EXCEPT ![t].at = "active", ![t].known = {memories[m].content : m \in With({"pending"})}]
  /\ OnlyAsk

ReadActive(t) ==
  /\ ask[t].at = "active"
  /\ LET known == ask[t].known \cup {memories[m].content : m \in With({"active"})}
     IN  ask' = [ask EXCEPT ![t] = IF @.suggests \subseteq known THEN NoAsk
                                   ELSE [@ EXCEPT !.at = "insert", !.known = known]]
  /\ OnlyAsk

Suggest(t) ==
  /\ ask[t].at = "insert"
  /\ \E c \in ask[t].suggests : Insert(c)
  /\ ask' = [ask EXCEPT ![t] = NoAsk]
  /\ UNCHANGED <<core, revise>>

-----------------------------------------------------------------------------
(* create_core_memory_revision.  The SELECT numbers the revision; a row    *)
(* remembers (after) how many revisions were there by then.                *)
Versions == {0} \cup {core[r].version : r \in 1 .. Len(core)}
NextVersion == 1 + Max(Versions)

Number(t) ==
  /\ Free(t) /\ Len(core) < MaxRevisions
  /\ revise' = [revise EXCEPT ![t] = [at |-> "update", version |-> NextVersion, after |-> Len(core), rows |-> {}]]
  /\ UNCHANGED core /\ OnlyRevise

(* Variant: of the revisions only the one made last is deactivated.        *)
FindLast(t) ==
  /\ revise[t].at = "update"
  /\ revise' = [revise EXCEPT ![t] = [@ EXCEPT !.at = "locks", !.rows = {Len(core)} \ {0}]]
  /\ UNCHANGED core /\ OnlyRevise

(* The UPDATE is of the rows that are committed when it starts: a revision *)
(* that another transaction has inserted is not among them.                *)
Find(t) ==
  /\ revise[t].at = "update"
  /\ revise' = [revise EXCEPT ![t] = [@ EXCEPT !.at = "locks", !.rows = 1 .. Len(core)]]
  /\ UNCHANGED core /\ OnlyRevise

(* It waits for the end of a transaction that has updated one of them.     *)
Deactivate(t) ==
  /\ revise[t].at = "locks"
  /\ \A u \in Threads : revise[u].at = "insert" => revise[u].rows \cap revise[t].rows = {}
  /\ revise' = [revise EXCEPT ![t].at = "insert"]
  /\ UNCHANGED core /\ OnlyRevise

(* The INSERT and the commit, with which both statements take effect.      *)
Activate(t) ==
  LET old == [r \in 1 .. Len(core) |-> [core[r] EXCEPT !.active = @ /\ r \notin revise[t].rows]]
  IN  /\ revise[t].at = "insert"
      /\ core' = Append(old, [version |-> revise[t].version, active |-> TRUE, after |-> revise[t].after])
      /\ revise' = [revise EXCEPT ![t] = NoRevision]
      /\ OnlyRevise

(* A statement fails, the connection is lost or the process ends: nothing  *)
(* of the transaction stays.                                               *)
Break(t) ==
  /\ revise[t].at # "idle"
  /\ revise' = [revise EXCEPT ![t] = NoRevision]
  /\ UNCHANGED core /\ OnlyRevise

Next == \E t \in Threads :
  \/ Create(t) \/ SetStatus(t)
  \/ ReadCore(t) \/ ReadIndex(t) \/ Select(t) \/ Answer(t)
  \/ ReadPending(t) \/ ReadActive(t) \/ Suggest(t)
  \/ Number(t) \/ Find(t) \/ Deactivate(t) \/ Activate(t) \/ Break(t)
Spec == Init /\ [][Next]_vars

-----------------------------------------------------------------------------
TypeOK ==
  /\ memories \in Seq([content : Contents, status : Statuses])
  /\ core \in Seq([version : 1 .. MaxRevisions, active : BOOLEAN, after : 0 .. MaxRevisions])
  /\ \A t \in Threads :
       /\ ask[t].at \in {"idle", "index", "select", "answer", "pending", "active", "insert"}
       /\ revise[t].at \in {"idle", "update", "locks", "insert"}
       /\ revise[t].rows \subseteq 1 .. Len(core)

(* Two revisions at once may take the same version and both stay active,   *)
(* for neither sees the other's row.  But once there is a revision there   *)
(* is always one that is served, and a revision replaces all that were     *)
(* there when it began, however many of them are active, and has a version *)
(* above theirs (create_core_memory_revision).                             *)
RevisionIsServed ==
  /\ core # <<>> => Served # {}
  /\ \A r \in 1 .. Len(core) : \A old \in 1 .. core[r].after :
       ~core[old].active /\ core[old].version < core[r].version

(* Inductive form: the revision committed last is active, and a            *)
(* transaction has numbered and found all that were there when it began.   *)
Revision == [version : Nat, active : BOOLEAN, after : Nat]
SeenOK(w) ==
  /\ w.after <= Len(core)
  /\ \A old \in 1 .. w.after : core[old].version < w.version
  /\ w.at \in {"locks", "insert"} => 1 .. w.after \subseteq w.rows /\ w.rows \subseteq 1 .. Len(core)
Revisions == [at : {"idle", "update", "locks", "insert"}, version : Nat, after : Nat, rows : SUBSET Nat]
IInv ==
  /\ core \in Seq(Revision)
  /\ \E v \in Versions : \A w \in Versions : w <= v
  /\ revise \in [Threads -> Revisions]
  /\ \A t \in Threads : revise[t].at # "idle" => SeenOK(revise[t])
  /\ core # <<>> => core[Len(core)].active
  /\ \A r \in 1 .. Len(core) : core[r].after < r
  /\ RevisionIsServed
(* Inductive form of the types: there is a version for every revision at   *)
(* most, and two threads that number a revision at once take the same one. *)
Asks == [at : {"idle", "index", "select", "answer", "pending", "active", "insert"},
         persistent : SUBSET Nat, suggests : SUBSET Contents, known : SUBSET Contents]
ITypeOK ==
  /\ TypeOK
  /\ ask \in [Threads -> Asks]
  /\ \A r \in 1 .. Len(core) : core[r].version <= Len(core)
  /\ \A t \in Threads : revise[t].at # "idle" =>
       /\ revise[t].version \in 1 .. MaxRevisions /\ revise[t].version <= Len(core) + 1
       /\ revise[t].after \in 0 .. MaxRevisions
===================================================================================
