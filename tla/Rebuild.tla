--------------------------------- MODULE Rebuild ----------------------------------
(***************************************************************************)
(* The two commands that bring a database to the present schema: the       *)
(* runner of the migrations with its ledger (apply_migrations.py), and the *)
(* rebuild of the structured facts with its progress (rebuild_cli.py).     *)
(* Either can end at any step, fail at any step, and run more than once;   *)
(* nothing keeps two of them from running at the same time.                *)
(***************************************************************************)
EXTENDS Naturals, Sequences

CONSTANTS Commands,   \* processes a command is run in
          Last,       \* the last migration, 016
          Published,  \* the last migration that is older than the ledger, 010
          Silent,     \* those a bootstrap looks for nothing of, 009
          Expand,     \* the migration that gives the facts their new columns, 011
          Batches,    \* the active versions in the batches the rebuild takes them in
          Bare,       \* those without an occurrence or without content
          MaxStarts,  \* bound: commands that are started
          MaxDrafts   \* bound: draft facts made of one version

VARIABLES
  schema,    \* the migrations that took effect
  ledger,    \* schema_migrations: the migrations that are recorded
  drifted,   \* recorded migrations whose file was edited since
  drafts,    \* version -> the draft facts that were made of it
  progress,  \* rebuild_progress
  command,   \* what a process is doing
  starts

vars == <<schema, ledger, drifted, drafts, progress, command, starts>>

Files == 1 .. Last
Versions == UNION {{Batches[b][i] : i \in 1 .. Len(Batches[b])} : b \in 1 .. Len(Batches)}

Idle == [at |-> "idle", applied |-> {}, file |-> 0, batch |-> 0, row |-> 0, marked |-> {}]

(* A database that is new, or one with the first migrations but no ledger. *)
Init ==
  /\ \E n \in 0 .. Published : schema = 1 .. n
  /\ ledger = {} /\ drifted = {}
  /\ drafts = [v \in Versions |-> 0] /\ progress = {}
  /\ command = [c \in Commands |-> Idle]
  /\ starts = 0

Become(c, j) == command' = [command EXCEPT ![c] = j]
Schema == <<schema, ledger, drifted>>
Facts == <<drafts, progress>>

-----------------------------------------------------------------------------
(* An applied file is edited in place.                                     *)
Drift ==
  /\ \E f \in ledger : drifted = {} /\ drifted' = {f}
  /\ UNCHANGED <<schema, ledger, Facts, command, starts>>

(* The ledger is read once; a bootstrap is refused if it is not empty.     *)
Start(c) ==
  /\ command[c].at = "idle" /\ starts < MaxStarts /\ starts' = starts + 1
  /\ \/ Become(c, [Idle EXCEPT !.at = "next", !.applied = ledger])
     \/ ledger = {} /\ Become(c, [Idle EXCEPT !.at = "bootstrap"])
     \/ Become(c, [Idle EXCEPT !.at = "row", !.batch = 1, !.row = 1])
  /\ UNCHANGED <<Schema, Facts>>

(* BOOTSTRAP_SENTINELS: tables and columns that the migrations before the  *)
(* ledger leave, all of them but those that are Silent.                    *)
Sentinels == (1 .. Published) \ Silent \subseteq schema

(* --bootstrap-existing: they are looked for, and all migrations before    *)
(* the ledger are recorded.  A row that is there already is refused.                  *)
Bootstrap(c) ==
  /\ command[c].at = "bootstrap"
  /\ ledger' = IF Sentinels /\ ledger \cap (1 .. Published) = {}
               THEN ledger \cup (1 .. Published) ELSE ledger
  /\ Become(c, Idle)
  /\ UNCHANGED <<schema, drifted, Facts, starts>>

(* Files in order, those that are not recorded.  A recorded file that was  *)
(* edited ends the command before the first.                               *)
NextFile(c) ==
  LET pending == {f \in Files : f > command[c].file /\ f \notin command[c].applied}
      edited == command[c].file = 0 /\ drifted \cap command[c].applied # {}
  IN  /\ command[c].at = "next"
      /\ \/ (pending = {} \/ edited) /\ Become(c, Idle)
         \/ /\ ~edited
            /\ \E f \in pending :
                 /\ \A g \in pending : f <= g
                 /\ Become(c, [command[c] EXCEPT !.at = "run", !.file = f])
      /\ UNCHANGED <<Schema, Facts, starts>>

(* Variant: a file that fails is passed over like one that was run.        *)
FileFailsOn(c) ==
  /\ command[c].at = "run"
  /\ Become(c, [command[c] EXCEPT !.at = "record"])
  /\ UNCHANGED <<Schema, Facts, starts>>

(* The file ends with a COMMIT of its own: from here on it has taken       *)
(* effect, and its row in the ledger is another transaction.               *)
RunFile(c) ==
  /\ command[c].at = "run"
  /\ schema' = schema \cup {command[c].file}
  /\ Become(c, [command[c] EXCEPT !.at = "record"])
  /\ UNCHANGED <<ledger, drifted, Facts, starts>>

(* The file is rolled back, and those after it are not run.                *)
FileFails(c) ==
  /\ command[c].at = "run"
  /\ Become(c, Idle)
  /\ UNCHANGED <<Schema, Facts, starts>>

(* A row that another runner has recorded meanwhile ends the command.      *)
RecordFile(c) ==
  /\ command[c].at = "record"
  /\ ledger' = ledger \cup {command[c].file}
  /\ Become(c, IF command[c].file \in ledger THEN Idle ELSE [command[c] EXCEPT !.at = "next"])
  /\ UNCHANGED <<schema, drifted, Facts, starts>>

-----------------------------------------------------------------------------
Row(c) == Batches[command[c].batch][command[c].row]

(* The next version of the batch, its mark still uncommitted; after the    *)
(* last the batch waits for its commit.                                    *)
Advance(c, marked) ==
  Become(c, [command[c] EXCEPT !.marked = marked, !.row = @ + 1,
               !.at = IF command[c].row = Len(Batches[command[c].batch]) THEN "commit" ELSE "row"])

(* A version that is marked is skipped, one without a source only marked.  *)
SkipVersion(c) ==
  /\ command[c].at = "row" /\ Row(c) \in progress \cup Bare
  /\ Advance(c, IF Row(c) \in progress THEN command[c].marked ELSE command[c].marked \cup {Row(c)})
  /\ UNCHANGED <<Schema, Facts, starts>>

(* The draft is committed by its own store, not with the batch.            *)
CreateDraft(c) ==
  /\ command[c].at = "row" /\ Row(c) \notin progress \cup Bare
  /\ Expand \in schema /\ drafts[Row(c)] < MaxDrafts
  /\ drafts' = [drafts EXCEPT ![Row(c)] = @ + 1]
  /\ Become(c, [command[c] EXCEPT !.at = "anchor"])
  /\ UNCHANGED <<Schema, progress, starts>>

(* The anchor, which may fail, and the activation, which never succeeds    *)
(* here: nothing has confirmed a subject.                                  *)
AnchorDraft(c) ==
  /\ command[c].at = "anchor"
  /\ Advance(c, command[c].marked \cup {Row(c)})
  /\ UNCHANGED <<Schema, Facts, starts>>

(* The commit of a batch or, after an exception, its rollback; then the    *)
(* next batch, whatever became of this one.                                *)
NextBatch(c) ==
  Become(c, IF command[c].batch = Len(Batches) THEN Idle
            ELSE [Idle EXCEPT !.at = "row", !.batch = command[c].batch + 1, !.row = 1])

CommitBatch(c) ==
  /\ command[c].at = "commit"
  /\ progress' = progress \cup command[c].marked
  /\ NextBatch(c)
  /\ UNCHANGED <<Schema, drafts, starts>>

BatchFails(c) ==
  /\ command[c].at \in {"row", "anchor", "commit"}
  /\ NextBatch(c)
  /\ UNCHANGED <<Schema, Facts, starts>>

(* The process ends; what was not committed is gone.                       *)
Killed(c) ==
  /\ command[c].at # "idle"
  /\ Become(c, Idle)
  /\ UNCHANGED <<Schema, Facts, starts>>

Next ==
  \/ \E c \in Commands :
       \/ Start(c) \/ Bootstrap(c) \/ NextFile(c) \/ RunFile(c) \/ FileFails(c) \/ RecordFile(c)
       \/ SkipVersion(c) \/ CreateDraft(c) \/ AnchorDraft(c) \/ CommitBatch(c) \/ BatchFails(c)
       \/ Killed(c)
  \/ Drift
Spec == Init /\ [][Next]_vars

-----------------------------------------------------------------------------
TypeOK ==
  /\ schema \subseteq Files /\ ledger \subseteq Files /\ drifted \subseteq ledger
  /\ drafts \in [Versions -> 0 .. MaxDrafts] /\ progress \subseteq Versions
  /\ starts \in 0 .. MaxStarts
  /\ \A c \in Commands :
       /\ command[c].at \in {"idle", "bootstrap", "next", "run", "record", "row", "anchor", "commit"}
       /\ command[c].marked \subseteq Versions

(* What the next run of a command passes over has been done: a recorded    *)
(* migration took effect, and so did all before it; of a version that is   *)
(* marked there is a draft.  The other way round it need not be: a file or *)
(* a version that a command was killed in is done a second time            *)
(* (schema_migrations, rebuild_progress).                                  *)
RecordedIsDone ==
  /\ \A f \in ledger : 1 .. f \subseteq schema
  /\ \A v \in progress \ Bare : drafts[v] > 0

-----------------------------------------------------------------------------
(* The inductive invariant.                                                *)

Jobs == [at : {"idle", "bootstrap", "next", "run", "record", "row", "anchor", "commit"},
         applied : SUBSET Files, file : 0 .. Last, batch : 0 .. Len(Batches), row : Nat,
         marked : SUBSET Versions]

(* A command knows only recorded files, and all files up to its own took   *)
(* effect, or all but its own while it is about to run it; what it marks   *)
(* has a draft or needs none.                                              *)
FilesOK(j, done) ==
  /\ \A f \in j.applied : 1 .. f \subseteq done
  /\ j.at = "next" => 1 .. j.file \subseteq done
  /\ j.at = "run" => j.file \in Files /\ 1 .. (j.file - 1) \subseteq done
  /\ j.at = "record" => j.file \in Files /\ 1 .. j.file \subseteq done

BatchOK(j, drafted) ==
  /\ j.at \in {"row", "anchor", "commit"} => j.batch \in 1 .. Len(Batches)
  /\ j.at \in {"row", "anchor"} => j.row \in 1 .. Len(Batches[j.batch])
  /\ j.at = "anchor" => drafted[Batches[j.batch][j.row]] > 0
  /\ \A v \in j.marked \ Bare : drafted[v] > 0

JobOK(j, done, drafted) == j \in Jobs /\ FilesOK(j, done) /\ BatchOK(j, drafted)

(* A migration takes effect after all before it.                           *)
StateOK ==
  /\ \A f \in schema : 1 .. f \subseteq schema
  /\ schema \subseteq Files /\ ledger \subseteq Files /\ drifted \subseteq ledger
  /\ drafts \in [Versions -> 0 .. MaxDrafts] /\ progress \subseteq Versions
  /\ starts \in 0 .. MaxStarts
  /\ RecordedIsDone

IInv == StateOK /\ command \in [Commands -> Jobs] /\ \A c \in Commands : JobOK(command[c], schema, drafts)
===================================================================================
