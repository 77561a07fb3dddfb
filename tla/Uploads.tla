-------------------------------- MODULE Uploads --------------------------------
(***************************************************************************)
(* The ingestion of an upload batch: run_upload_batch_task, the ingestion  *)
(* service, the task runs in PostgreSQL and the Redis locks.  The mirror   *)
(* of a run's status in Redis, which nothing here reads, is left out.      *)
(*                                                                         *)
(* The messages about a batch come from outside the code; one may be sent  *)
(* again, retried or delivered twice, so several workers can hold one.  A  *)
(* lock expires while its owner works, a worker dies with its locks held,  *)
(* and a process whose Redis command failed goes on without Redis for good.*)
(***************************************************************************)
EXTENDS Integers, FiniteSets

CONSTANTS Blobs,    \* numbers from 1 on of the batch's blobs, in the order of list_blobs
          Rejected, \* blobs that are rejected or quarantined
          Empty,    \* blobs whose text gives no chunk
          Workers,  \* worker processes
          None,
          MaxTasks, \* bound: tasks received about the batch
          MaxFaults \* bound: workers that die, clients that fail, locks that expire

VARIABLES
  batch,   \* upload_batches: the status
  blob,    \* document_blobs: the status
  doc,     \* source_documents; an attempt of a run on a blob makes a document of its own
  points,  \* document_vector_points: the status of a document's points
  indexed, \* documents whose points are in Qdrant
  run,     \* task_runs: the status
  lock,    \* the owner of a Redis lock; a run is an owner of its own
  linked,  \* processes whose Redis client still works
  job,     \* what a worker is doing
  dead,    \* history: runs whose worker died
  faults   \* faults so far

rows == <<batch, blob, doc, points, indexed>>
vars == <<batch, blob, doc, points, indexed, run, lock, linked, job, dead, faults>>

-----------------------------------------------------------------------------
Runs       == 1 .. MaxTasks
Docs       == Runs \X Blobs
TheBatch   == 0
Keys       == Blobs \cup {TheBatch}
TaskStatus == {"pending", "running", "succeeded", "failed", "skipped"}

Document == [parse : {"parsed", "chunked", "vectorized", "failed"},
             version : {None}]

Idle == [at |-> "idle"]
Job == [at : {"lock", "list", "next", "parse", "chunk", "vectorize", "mark",
              "done", "failing", "end"},
        run : Runs, blob : Blobs \cup {None}, todo : SUBSET Blobs,
        healthy : BOOLEAN,        \* redis_healthy of the task
        locking : BOOLEAN,        \* redis_healthy of ingest_blob
        held : SUBSET Keys,       \* locks it took and has not released
        lapsed : SUBSET Keys,     \* history: of those, the ones that expired
        documents : BOOLEAN, errors : BOOLEAN]

Become(w, j) == job' = [job EXCEPT ![w] = j]
Mine(w) == <<job[w].run, job[w].blob>>

(* acquire_lock: SET NX.                                                   *)
CanAcquire(w, k) == w \in linked /\ lock[k] = None

(* Variant: whoever holds the key by now loses it.                         *)
DeletedKeys(w, keys) == [k \in Keys |-> IF k \in keys /\ w \in linked THEN None ELSE lock[k]]

(* release_lock: the script deletes a key only for its owner.              *)
Released(w, keys) ==
  [k \in Keys |-> IF k \in keys /\ w \in linked /\ lock[k] = job[w].run THEN None ELSE lock[k]]

-----------------------------------------------------------------------------
Init ==
  /\ batch = "received"
  /\ blob = [b \in Blobs |-> IF b \in Rejected THEN "rejected" ELSE "stored"]
  /\ doc = [d \in Docs |-> None]
  /\ points = [d \in Docs |-> None]
  /\ indexed = {}
  /\ run = [r \in Runs |-> None]
  /\ lock = [k \in Keys |-> None]
  /\ linked = Workers
  /\ job = [w \in Workers |-> Idle]
  /\ dead = {}
  /\ faults = 0

(* create_run, start_run and the healthcheck.  A run is created for every  *)
(* message: nothing makes idempotency_key unique.                          *)
Receive(w) ==
  /\ job[w] = Idle
  /\ \E r \in Runs :
       /\ run[r] = None /\ \A s \in 1 .. r - 1 : run[s] # None
       /\ run' = [run EXCEPT ![r] = "running"]
       /\ Become(w, [at |-> "lock", run |-> r, blob |-> None, todo |-> {},
                     healthy |-> w \in linked, locking |-> FALSE, held |-> {},
                     lapsed |-> {}, documents |-> FALSE, errors |-> FALSE])
  /\ UNCHANGED <<rows, lock, linked, dead, faults>>

TakeBatchLock(w) ==
  /\ job[w].at = "lock"
  /\ job[w].healthy => CanAcquire(w, TheBatch)
  /\ IF job[w].healthy
       THEN /\ lock' = [lock EXCEPT ![TheBatch] = job[w].run]
            /\ Become(w, [job[w] EXCEPT !.at = "list", !.held = {TheBatch}])
       ELSE Become(w, [job[w] EXCEPT !.at = "list"]) /\ UNCHANGED lock
  /\ UNCHANGED <<rows, run, linked, dead, faults>>

(* Variant: the task returns without a word about its run.                 *)
SkipSilently(w) ==
  /\ job[w].at = "lock" /\ job[w].healthy /\ ~CanAcquire(w, TheBatch)
  /\ Become(w, Idle)
  /\ UNCHANGED <<rows, run, lock, linked, dead, faults>>

SkipLocked(w) ==
  /\ job[w].at = "lock" /\ job[w].healthy /\ ~CanAcquire(w, TheBatch)
  /\ run' = [run EXCEPT ![job[w].run] = "skipped"]
  /\ Become(w, Idle)
  /\ UNCHANGED <<rows, lock, linked, dead, faults>>

ListBlobs(w) ==
  /\ job[w].at = "list"
  /\ Become(w, [job[w] EXCEPT !.at = "next", !.todo = {b \in Blobs : blob[b] # "rejected"}])
  /\ UNCHANGED <<rows, run, lock, linked, dead, faults>>

NextBlob(w, b) == job[w].at = "next" /\ b \in job[w].todo /\ \A c \in job[w].todo : b <= c

(* ingest_blob: the parse lock, then the stage parse_documents.            *)
TakeParseLock(w) ==
  /\ \E b \in Blobs :
       /\ NextBlob(w, b)
       /\ w \in linked => CanAcquire(w, b)
       /\ lock' = IF w \in linked THEN [lock EXCEPT ![b] = job[w].run] ELSE lock
       /\ Become(w, [job[w] EXCEPT !.at = "parse", !.blob = b, !.locking = w \in linked,
                                   !.held = IF w \in linked THEN @ \cup {b} ELSE @])
  /\ UNCHANGED <<rows, run, linked, dead, faults>>

(* Variant: a blob somebody else is parsing is left to him.                *)
LeaveToOwner(w) ==
  /\ \E b \in Blobs :
       /\ NextBlob(w, b) /\ w \in linked /\ ~CanAcquire(w, b)
       /\ Become(w, [job[w] EXCEPT !.todo = @ \ {b}])
  /\ UNCHANGED <<rows, run, lock, linked, dead, faults>>

(* The lock is taken: an error before any stage or status is written.      *)
AlreadyParsed(w) ==
  /\ \E b \in Blobs :
       /\ NextBlob(w, b) /\ w \in linked /\ ~CanAcquire(w, b)
       /\ Become(w, [job[w] EXCEPT !.todo = @ \ {b}, !.errors = TRUE])
  /\ UNCHANGED <<rows, run, lock, linked, dead, faults>>

(* parser.parse, save_document under a new id and the two statuses: no     *)
(* one reads the rows in between.                                          *)
SaveDocument(w) ==
  /\ job[w].at = "parse"
  /\ doc' = [doc EXCEPT ![Mine(w)] = [parse |-> "parsed", version |-> None]]
  /\ blob' = [blob EXCEPT ![job[w].blob] = "parsed"]
  /\ Become(w, [job[w] EXCEPT !.at = "chunk"])
  /\ UNCHANGED <<batch, points, indexed, run, lock, linked, dead, faults>>

(* chunk_document and save_parent_chunks.                                  *)
Chunk(w) ==
  /\ job[w].at = "chunk"
  /\ IF job[w].blob \in Empty
       THEN Become(w, [job[w] EXCEPT !.at = "done"]) /\ UNCHANGED doc
       ELSE /\ doc' = [doc EXCEPT ![Mine(w)].parse = "chunked"]
            /\ Become(w, [job[w] EXCEPT !.at = "vectorize"])
  /\ UNCHANGED <<batch, blob, points, indexed, run, lock, linked, dead, faults>>

(* The vector lock names a document no one else knows: it is refused only  *)
(* when Redis is.  Then embed and upsert_child_chunks.                     *)
Upsert(w) ==
  /\ job[w].at = "vectorize"
  /\ job[w].locking => w \in linked
  /\ indexed' = indexed \cup {Mine(w)}
  /\ Become(w, [job[w] EXCEPT !.at = "mark"])
  /\ UNCHANGED <<batch, blob, doc, points, run, lock, linked, dead, faults>>

(* mark_points_vectorized and the status of the document.                  *)
MarkVectorized(w) ==
  /\ job[w].at = "mark"
  /\ points' = [points EXCEPT ![Mine(w)] = "vectorized"]
  /\ doc' = [doc EXCEPT ![Mine(w)].parse = "vectorized"]
  /\ Become(w, [job[w] EXCEPT !.at = "done"])
  /\ UNCHANGED <<batch, blob, indexed, run, lock, linked, dead, faults>>

(* The last finish_stage and the release of the parse lock.                *)
LeaveBlob(w, j) ==
  /\ lock' = Released(w, IF job[w].locking THEN {job[w].blob} ELSE {})
  /\ Become(w, [j EXCEPT !.at = "next", !.todo = @ \ {job[w].blob}, !.held = @ \ {job[w].blob},
                         !.lapsed = @ \ {job[w].blob}, !.blob = None, !.locking = FALSE])

FinishBlob(w) ==
  /\ job[w].at = "done"
  /\ LeaveBlob(w, [job[w] EXCEPT !.documents = TRUE])
  /\ UNCHANGED <<rows, run, linked, dead, faults>>

(* Any call of ingest_blob may raise.                                      *)
StepRaises(w) ==
  /\ job[w].at \in {"parse", "chunk", "vectorize", "mark", "done"}
  /\ Become(w, [job[w] EXCEPT !.at = "failing"])
  /\ UNCHANGED <<rows, run, lock, linked, dead, faults>>

FailBlob(w) ==
  /\ job[w].at = "failing"
  /\ blob' = [blob EXCEPT ![job[w].blob] = "failed"]
  /\ doc' = IF doc[Mine(w)] = None THEN doc ELSE [doc EXCEPT ![Mine(w)].parse = "failed"]
  /\ points' = IF points[Mine(w)] = None THEN points ELSE [points EXCEPT ![Mine(w)] = "failed"]
  /\ LeaveBlob(w, [job[w] EXCEPT !.errors = TRUE])
  /\ UNCHANGED <<batch, indexed, run, linked, dead, faults>>

BatchStatus(j) ==
  IF ~j.errors THEN "succeeded" ELSE IF j.documents THEN "partial_failed" ELSE "failed"

FinishBatch(w) ==
  /\ job[w].at = "next" /\ job[w].todo = {}
  /\ batch' = BatchStatus(job[w])
  /\ Become(w, [job[w] EXCEPT !.at = "end"])
  /\ UNCHANGED <<blob, doc, points, indexed, run, lock, linked, dead, faults>>

(* finish_run and the release of the batch lock.                           *)
EndRun(w, status) ==
  /\ run' = [run EXCEPT ![job[w].run] = status]
  /\ lock' = Released(w, job[w].held)
  /\ Become(w, Idle)
  /\ UNCHANGED <<rows, linked, dead, faults>>

EndTask(w) ==
  /\ job[w].at = "end"
  /\ EndRun(w, IF job[w].errors /\ ~job[w].documents THEN "failed" ELSE "succeeded")

(* A call outside ingest_blob raises: the task is retried with a new run.  *)
TaskRaises(w) == job[w].at \in {"list", "next"} /\ EndRun(w, "failed")

Work(w) ==
  \/ TakeBatchLock(w) \/ SkipLocked(w) \/ ListBlobs(w) \/ TakeParseLock(w) \/ AlreadyParsed(w)
  \/ SaveDocument(w) \/ Chunk(w) \/ Upsert(w)
  \/ MarkVectorized(w) \/ FinishBlob(w) \/ StepRaises(w) \/ FailBlob(w)
  \/ FinishBatch(w) \/ EndTask(w) \/ TaskRaises(w)

Fault == faults < MaxFaults /\ faults' = faults + 1

Crash(w) ==
  /\ Fault
  /\ job[w] # Idle
  /\ Become(w, Idle)
  /\ linked' = linked \cup {w}
  /\ dead' = dead \cup {job[w].run}
  /\ UNCHANGED <<rows, run, lock>>

(* _degrade: a Redis command failed and the client is dropped.             *)
Degrade(w) ==
  /\ Fault
  /\ w \in linked /\ job[w] # Idle
  /\ linked' = linked \ {w}
  /\ UNCHANGED <<rows, run, lock, job, dead>>

(* The ttl of a lock runs out.                                             *)
Expire(k) ==
  /\ Fault
  /\ lock[k] # None
  /\ lock' = [lock EXCEPT ![k] = None]
  /\ job' = [w \in Workers |->
              IF job[w] # Idle /\ job[w].run = lock[k] /\ k \in job[w].held
                THEN [job[w] EXCEPT !.lapsed = @ \cup {k}] ELSE job[w]]
  /\ UNCHANGED <<rows, run, linked, dead>>

Next ==
  \/ \E w \in Workers : Receive(w) \/ Work(w) \/ Crash(w) \/ Degrade(w)
  \/ \E k \in Keys : Expire(k)

-----------------------------------------------------------------------------
TypeOK ==
  /\ batch \in {"received", "succeeded", "partial_failed", "failed"}
  /\ blob \in [Blobs -> {"stored", "rejected", "parsed", "failed"}]
  /\ doc \in [Docs -> Document \cup {None}]
  /\ points \in [Docs -> {None, "vectorized", "failed"}]
  /\ indexed \subseteq Docs
  /\ run \in [Runs -> TaskStatus \cup {None}]
  /\ lock \in [Keys -> Runs \cup {None}]
  /\ linked \subseteq Workers
  /\ job \in [Workers -> Job \cup {Idle}]
  /\ dead \subseteq Runs
  /\ faults \in 0 .. MaxFaults

(* A batch is succeeded only if every blob of it that was not refused has  *)
(* a document that was vectorized, or that has no chunk (ingest_batch),    *)
(* whatever other workers did with the same batch meanwhile.               *)
Settled(r, b) ==
  /\ doc[<<r, b>>] # None
  /\ doc[<<r, b>>].parse = IF b \in Empty THEN "parsed" ELSE "vectorized"
SucceededBatchIsIngested ==
  batch = "succeeded" => \A b \in Blobs \ Rejected : \E r \in Runs : Settled(r, b)

(* A lock a worker took is its own until it releases it or the ttl runs    *)
(* out: the release of another worker never takes it away (release_lock).  *)
LocksHold ==
  \A w \in Workers : job[w] # Idle =>
    \A k \in job[w].held \ job[w].lapsed : lock[k] = job[w].run

(* Every run that is started ends, however its task ends, unless the       *)
(* worker dies (run_upload_batch_task).                                    *)
Underway(r) == run[r] = "running" /\ r \notin dead
EveryRunEnds == \A r \in Runs : Underway(r) ~> ~Underway(r)

(* "After a successful ingest an uploaded document is found like an RSS or *)
(* Web article" (docs/flows/document-ingestion-flow.md): every search      *)
(* joins source_document_versions, and an upload has no version.           *)
Found(d) == d \in indexed /\ doc[d].version # None
UploadsAreFound ==
  \A d \in Docs : doc[d] # None /\ doc[d].parse = "vectorized" => Found(d)

(* Inductive form.  A worker works on a run of its own; what it has left   *)
(* and did not fail on is settled; a succeeded batch stands on one run,    *)
(* whose documents nobody works on any more.                               *)
Owners ==
  /\ \A w \in Workers : job[w] # Idle =>
       run[job[w].run] # None /\ (job[w].at = "lock" => job[w].held = {})
  /\ \A w, v \in Workers : w # v /\ job[w] # Idle /\ job[v] # Idle => job[w].run # job[v].run
Stages == {"parse", "chunk", "vectorize", "mark", "done", "failing"}
JobOK(j) ==
  /\ j.at \in Stages => j.blob \in j.todo
  /\ j.at = "chunk" => doc[<<j.run, j.blob>>] # None /\ doc[<<j.run, j.blob>>].parse = "parsed"
  /\ j.at \in {"vectorize", "mark"} => doc[<<j.run, j.blob>>] # None /\ j.blob \notin Empty
  /\ j.at = "done" => Settled(j.run, j.blob)
  /\ j.at \in Stages \cup {"next"} /\ ~j.errors =>
       \A b \in Blobs \ Rejected : b \in j.todo \/ Settled(j.run, b)
SuccessStands ==
  batch = "succeeded" => \E r \in Runs :
    /\ run[r] # None /\ \A b \in Blobs \ Rejected : Settled(r, b)
    /\ \A w \in Workers : job[w] # Idle /\ job[w].run = r => job[w].at = "end"
IInv ==
  /\ TypeOK /\ Owners /\ LocksHold /\ SuccessStands
  /\ \A w \in Workers : JobOK(job[w])
  /\ \A b \in Blobs : blob[b] = "rejected" => b \in Rejected
=================================================================================
