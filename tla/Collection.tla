------------------------------ MODULE Collection ------------------------------
(***************************************************************************)
(* The collection pipeline of InsightForge: a Collection Run fans out into *)
(* one Source Fetch Task per Source Profile, a task discovers Fetch        *)
(* Candidates, each candidate is fetched, normalised and handed to the     *)
(* ingest queue, and the run is closed from the statuses of its tasks.     *)
(*                                                                         *)
(* Celery workers execute the handlers of scheduler/tasks.py.  Every       *)
(* handler is a sequence of short PostgreSQL transactions, one action per  *)
(* transaction another worker can observe.  "Commit a row, then send its   *)
(* id" is one action: a message that is sent later is a message that is    *)
(* delivered later, and a crash between the two is the loss of the message *)
(* (Lose).  Messages are acknowledged when they are taken (Celery's        *)
(* default), so a worker that crashes does not get its message back.       *)
(***************************************************************************)
EXTENDS Naturals, FiniteSets

CONSTANTS Runs,        \* identities of Collection Runs
          Profiles,    \* the configured Source Profiles
          Candidates,  \* idempotency keys of Fetch Candidates
          Workers,     \* Celery worker processes
          SourceOf,    \* the profile part of a candidate's idempotency key
          Rendered,    \* profiles with collection_config.render_required
          Throttled,   \* profiles whose fetches may be retried until none is left
          Pdf,         \* candidates whose body may be a PDF without a text layer
          Scripted,    \* candidates whose page may have to be rendered
          Verdicts,    \* candidate statuses normalisation ends with
          NoTask,      \* "no task"
          MaxFaults    \* bound: worker crashes and lost messages together

Tasks == Runs \X Profiles       \* UNIQUE (collection_run_id, source_profile_id)

ASSUME CollectionAssumption ==
  /\ SourceOf \in [Candidates -> Profiles]
  /\ Rendered \subseteq Profiles
  /\ Throttled \subseteq Profiles
  /\ Pdf \subseteq Candidates /\ Scripted \subseteq Candidates
  /\ Verdicts \subseteq {"accepted", "review_required", "rejected"}
  /\ NoTask \notin Tasks
  /\ MaxFaults \in Nat

VARIABLES
  runStatus,   \* collection_runs.status ("none": no row yet)
  taskStatus,  \* source_fetch_tasks.status
  candStatus,  \* fetch_candidates.status
  owner,       \* fetch_candidates.source_task_id
  artifacts,   \* raw_fetch_artifacts with a body, as far as messages name them
  queue,       \* the messages in the broker
  ingestSent,  \* candidates whose document was sent to the ingest queue
  job,         \* what each worker is doing
  faults,      \* crashes and losses so far
  covered      \* history: the tasks the last status of a run was computed from

rows == <<runStatus, taskStatus, candStatus, owner, artifacts, ingestSent>>
vars == <<runStatus, taskStatus, candStatus, owner, artifacts, queue,
          ingestSent, job, faults, covered>>

-----------------------------------------------------------------------------
(* Statuses, messages and jobs *)

TaskOutcomes == {"succeeded", "failed", "paused"}
RunOutcomes  == {"succeeded", "partial_failed", "failed"}
Settled      == {"accepted", "review_required", "rejected", "failed", "unchanged"}

RunOf(t) == t[1]
Closed(r) == runStatus[r] \in RunOutcomes
TasksOf(r) == {t \in {r} \X Profiles : taskStatus[t] # "none"}

Methods   == {"http", "browser"}
Artifacts == [cand : Candidates, method : Methods, task : Tasks]

Discover(t)      == [kind |-> "discover", task |-> t]
Fetch(m, c, t)   == [kind |-> m, cand |-> c, task |-> t]
Replay(k, a)     == [kind |-> k, artifact |-> a]
DiscoverMessages == [kind : {"discover"}, task : Tasks]
FetchMessages    == [kind : Methods, cand : Candidates, task : Tasks]
ReplayMessages   == [kind : {"normalize", "ocr"}, artifact : Artifacts]
Messages == DiscoverMessages \cup FetchMessages \cup ReplayMessages

(* "try" is the task whose discover handler's except clause is in force.   *)
Idle == [pc |-> "idle"]
FanOutJobs   == [pc : {"fan_out"}, run : Runs, todo : SUBSET Profiles]
DiscoverJobs == [pc : {"discovering"}, try : Tasks]
SaveJobs     == [pc : {"saving"}, try : Tasks, todo : SUBSET Candidates, new : BOOLEAN]
InsertJobs   == [pc : {"inserting"}, try : Tasks, todo : SUBSET Candidates,
                 new : BOOLEAN, cand : Candidates]
FetchJobs    == [pc : {"fetching"}, cand : Candidates, task : Tasks, method : Methods]
FinishJobs   == [pc : {"checking", "advancing"}, task : Tasks]
ReadJobs     == [pc : {"reading", "sweeping"}, run : Runs, try : Tasks \cup {NoTask}]
WriteJobs    == [pc : {"writing"}, run : Runs, try : Tasks \cup {NoTask},
                 seen : SUBSET Tasks, verdict : RunOutcomes \cup {"running"}]
Jobs == {Idle} \cup FanOutJobs \cup DiscoverJobs \cup SaveJobs \cup InsertJobs
          \cup FetchJobs \cup FinishJobs \cup ReadJobs \cup WriteJobs

Become(w, j) == job' = [job EXCEPT ![w] = j]
IsIdle(w) == job[w].pc = "idle"

(* Variants of Summary: "pending" for a run nothing is known of; only      *)
(* running tasks counted as open.                                          *)
SummaryStartsPending(seen) ==
  IF seen = {} THEN "pending"
  ELSE IF \E t \in seen : taskStatus[t] \notin TaskOutcomes THEN "running" ELSE "succeeded"
SummaryForgetsPending(seen) ==
  IF \E t \in seen : taskStatus[t] = "running" THEN "running" ELSE "succeeded"

(* summarize_run over the rows list_tasks returned.                        *)
Summary(seen) ==
  LET bad == {t \in seen : taskStatus[t] \in {"failed", "paused"}}
  IN  IF seen = {} \/ \E t \in seen : taskStatus[t] \notin TaskOutcomes
      THEN "running"
      ELSE IF bad = {} THEN "succeeded"
      ELSE IF bad = seen THEN "failed" ELSE "partial_failed"

(* FILTER (WHERE status NOT IN settled) = 0 AND COUNT( * ) > 0.            *)
TaskCandidatesTerminal(t) ==
  /\ \E c \in Candidates : owner[c] = t
  /\ \A c \in Candidates : owner[c] = t => candStatus[c] \in Settled

-----------------------------------------------------------------------------
Init ==
  /\ runStatus  = [r \in Runs |-> "none"]
  /\ taskStatus = [t \in Tasks |-> "none"]
  /\ candStatus = [c \in Candidates |-> "none"]
  /\ owner      = [c \in Candidates |-> NoTask]
  /\ artifacts  = {}
  /\ queue      = {}
  /\ ingestSent = {}
  /\ job        = [w \in Workers |-> Idle]
  /\ faults     = 0
  /\ covered    = [r \in Runs |-> {}]

-----------------------------------------------------------------------------
(* start_collection_run_task: create_run commits the run row; then, for    *)
(* each due profile, the task row is committed and its id is sent.         *)

StartRun(w, r, due) ==
  /\ IsIdle(w)
  /\ runStatus[r] = "none"
  /\ runStatus' = [runStatus EXCEPT ![r] = "running"]
  /\ Become(w, IF due = {} THEN Idle ELSE [pc |-> "fan_out", run |-> r, todo |-> due])
  /\ UNCHANGED <<taskStatus, candStatus, owner, artifacts, queue, ingestSent, faults, covered>>

CreateTask(w, p) ==
  LET r == job[w].run   t == <<job[w].run, p>>   rest == job[w].todo \ {p}
  IN  /\ job[w].pc = "fan_out"
      /\ p \in job[w].todo
      /\ taskStatus' = [taskStatus EXCEPT ![t] = IF @ = "none" THEN "pending" ELSE @]
      /\ queue' = queue \cup {Discover(t)}
      /\ Become(w, IF rest = {} THEN Idle ELSE [job[w] EXCEPT !.todo = rest])
      /\ UNCHANGED <<runStatus, candStatus, owner, artifacts, ingestSent, faults, covered>>

-----------------------------------------------------------------------------
(* discover_source_task.                                                   *)

(* Variant: claim_task without its status condition.                       *)
ClaimableAlways(t) == taskStatus[t] # "none"

Claimable(t) == taskStatus[t] \in {"pending", "running"}

ClaimTask(w, t) ==
  /\ IsIdle(w)
  /\ Discover(t) \in queue
  /\ Claimable(t)
  /\ taskStatus' = [taskStatus EXCEPT ![t] = "running"]
  /\ queue' = queue \ {Discover(t)}
  /\ Become(w, [pc |-> "discovering", try |-> t])
  /\ UNCHANGED <<runStatus, candStatus, owner, artifacts, ingestSent, faults, covered>>

(* claim_task raises KeyError outside the try: the message is consumed.    *)
RefuseClaim(w, t) ==
  /\ IsIdle(w)
  /\ Discover(t) \in queue
  /\ ~Claimable(t)
  /\ queue' = queue \ {Discover(t)}
  /\ UNCHANGED <<rows, job, faults, covered>>

(* No profile, or no connector in its configuration.                       *)
PauseTask(w) ==
  /\ job[w].pc = "discovering"
  /\ taskStatus' = [taskStatus EXCEPT ![job[w].try] = "paused"]
  /\ Become(w, Idle)
  /\ UNCHANGED <<runStatus, candStatus, owner, artifacts, queue, ingestSent, faults, covered>>

(* The connector returns some of the source's candidates.                  *)
DiscoverCandidates(w, found) ==
  /\ job[w].pc = "discovering"
  /\ \A c \in found : SourceOf[c] = job[w].try[2]
  /\ Become(w, [pc |-> "saving", try |-> job[w].try, todo |-> found, new |-> FALSE])
  /\ UNCHANGED <<rows, queue, faults, covered>>

FindCandidate(w, c) ==
  /\ job[w].pc = "saving"
  /\ c \in job[w].todo
  /\ Become(w, IF candStatus[c] # "none"
               THEN [job[w] EXCEPT !.todo = @ \ {c}]
               ELSE [pc |-> "inserting", try |-> job[w].try, todo |-> job[w].todo \ {c},
                     new |-> job[w].new, cand |-> c])
  /\ UNCHANGED <<rows, queue, faults, covered>>

(* Variant: the insert takes an existing row over.                         *)
InsertTakesOver(w) ==
  LET c == job[w].cand   t == job[w].try
  IN  /\ job[w].pc = "inserting"
      /\ candStatus' = [candStatus EXCEPT ![c] = "discovered"]
      /\ owner' = [owner EXCEPT ![c] = t]
      /\ queue' = queue \cup {Fetch("http", c, t)}
      /\ Become(w, [pc |-> "saving", try |-> t, todo |-> job[w].todo, new |-> TRUE])
      /\ UNCHANGED <<runStatus, taskStatus, artifacts, ingestSent, faults, covered>>

(* ON CONFLICT (idempotency_key): another discover inserted it meanwhile,  *)
(* and the row keeps its task and its status.                              *)
InsertCandidate(w) ==
  LET c == job[w].cand   t == job[w].try
      method == IF t[2] \in Rendered THEN "browser" ELSE "http"
  IN  /\ job[w].pc = "inserting"
      /\ IF candStatus[c] = "none"
         THEN /\ candStatus' = [candStatus EXCEPT ![c] = "discovered"]
              /\ owner' = [owner EXCEPT ![c] = t]
         ELSE UNCHANGED <<candStatus, owner>>
      /\ queue' = queue \cup {Fetch(method, c, t)}
      /\ Become(w, [pc |-> "saving", try |-> t, todo |-> job[w].todo, new |-> TRUE])
      /\ UNCHANGED <<runStatus, taskStatus, artifacts, ingestSent, faults, covered>>

(* After record_success.  A discover that found nothing new finishes the   *)
(* task at once and reconciles the run.                                    *)
EndDiscover(w) ==
  /\ job[w].pc = "saving"
  /\ job[w].todo = {}
  /\ IF job[w].new
     THEN /\ Become(w, Idle)
          /\ UNCHANGED taskStatus
     ELSE /\ taskStatus' = [taskStatus EXCEPT ![job[w].try] = "succeeded"]
          /\ Become(w, [pc |-> "reading", run |-> RunOf(job[w].try), try |-> job[w].try])
  /\ UNCHANGED <<runStatus, candStatus, owner, artifacts, queue, ingestSent, faults, covered>>

InTry(w) ==
  \/ job[w].pc \in {"discovering", "saving", "inserting"}
  \/ /\ job[w].pc \in {"reading", "writing"}
     /\ job[w].try # NoTask

(* The except clause: the source, the connector or the database raised.    *)
DiscoverFails(w) ==
  /\ InTry(w)
  /\ taskStatus' = [taskStatus EXCEPT ![job[w].try] = "failed"]
  /\ Become(w, Idle)
  /\ UNCHANGED <<runStatus, candStatus, owner, artifacts, queue, ingestSent, faults, covered>>

-----------------------------------------------------------------------------
(* fetch_http_candidate_task and fetch_browser_candidate_task.  An attempt *)
(* the rate limiter refuses changes nothing and goes back to the broker; a *)
(* message whose retries are used up (five or three) is dropped.           *)

BeginFetch(w, m) ==
  /\ IsIdle(w)
  /\ m \in queue \cap FetchMessages
  /\ candStatus' = [candStatus EXCEPT ![m.cand] = "fetching"]
  /\ queue' = queue \ {m}
  /\ Become(w, [pc |-> "fetching", cand |-> m.cand, task |-> m.task, method |-> m.kind])
  /\ UNCHANGED <<runStatus, taskStatus, owner, artifacts, ingestSent, faults, covered>>

RetriesUsedUp(m) ==
  /\ m \in queue \cap FetchMessages
  /\ SourceOf[m.cand] \in Throttled
  /\ queue' = queue \ {m}
  /\ UNCHANGED <<rows, job, faults, covered>>

(* A RuntimeError of the engine: autoretry sends the message again.        *)
FetchRaises(w) ==
  /\ job[w].pc = "fetching"
  /\ SourceOf[job[w].cand] \in Throttled
  /\ queue' = queue \cup {Fetch(job[w].method, job[w].cand, job[w].task)}
  /\ Become(w, Idle)
  /\ UNCHANGED <<rows, faults, covered>>

(* Variant: the normalise message is sent without saving the artifact.     *)
FetchSkipsArtifact(w, a) ==
  /\ job[w].pc = "fetching"
  /\ a.cand = job[w].cand /\ a.method = job[w].method /\ a.task = job[w].task
  /\ queue' = queue \cup {Replay("normalize", a)}
  /\ Become(w, Idle)
  /\ UNCHANGED <<rows, faults, covered>>

(* save_artifact keeps the source_task_id of the row that already holds    *)
(* the same candidate, method and body hash; another body is another row.  *)
FetchReturnsBody(w, a) ==
  /\ job[w].pc = "fetching"
  /\ a.cand = job[w].cand /\ a.method = job[w].method
  /\ a.task = job[w].task \/ a \in artifacts
  /\ artifacts' = artifacts \cup {a}
  /\ candStatus' = [candStatus EXCEPT ![a.cand] = "fetched"]
  /\ queue' = queue \cup {Replay("normalize", a)}
  /\ Become(w, Idle)
  /\ UNCHANGED <<runStatus, taskStatus, owner, ingestSent, faults, covered>>

(* not_modified counts as "unchanged" only on the http path.               *)
FetchReturnsNoBody(w, status) ==
  /\ job[w].pc = "fetching"
  /\ \/ status = "failed"
     \/ status = "unchanged" /\ job[w].method = "http"
  /\ candStatus' = [candStatus EXCEPT ![job[w].cand] = status]
  /\ Become(w, [pc |-> "checking", task |-> job[w].task])
  /\ UNCHANGED <<runStatus, taskStatus, owner, artifacts, queue, ingestSent, faults, covered>>

-----------------------------------------------------------------------------
(* normalize_artifact_task and ocr_artifact_task.  The outcome is a        *)
(* function of a body the model does not look into.                        *)

Take(w, m) == IsIdle(w) /\ m \in queue

NormalizeNeedsOcr(w, a) ==
  /\ Take(w, Replay("normalize", a))
  /\ a.cand \in Pdf
  /\ queue' = (queue \ {Replay("normalize", a)}) \cup {Replay("ocr", a)}
  /\ UNCHANGED <<rows, job, faults, covered>>

NormalizeNeedsRender(w, a) ==
  /\ Take(w, Replay("normalize", a))
  /\ a.method = "http"
  /\ a.cand \in Scripted
  /\ queue' = (queue \ {Replay("normalize", a)}) \cup {Fetch("browser", a.cand, a.task)}
  /\ UNCHANGED <<rows, job, faults, covered>>

(* No such artifact, a body that was cleaned up, or a body that cannot be  *)
(* read: the handler raises and is not retried.                            *)
ReplayRaises(w, k, a) ==
  /\ Take(w, Replay(k, a))
  /\ queue' = queue \ {Replay(k, a)}
  /\ UNCHANGED <<rows, job, faults, covered>>

Decide(w, k, a, status) ==
  /\ Take(w, Replay(k, a))
  /\ status \in Verdicts
  /\ k = "ocr" => status # "rejected"
  /\ queue' = queue \ {Replay(k, a)}
  /\ candStatus' = [candStatus EXCEPT ![a.cand] = status]
  /\ ingestSent' = ingestSent \cup (IF status = "accepted" THEN {a.cand} ELSE {})
  /\ Become(w, [pc |-> "checking", task |-> a.task])
  /\ UNCHANGED <<runStatus, taskStatus, owner, artifacts, faults, covered>>

-----------------------------------------------------------------------------
(* _finish_source_task_if_terminal: three transactions and then the fan-in *)
(* of PostgresCollectionRunStore.reconcile, two more.                      *)

CheckTask(w) ==
  /\ job[w].pc = "checking"
  /\ Become(w, IF TaskCandidatesTerminal(job[w].task)
               THEN [job[w] EXCEPT !.pc = "advancing"] ELSE Idle)
  /\ UNCHANGED <<rows, queue, faults, covered>>

FinishTask(w) ==
  /\ job[w].pc = "advancing"
  /\ taskStatus' = [taskStatus EXCEPT ![job[w].task] = "succeeded"]
  /\ Become(w, [pc |-> "reading", run |-> RunOf(job[w].task), try |-> NoTask])
  /\ UNCHANGED <<runStatus, candStatus, owner, artifacts, queue, ingestSent, faults, covered>>

Summarized(w, seen) ==
  [pc |-> "writing", run |-> job[w].run, try |-> job[w].try,
   seen |-> seen, verdict |-> Summary(seen)]

ReadTasks(w) ==
  /\ job[w].pc = "reading"
  /\ Become(w, Summarized(w, TasksOf(job[w].run)))
  /\ UNCHANGED <<rows, queue, faults, covered>>

(* finish_run writes the summary of the earlier read, whatever the row or  *)
(* the tasks have become since.                                            *)
WriteRun(w) ==
  /\ job[w].pc = "writing"
  /\ runStatus' = [runStatus EXCEPT ![job[w].run] = job[w].verdict]
  /\ covered' = [covered EXCEPT ![job[w].run] = job[w].seen]
  /\ Become(w, Idle)
  /\ UNCHANGED <<taskStatus, candStatus, owner, artifacts, queue, ingestSent, faults>>

-----------------------------------------------------------------------------
(* reconcile_collection_runs_task: every minute, each run that was active  *)
(* when the ids were listed is reconciled.  Each listed run is a job.      *)

ListActiveRun(w, r) ==
  /\ IsIdle(w)
  /\ runStatus[r] = "running"
  /\ Become(w, [pc |-> "sweeping", run |-> r, try |-> NoTask])
  /\ UNCHANGED <<rows, queue, faults, covered>>

(* Variant: only tasks that are late are sent again.                       *)
SweepOnlyLate(w, late) ==
  LET seen == TasksOf(job[w].run)
  IN  /\ job[w].pc = "sweeping"
      /\ late \subseteq {t \in seen : taskStatus[t] = "running"}
      /\ queue' = queue \cup {Discover(t) : t \in late}
      /\ Become(w, Summarized(w, seen))
      /\ UNCHANGED <<rows, faults, covered>>

(* CollectionOrchestrator.reconcile reads the tasks, re-sends those that   *)
(* are pending or that have been running for longer than ten minutes       *)
(* (late: any running task may be, time is not modelled), then writes.     *)
Sweep(w, late) ==
  LET seen == TasksOf(job[w].run)
  IN  /\ job[w].pc = "sweeping"
      /\ late \subseteq {t \in seen : taskStatus[t] = "running"}
      /\ queue' = queue \cup {Discover(t) : t \in late \cup {u \in seen : taskStatus[u] = "pending"}}
      /\ Become(w, Summarized(w, seen))
      /\ UNCHANGED <<rows, faults, covered>>

-----------------------------------------------------------------------------
(* Faults *)

Crash(w) ==
  /\ ~IsIdle(w)
  /\ faults < MaxFaults
  /\ faults' = faults + 1
  /\ Become(w, Idle)
  /\ UNCHANGED <<rows, queue, covered>>

Lose(m) ==
  /\ m \in queue
  /\ faults < MaxFaults
  /\ faults' = faults + 1
  /\ queue' = queue \ {m}
  /\ UNCHANGED <<rows, job, covered>>

-----------------------------------------------------------------------------
(* Steps that take a message, steps that continue a handler, and the beat. *)

Deliver(w) ==
  \/ \E t \in Tasks : ClaimTask(w, t) \/ RefuseClaim(w, t)
  \/ \E m \in queue : BeginFetch(w, m)
  \/ \E a \in artifacts :
       \/ NormalizeNeedsOcr(w, a) \/ NormalizeNeedsRender(w, a)
       \/ \E k \in {"normalize", "ocr"} :
            ReplayRaises(w, k, a) \/ \E s \in Verdicts : Decide(w, k, a, s)

Continue(w) ==
  \/ \E p \in Profiles : CreateTask(w, p)
  \/ PauseTask(w) \/ DiscoverFails(w) \/ EndDiscover(w) \/ InsertCandidate(w)
  \/ \E found \in SUBSET Candidates : DiscoverCandidates(w, found)
  \/ \E c \in Candidates : FindCandidate(w, c)
  \/ FetchRaises(w)
  \/ \E a \in Artifacts : FetchReturnsBody(w, a)
  \/ \E s \in Settled : FetchReturnsNoBody(w, s)
  \/ CheckTask(w) \/ FinishTask(w) \/ ReadTasks(w) \/ WriteRun(w)
  \/ \E late \in SUBSET Tasks : Sweep(w, late)

Beat(w) ==
  \/ \E r \in Runs : ListActiveRun(w, r)
  \/ \E r \in Runs, due \in SUBSET Profiles : StartRun(w, r, due)

Next ==
  \/ \E w \in Workers : Deliver(w) \/ Continue(w) \/ Beat(w) \/ Crash(w)
  \/ \E m \in queue : RetriesUsedUp(m) \/ Lose(m)

Spec == Init /\ [][Next]_vars

-----------------------------------------------------------------------------
(* Types *)

(* The statuses, messages and jobs stay within the values the code knows.  *)
TypeOK ==
  /\ runStatus  \in [Runs -> RunOutcomes \cup {"none", "running"}]
  /\ taskStatus \in [Tasks -> TaskOutcomes \cup {"none", "pending", "running"}]
  /\ candStatus \in [Candidates -> Settled \cup {"none", "discovered", "fetching", "fetched"}]
  /\ owner      \in [Candidates -> Tasks \cup {NoTask}]
  /\ artifacts  \subseteq Artifacts
  /\ queue      \subseteq Messages
  /\ ingestSent \subseteq Candidates
  /\ job        \in [Workers -> Jobs]
  /\ faults     \in 0..MaxFaults
  /\ covered    \in [Runs -> SUBSET Tasks]

-----------------------------------------------------------------------------
(* Safety *)

Terminal(t) == taskStatus[t] \in TaskOutcomes

(* A closed run was closed over a non-empty set of its tasks, and each of  *)
(* them is still terminal: what can be open in a closed run is only a task *)
(* that was created after the run was summarised.  summarize_run and       *)
(* finish_run are two transactions, so the written status may be the       *)
(* summary of an old read; it holds because no worker reopens a task.      *)
ClosedOverTerminalTasks ==
  \A r \in Runs : Closed(r) =>
    /\ covered[r] # {}
    /\ \A t \in covered[r] : RunOf(t) = r /\ Terminal(t)

(* Whatever a message names has been committed before: a task that exists, *)
(* a candidate row, an artifact row.  The handlers look their argument up  *)
(* and fail for good when it is missing, and a candidate can be named only *)
(* after its task was claimed.                                             *)
MessagesNameCommittedRows ==
  \A m \in queue :
    /\ m \in DiscoverMessages => taskStatus[m.task] # "none"
    /\ m \in FetchMessages => candStatus[m.cand] # "none"
    /\ m \in ReplayMessages =>
         m.artifact \in artifacts /\ candStatus[m.artifact.cand] # "none"

(* A task moves from pending to running to an outcome; it leaves pending   *)
(* only by being claimed and never becomes open again, although discovers  *)
(* are re-sent, handlers of the same task overlap and advance_task has no  *)
(* guard.                                                                  *)
TaskStep(old, new) ==
  \/ new = old
  \/ old = "none" /\ new = "pending"
  \/ old \in {"pending", "running"} /\ new = "running"
  \/ old # "none" /\ old # "pending" /\ new \in TaskOutcomes
TaskLifecycle == [][\A t \in Tasks : TaskStep(taskStatus[t], taskStatus'[t])]_vars

(* A candidate stays with the task that inserted it and is never a new     *)
(* discovery again, although two discovers may both have seen no row for   *)
(* its idempotency key before either inserted one.                         *)
CandidateStep(c) ==
  owner[c] # NoTask =>
    /\ owner'[c] = owner[c]
    /\ candStatus'[c] = "discovered" => candStatus[c] = "discovered"
CandidateKeepsTask == [][\A c \in Candidates : CandidateStep(c)]_vars

(* What the tables tell a reader: tasks belong to runs that are there and  *)
(* keep their life cycle, a candidate belongs to one task of its own       *)
(* source, a document is sent on for such a candidate only, and a run is   *)
(* closed over tasks that have ended.  The handlers look none of this up   *)
(* when they write: it follows from the order of their transactions.       *)
Ledger == INSTANCE CollectionLedger WITH
            run <- runStatus, task <- taskStatus, owner <- owner, sent <- ingestSent, basis <- covered
ImplementsLedger == Ledger!Spec

-----------------------------------------------------------------------------
(* Liveness *)

(* Every queue of celery_app.task_routes is FIFO and has consumers, so a   *)
(* message that is sent over and over is taken; a handler that is running  *)
(* goes on until it ends or its worker crashes; Beat lists a run for as    *)
(* long as it is active, and sooner or later does so more than ten minutes *)
(* after a running task was last touched.  New runs need not be started.   *)
Fairness ==
  /\ \A w \in Workers : WF_vars(Continue(w))
  /\ \A t \in Tasks : SF_vars(\E w \in Workers : ClaimTask(w, t) \/ RefuseClaim(w, t))
  /\ SF_vars(\E w \in Workers, m \in queue : BeginFetch(w, m))
  /\ SF_vars(\E w \in Workers, a \in artifacts, s \in Verdicts : Decide(w, "normalize", a, s))
  /\ \A r \in Runs : SF_vars(\E w \in Workers : ListActiveRun(w, r))
  /\ SF_vars(\E w \in Workers, late \in SUBSET Tasks :
              /\ Sweep(w, late)
              /\ \A t \in TasksOf(job[w].run) : taskStatus[t] = "running" => t \in late)

FairSpec == Spec /\ Fairness

(* A run that got at least one task is closed in the end, and stays        *)
(* closed: whatever messages and workers are lost, although a stale        *)
(* summary may write "running" over an outcome and although tasks are      *)
(* added to a run that was already closed.                                 *)
RunSettles == \A r \in Runs : TasksOf(r) # {} ~> []Closed(r)

(* The comment in CollectionOrchestrator.create_run: the identity in the   *)
(* database comes first, and a lost message is rebuilt by the reconciler.  *)
LostMessageIsRebuilt ==
  \A t \in Tasks : taskStatus[t] = "pending" ~> taskStatus[t] # "pending"

(* The docstring of reconcile_collection_runs_task: the loss of Redis does *)
(* not change the final conclusion about a candidate.                      *)
LossChangesNoConclusion ==
  \A c \in Candidates : candStatus[c] = "discovered" ~> candStatus[c] # "discovered"
===============================================================================
