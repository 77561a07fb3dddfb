--------------------------------- MODULE Sessions ---------------------------------
(***************************************************************************)
(* A session of the agent: AgentSessionStore with its row in PostgreSQL    *)
(* and its copy in Redis, and the requests that use it: the execution of a *)
(* research plan (PlanExecuteRunner), the edit of the plan, a question     *)
(* (QueryService), and the reports of the finished executions as files.    *)
(*                                                                         *)
(* Every call of the store reads the whole session, changes it and writes  *)
(* it back; the reads and writes of two requests interleave.  A request    *)
(* that loses Redis once leaves the whole process without it.              *)
(*                                                                         *)
(* A report is a file that is named by the second it is saved in and the   *)
(* first thirty characters of the topic, and overwrites one of that name.  *)
(***************************************************************************)
EXTENDS Naturals, Sequences

CONSTANTS Threads,      \* request threads of the process
          None,
          MaxRequests,  \* bound: requests
          MaxFaults     \* bound: failures of Redis or PostgreSQL, restarts

VARIABLES
  row,      \* agent_sessions
  cache,    \* the session's key in Redis
  linked,   \* the store has its Redis client
  files,    \* output/research: a second -> the execution whose report is there
  saves,    \* a second -> the executions that saved a report in it
  job,      \* what a request is doing
  requests, faults

vars == <<row, cache, linked, files, saves, job, requests, faults>>

Statuses == {"planned", "approved", "running", "completed", "failed"}
Ids == 1 .. MaxRequests
Seconds == Ids
Other == 0

(* The plan and the answer are named by the request they are from, the     *)
(* report by its file; the messages, events and todos are left out.        *)
Session == [status : Statuses, plan : 0 .. MaxRequests,
            answer : Ids \cup {None}, report : Seconds \cup {None}, failed : BOOLEAN]
Planned == [status |-> "planned", plan |-> 0, answer |-> None, report |-> None, failed |-> FALSE]

Idle == [role |-> None, at |-> "idle", op |-> None, copy |-> None, id |-> None, report |-> None]

(* create_session: cached, then stored.                                    *)
Init ==
  /\ row = Planned
  /\ linked \in BOOLEAN
  /\ cache = IF linked THEN Planned ELSE None
  /\ files = [n \in Seconds |-> None] /\ saves = [n \in Seconds |-> {}]
  /\ job = [t \in Threads |-> Idle]
  /\ requests = 0 /\ faults = 0

(* What a call makes of the session.  complete_session and fail_session    *)
(* write the outcome, update_status its status, the others their part.     *)
Changed(s, op, id, report) ==
  CASE op = "plan"     -> [s EXCEPT !.plan = id, !.status = "planned"]
    [] op = "approve"  -> [s EXCEPT !.status = "approved", !.failed = FALSE]
    [] op = "run"      -> [s EXCEPT !.status = "running", !.failed = FALSE]
    [] op \in {"event", "todos", "summary"} -> s
    [] op = "complete" -> [s EXCEPT !.status = "completed", !.answer = id, !.report = report, !.failed = FALSE]
    [] op = "fail"     -> [s EXCEPT !.status = "failed", !.failed = TRUE]

Step(t, j) == [job EXCEPT ![t] = j]
Start(t, op) == [job[t] EXCEPT !.at = "load", !.op = op, !.copy = None]
Quiet == UNCHANGED <<files, saves, requests>>

(* A call fails: an execution that runs records the failure, and a failure *)
(* to do that ends it like any other request.                              *)
Failed(t) ==
  IF job[t].role = "execute" /\ job[t].op \in {"event", "todos", "complete", "summary"}
  THEN Start(t, "fail") ELSE Idle

Begin(t) ==
  /\ job[t].at = "idle" /\ requests < MaxRequests
  /\ requests' = requests + 1
  /\ \E r \in {<<"execute", "approve">>, <<"edit", "plan">>, <<"ask", "event">>} :
       job' = [job EXCEPT ![t] =
                 [Idle EXCEPT !.role = r[1], !.at = "load", !.op = r[2], !.id = requests']]
  /\ UNCHANGED <<row, cache, linked, files, saves, faults>>

(* get_session: the cached session, or the row, which is then cached.      *)
Load(t) ==
  /\ job[t].at = "load"
  /\ job' = Step(t, IF linked /\ cache # None
                    THEN [job[t] EXCEPT !.at = "change", !.copy = cache]
                    ELSE [job[t] EXCEPT !.at = IF linked THEN "fill" ELSE "change", !.copy = row])
  /\ UNCHANGED <<row, cache, linked, faults>> /\ Quiet

Fill(t) ==
  /\ job[t].at = "fill"
  /\ cache' = IF linked THEN job[t].copy ELSE cache
  /\ job' = Step(t, [job[t] EXCEPT !.at = "change"])
  /\ UNCHANGED <<row, linked, faults>> /\ Quiet

(* The changed session is cached.  Events, messages and todos are stored   *)
(* only if there is no Redis, outcomes by flush_session, the rest next.    *)
CachedOps == {"event", "todos"}
Change(t) ==
  LET s == Changed(job[t].copy, job[t].op, job[t].id, job[t].report)
      then == CASE job[t].op \in CachedOps -> IF linked THEN "between" ELSE "write"
                [] job[t].op \in {"complete", "fail"} -> "flush"
                [] OTHER -> "write"
  IN  /\ job[t].at = "change"
      /\ cache' = IF linked THEN s ELSE cache
      /\ job' = Step(t, [job[t] EXCEPT !.at = then, !.copy = IF then = "write" THEN s ELSE None])
      /\ UNCHANGED <<row, linked, faults>> /\ Quiet

(* flush_session stores what is cached.  Without Redis that is nothing: it *)
(* reads the row and stores it again.                                      *)
Flush(t) ==
  /\ job[t].at = "flush"
  /\ job' = Step(t, [job[t] EXCEPT !.at = "write",
                                   !.copy = IF linked /\ cache # None THEN cache ELSE row])
  /\ UNCHANGED <<row, cache, linked, faults>> /\ Quiet

(* _upsert_session: every column is overwritten.                           *)
Write(t) ==
  /\ job[t].at = "write"
  /\ row' = job[t].copy
  /\ job' = Step(t, [job[t] EXCEPT !.at = "between", !.copy = None])
  /\ UNCHANGED <<cache, linked, faults>> /\ Quiet

(* The calls that reach PostgreSQL and raise when it fails.                *)
Touches(t) == (job[t].at = "load" /\ ~(linked /\ cache # None)) \/ job[t].at = "write"

(* PostgreSQL fails: nothing is read or written and the call raises; only  *)
(* flush_session ignores that it can read nothing.                         *)
DatabaseFails(t) ==
  /\ faults < MaxFaults /\ faults' = faults + 1
  /\ \/ /\ Touches(t)
        /\ job' = Step(t, Failed(t))
     \/ /\ job[t].at = "flush" /\ ~linked
        /\ job' = Step(t, [job[t] EXCEPT !.at = "between"])
  /\ UNCHANGED <<row, cache, linked>> /\ Quiet

(* A command of Redis fails: the store forgets its client.  The call goes  *)
(* on as if there was no Redis; what Change meant to cache is gone.        *)
RedisFails(t) ==
  /\ linked /\ faults < MaxFaults /\ faults' = faults + 1
  /\ job[t].at \in {"load", "fill", "change", "flush"}
  /\ linked' = FALSE
  /\ job' = Step(t, [job[t] EXCEPT !.at = IF @ = "change" /\ job[t].op \in CachedOps THEN "between" ELSE @])
  /\ UNCHANGED <<row, cache>> /\ Quiet

-----------------------------------------------------------------------------
(* The call after a call; "save" is the report, "end" the end.             *)
Follows(role, op) ==
  CASE op = "approve" -> {"run"}
    [] op = "todos" -> {"event"}
    [] op \in {"run", "event"} ->
         IF role = "ask" THEN {"event", "summary", "end"} ELSE {"event", "todos", "save", "fail"}
    [] op = "complete" -> {"summary", "end"}
    [] OTHER -> {"end"}

Proceed(t) ==
  /\ job[t].at = "between"
  /\ \E next \in Follows(job[t].role, job[t].op) :
       job' = [job EXCEPT ![t] =
         CASE next = "end"  -> Idle
           [] next = "save" -> [@ EXCEPT !.at = "save"]
           [] OTHER         -> Start(t, next)]
  /\ UNCHANGED <<row, cache, linked, faults>> /\ Quiet

(* Variant: the session is completed before the report is written.         *)
CompleteFirst(t) ==
  /\ job[t].at = "save"
  /\ \E n \in Seconds : job' = [job EXCEPT ![t] = [Start(t, "complete") EXCEPT !.report = n]]
  /\ UNCHANGED <<row, cache, linked, files, saves, requests, faults>>

(* save_report.  An execution, of this session or of another one with such *)
(* a topic, that saves in the same second overwrites the file.             *)
Saved(n, id) ==
  /\ files' = [files EXCEPT ![n] = id]
  /\ saves' = [saves EXCEPT ![n] = @ \cup {id}]

SaveReport(t) ==
  /\ job[t].at = "save"
  /\ \E n \in Seconds :
       Saved(n, job[t].id) /\ job' = [job EXCEPT ![t] = [Start(t, "complete") EXCEPT !.report = n]]
  /\ UNCHANGED <<row, cache, linked, requests, faults>>

(* Before the file is opened, or while it is written.                      *)
SaveFails(t) ==
  /\ job[t].at = "save" /\ faults < MaxFaults /\ faults' = faults + 1
  /\ job' = [job EXCEPT ![t] = Start(t, "fail")]
  /\ (\E n \in Seconds : Saved(n, Other)) \/ UNCHANGED <<files, saves>>
  /\ UNCHANGED <<row, cache, linked, requests>>

OtherSession ==
  /\ requests < MaxRequests /\ requests' = requests + 1
  /\ \E n \in Seconds : Saved(n, Other)
  /\ UNCHANGED <<row, cache, linked, job, faults>>

(* The client of a stream goes away: the generator is closed where it has  *)
(* yielded an event, and nothing records that the execution ended.         *)
Leave(t) ==
  /\ job[t].at = "between" /\ job[t].op \in {"run", "event"}
  /\ job' = [job EXCEPT ![t] = Idle]
  /\ UNCHANGED <<row, cache, linked, faults>> /\ Quiet

DeleteReport ==
  /\ \E n \in Seconds : files[n] # None /\ files' = [files EXCEPT ![n] = None]
  /\ UNCHANGED <<row, cache, linked, saves, job, requests, faults>>

(* The process starts again and connects to Redis, where the session lasts.*)
Restart ==
  /\ faults < MaxFaults /\ faults' = faults + 1
  /\ linked' \in BOOLEAN
  /\ job' = [t \in Threads |-> Idle]
  /\ UNCHANGED <<row, cache>> /\ Quiet

Next ==
  \/ \E t \in Threads : \/ Begin(t) \/ Load(t) \/ Fill(t) \/ Change(t) \/ Flush(t) \/ Write(t)
                        \/ DatabaseFails(t) \/ RedisFails(t) \/ Proceed(t) \/ SaveReport(t)
                        \/ SaveFails(t) \/ Leave(t)
  \/ OtherSession \/ DeleteReport \/ Restart
Spec == Init /\ [][Next]_vars

-----------------------------------------------------------------------------
Ops == {"plan", "approve", "run", "event", "todos", "summary", "complete", "fail"}
Job == [role : {"execute", "edit", "ask", None},
        at : {"idle", "load", "fill", "change", "flush", "write", "between", "save"},
        op : Ops \cup {None}, copy : Session \cup {None}, id : Ids \cup {None},
        report : Seconds \cup {None}]
TypeOK ==
  /\ row \in Session /\ cache \in Session \cup {None}
  /\ linked \in BOOLEAN
  /\ files \in [Seconds -> Ids \cup {Other, None}] /\ saves \in [Seconds -> SUBSET (Ids \cup {Other})]
  /\ requests \in 0 .. MaxRequests /\ faults \in 0 .. MaxFaults
  /\ job \in [Threads -> Job]

(* However two executions, an edit and a question overwrite each other's   *)
(* session, a session that reads as completed has no error, and the        *)
(* execution whose answer it has saved its report under the name it has;   *)
(* a file that is still there holds that report, or one that was saved in  *)
(* the same second (execute, complete_session, save_report).               *)
Good(s, saved) ==
  s.status = "completed" => s.report \in Seconds /\ s.answer \in saved[s.report] /\ ~s.failed
CompletedHasReport == \A s \in {row, cache} \ {None} :
  Good(s, saves) /\ (s.status = "completed" => files[s.report] \in saves[s.report] \cup {None})

(* Inductive form: the sessions that requests hold are no worse, and an    *)
(* execution that completes its session has saved its report.              *)
JobOK(j, saved) ==
  /\ j.at \in {"fill", "change", "write"} => j.copy \in Session /\ Good(j.copy, saved)
  /\ j.at # "idle" => /\ j.op \in Ops /\ j.id \in Ids
                      /\ j.op = "complete" => j.report \in Seconds /\ j.id \in saved[j.report]
IInv ==
  /\ TypeOK
  /\ \A n \in Seconds : files[n] \in saves[n] \cup {None}
  /\ Good(row, saves) /\ (cache # None => Good(cache, saves))
  /\ \A t \in Threads : JobOK(job[t], saves)
===================================================================================
