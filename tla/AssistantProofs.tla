------------------------------ MODULE AssistantProofs ------------------------------
(* That a completed session has its report, that a core memory which has   *)
(* a revision is served, that a fact which was weighed alone is as         *)
(* verified as its evidence makes it, that links by name stay right, that  *)
(* what was streamed is the answer, that the best results are shown, and   *)
(* that every part keeps to its types: for any requests, facts, names,     *)
(* texts and results.                                                      *)
EXTENDS UpkeepProofs, WellFoundedInduction, TLAPS

(* What a call makes of a good session is a good session.                  *)
LEMMA SessionChanged ==
  ASSUME NEW s \in Ses!Session, NEW op \in Ses!Ops, NEW id \in Ses!Ids, NEW n, NEW saved,
         Ses!Good(s, saved), op = "complete" => n \in Ses!Seconds /\ id \in saved[n]
  PROVE  Ses!Changed(s, op, id, n) \in Ses!Session /\ Ses!Good(Ses!Changed(s, op, id, n), saved)
<1>1. id # None /\ id \in 0 .. MaxSessionRequests
  BY SessionsAssumption DEF Ses!Ids
<1>2. s = [status |-> s.status, plan |-> s.plan, answer |-> s.answer, report |-> s.report, failed |-> s.failed]
  BY DEF Ses!Session
<1>3. CASE op = "plan"
  BY <1>1, <1>3 DEF Ses!Changed, Ses!Session, Ses!Statuses, Ses!Good
<1>4. CASE op = "approve"
  BY <1>4 DEF Ses!Changed, Ses!Session, Ses!Statuses, Ses!Good
<1>5. CASE op = "run"
  BY <1>5 DEF Ses!Changed, Ses!Session, Ses!Statuses, Ses!Good
<1>6. CASE op \in {"event", "todos", "summary"}
  BY <1>6 DEF Ses!Changed
<1>7. CASE op = "complete"
  BY <1>1, <1>7 DEF Ses!Changed, Ses!Session, Ses!Statuses, Ses!Good
<1>8. CASE op = "fail"
  BY <1>8 DEF Ses!Changed, Ses!Session, Ses!Statuses, Ses!Good
<1> QED BY <1>3, <1>4, <1>5, <1>6, <1>7, <1>8 DEF Ses!Ops

LEMMA SessionInitIInv == Ses!Init => Ses!IInv
  BY SessionsAssumption DEF Ses!Init, Ses!IInv, Ses!TypeOK, Ses!Session, Ses!Planned, Ses!Statuses,
       Ses!Idle, Ses!Job, Ses!JobOK, Ses!Good, Ses!Ids, Ses!Seconds

(* A step of one request: the reports that were saved stay saved, and what *)
(* is stored, cached and held after it is good.                            *)
LEMMA SessionStep ==
  ASSUME Ses!IInv, NEW t \in Threads, NEW j \in Ses!Job, task' = [task EXCEPT ![t] = j],
         NEW saved, saved = saves', \A n \in Ses!Seconds : saves[n] \subseteq saved[n],
         Ses!JobOK(j, saved),
         row' \in Ses!Session, Ses!Good(row', saved),
         cache' \in Ses!Session \cup {None}, cache' # None => Ses!Good(cache', saved),
         linked' \in BOOLEAN, files' \in [Ses!Seconds -> Ses!Ids \cup {Ses!Other, None}],
         saves' \in [Ses!Seconds -> SUBSET (Ses!Ids \cup {Ses!Other})],
         \A n \in Ses!Seconds : files'[n] \in saved[n] \cup {None},
         requests' \in 0 .. MaxSessionRequests, faults' \in 0 .. MaxFaults
  PROVE  Ses!IInv'
<1>1. Ses!TypeOK'
  BY DEF Ses!IInv, Ses!TypeOK
<1>2. ASSUME NEW u \in Threads PROVE Ses!JobOK(task'[u], saved)
  <2>1. CASE u = t
    BY <2>1 DEF Ses!IInv, Ses!TypeOK
  <2>2. CASE u # t
    BY <2>2 DEF Ses!IInv, Ses!TypeOK, Ses!JobOK, Ses!Good
  <2> QED BY <2>1, <2>2
<1> QED BY <1>1, <1>2 DEF Ses!IInv

(* A step that leaves the session and the reports as they are.             *)
LEMMA SessionQuietStep ==
  ASSUME Ses!IInv, NEW t \in Threads, NEW j \in Ses!Job, task' = [task EXCEPT ![t] = j],
         Ses!JobOK(j, saves),
         UNCHANGED <<row, cache, files, saves, requests>>,
         linked' \in BOOLEAN, faults' \in 0 .. MaxFaults
  PROVE  Ses!IInv'
<1>1. PICK saved : saved = saves'
  OBVIOUS
<1>2. saved = saves
  BY <1>1
<1> QED BY <1>1, <1>2, SessionStep DEF Ses!IInv, Ses!TypeOK

(* What a request is doing, as a record, and what may follow of it.        *)
LEMMA SessionJob ==
  ASSUME Ses!IInv, NEW t \in Threads, task[t].at # "idle"
  PROVE  /\ task[t] \in Ses!Job /\ Ses!JobOK(task[t], saves)
         /\ task[t].op \in Ses!Ops /\ task[t].id \in Ses!Ids
  BY DEF Ses!IInv, Ses!TypeOK, Ses!Job, Ses!JobOK

LEMMA SessionStart ==
  ASSUME Ses!IInv, NEW t \in Threads, task[t].at # "idle", NEW op \in Ses!Ops,
         op = "complete" => task[t].report \in Ses!Seconds /\ task[t].id \in saves[task[t].report]
  PROVE  Ses!Start(t, op) \in Ses!Job /\ Ses!JobOK(Ses!Start(t, op), saves)
<1>1. task[t] \in Ses!Job /\ task[t].id \in Ses!Ids
  BY SessionJob
<1>2. Ses!Start(t, op) = [role |-> task[t].role, at |-> "load", op |-> op, copy |-> None, id |-> task[t].id,
                          report |-> task[t].report]
  <2>1. PICK i : i = task[t]
    OBVIOUS
  <2>2. i = [role |-> i.role, at |-> i.at, op |-> i.op, copy |-> i.copy, id |-> i.id, report |-> i.report]
    BY <1>1, <2>1 DEF Ses!Job
  <2>3. Ses!Start(t, op) = [i EXCEPT !.at = "load", !.op = op, !.copy = None]
    BY <2>1 DEF Ses!Start
  <2> QED BY <2>1, <2>2, <2>3
<1> QED BY <1>1, <1>2 DEF Ses!Job, Ses!JobOK

LEMMA SessionIdle == Ses!Idle \in Ses!Job /\ \A saved : Ses!JobOK(Ses!Idle, saved)
  BY DEF Ses!Idle, Ses!Job, Ses!JobOK

LEMMA SessionBeginStep == ASSUME Ses!IInv, NEW t \in Threads, Ses!Begin(t) PROVE Ses!IInv'
<1>1. PICK role \in {"execute", "edit", "ask"}, op \in {"approve", "plan", "event"} :
        task' = [task EXCEPT ![t] = [Ses!Idle EXCEPT !.role = role, !.at = "load", !.op = op, !.id = requests']]
  <2>1. PICK r \in {<<"execute", "approve">>, <<"edit", "plan">>, <<"ask", "event">>} :
          task' = [task EXCEPT ![t] = [Ses!Idle EXCEPT !.role = r[1], !.at = "load", !.op = r[2], !.id = requests']]
    BY DEF Ses!Begin
  <2>2. r[1] \in {"execute", "edit", "ask"} /\ r[2] \in {"approve", "plan", "event"}
    OBVIOUS
  <2> QED BY <2>1, <2>2
<1>2. PICK n : n = requests + 1
  OBVIOUS
<1>3. requests' = n /\ n \in Ses!Ids /\ n \in 0 .. MaxSessionRequests
  BY <1>2, SessionsAssumption DEF Ses!Begin, Ses!IInv, Ses!TypeOK, Ses!Ids
<1>4. PICK j : j = [role |-> role, at |-> "load", op |-> op, copy |-> None, id |-> n, report |-> None]
  OBVIOUS
<1>5. task' = [task EXCEPT ![t] = j]
  <2>1. j = [Ses!Idle EXCEPT !.role = role, !.at = "load", !.op = op, !.id = n]
    <3>1. PICK i : i = [Ses!Idle EXCEPT !.role = role, !.at = "load", !.op = op, !.id = n]
      OBVIOUS
    <3>2. i = [role |-> role, at |-> "load", op |-> op, copy |-> None, id |-> n, report |-> None]
      BY <3>1 DEF Ses!Idle
    <3> QED BY <1>4, <3>1, <3>2
  <2> QED BY <1>1, <1>3, <2>1
<1>6. j \in Ses!Job
  BY <1>3, <1>4 DEF Ses!Job, Ses!Ops
<1>7. PICK saved : saved = saves'
  OBVIOUS
<1>8. saved = saves /\ Ses!JobOK(j, saved)
  BY <1>3, <1>4, <1>7 DEF Ses!Begin, Ses!JobOK, Ses!Ops
<1> QED BY <1>3, <1>5, <1>6, <1>7, <1>8, SessionStep DEF Ses!Begin, Ses!IInv, Ses!TypeOK

LEMMA SessionLoadStep == ASSUME Ses!IInv, NEW t \in Threads, Ses!Load(t) PROVE Ses!IInv'
<1>1. /\ task[t] \in Ses!Job /\ task[t].op \in Ses!Ops /\ task[t].id \in Ses!Ids
      /\ task[t].op = "complete" => task[t].report \in Ses!Seconds /\ task[t].id \in saves[task[t].report]
  BY SessionJob DEF Ses!Load, Ses!JobOK
<1>2. PICK place \in {"fill", "change"}, copy \in {row, cache} :
        /\ copy = cache => cache # None \/ copy = row
        /\ task' = [task EXCEPT ![t] = [task[t] EXCEPT !.at = place, !.copy = copy]]
  BY DEF Ses!Load, Ses!Step
<1>3. copy \in Ses!Session /\ Ses!Good(copy, saves)
  BY <1>2 DEF Ses!IInv, Ses!TypeOK
<1>4. PICK j : j = [task[t] EXCEPT !.at = place, !.copy = copy]
  OBVIOUS
<1>5. /\ j \in Ses!Job /\ j.at = place /\ j.copy = copy /\ j.op = task[t].op /\ j.id = task[t].id /\ j.report = task[t].report
  BY <1>1, <1>3, <1>4 DEF Ses!Job
<1>6. Ses!JobOK(j, saves)
  BY <1>1, <1>3, <1>5 DEF Ses!JobOK
<1> QED BY <1>2, <1>4, <1>5, <1>6, SessionQuietStep DEF Ses!Load, Ses!Quiet, Ses!IInv, Ses!TypeOK

(* A step that changes what is cached or stored, and no report.            *)
LEMMA SessionStoreStep ==
  ASSUME Ses!IInv, NEW t \in Threads, NEW j \in Ses!Job, task' = [task EXCEPT ![t] = j],
         Ses!JobOK(j, saves),
         row' \in Ses!Session, Ses!Good(row', saves),
         cache' = cache \/ (cache' \in Ses!Session /\ Ses!Good(cache', saves)),
         UNCHANGED <<linked, faults, files, saves, requests>>
  PROVE  Ses!IInv'
<1>1. PICK saved : saved = saves'
  OBVIOUS
<1>2. saved = saves
  BY <1>1
<1>3. cache' \in Ses!Session \cup {None} /\ (cache' # None => Ses!Good(cache', saved))
  BY <1>2 DEF Ses!IInv, Ses!TypeOK
<1> QED BY <1>1, <1>2, <1>3, SessionStep DEF Ses!IInv, Ses!TypeOK

LEMMA SessionFillStep == ASSUME Ses!IInv, NEW t \in Threads, Ses!Fill(t) PROVE Ses!IInv'
<1>1. /\ task[t] \in Ses!Job /\ Ses!JobOK(task[t], saves)
  BY SessionJob DEF Ses!Fill
<1>2. PICK j : j = [task[t] EXCEPT !.at = "change"]
  OBVIOUS
<1>3. /\ j \in Ses!Job /\ j.at = "change" /\ j.copy = task[t].copy /\ j.op = task[t].op /\ j.id = task[t].id /\ j.report = task[t].report
  BY <1>1, <1>2 DEF Ses!Job
<1>4. /\ task[t].copy \in Ses!Session /\ Ses!Good(task[t].copy, saves)
      /\ Ses!JobOK(j, saves)
  BY <1>1, <1>3 DEF Ses!Fill, Ses!JobOK
<1> QED BY <1>2, <1>3, <1>4, SessionStoreStep DEF Ses!Fill, Ses!Step, Ses!Quiet, Ses!IInv, Ses!TypeOK

LEMMA SessionChangeStep == ASSUME Ses!IInv, NEW t \in Threads, Ses!Change(t) PROVE Ses!IInv'
<1>1. /\ task[t] \in Ses!Job /\ task[t].op \in Ses!Ops /\ task[t].id \in Ses!Ids
      /\ task[t].op = "complete" => task[t].report \in Ses!Seconds /\ task[t].id \in saves[task[t].report]
      /\ task[t].copy \in Ses!Session /\ Ses!Good(task[t].copy, saves)
  BY SessionJob DEF Ses!Change, Ses!JobOK
<1>2. PICK s : s = Ses!Changed(task[t].copy, task[t].op, task[t].id, task[t].report)
  OBVIOUS
<1>3. s \in Ses!Session /\ Ses!Good(s, saves)
  BY <1>1, <1>2, SessionChanged
<1>4. PICK place \in {"between", "write", "flush"} :
        task' = [task EXCEPT ![t] = [task[t] EXCEPT !.at = place, !.copy = IF place = "write" THEN s ELSE None]]
  <2>1. PICK place : /\ place = CASE task[t].op \in Ses!CachedOps -> IF linked THEN "between" ELSE "write"
                                 [] task[t].op \in {"complete", "fail"} -> "flush"
                                 [] OTHER -> "write"
                     /\ task' = [task EXCEPT ![t] =
                                   [task[t] EXCEPT !.at = place, !.copy = IF place = "write" THEN s ELSE None]]
    BY <1>2 DEF Ses!Change, Ses!Step
  <2>2. place \in {"between", "write", "flush"}
    BY <2>1
  <2> QED BY <2>1, <2>2
<1>5. PICK j : /\ task' = [task EXCEPT ![t] = j]
               /\ j = [task[t] EXCEPT !.at = place, !.copy = IF place = "write" THEN s ELSE None]
  BY <1>4
<1>6. /\ j \in Ses!Job /\ j.at = place /\ j.op = task[t].op /\ j.id = task[t].id /\ j.report = task[t].report
      /\ place = "write" => j.copy = s
  BY <1>1, <1>3, <1>5 DEF Ses!Job
<1>7. Ses!JobOK(j, saves)
  BY <1>1, <1>3, <1>6 DEF Ses!JobOK
<1>8. cache' = cache \/ cache' = s
  BY <1>2 DEF Ses!Change
<1> QED BY <1>3, <1>5, <1>6, <1>7, <1>8, SessionStoreStep DEF Ses!Change, Ses!Quiet, Ses!IInv, Ses!TypeOK

LEMMA SessionFlushStep == ASSUME Ses!IInv, NEW t \in Threads, Ses!Flush(t) PROVE Ses!IInv'
<1>1. /\ task[t] \in Ses!Job /\ Ses!JobOK(task[t], saves)
  BY SessionJob DEF Ses!Flush
<1>2. PICK copy \in Ses!Session :
        /\ Ses!Good(copy, saves)
        /\ task' = [task EXCEPT ![t] = [task[t] EXCEPT !.at = "write", !.copy = copy]]
  BY DEF Ses!Flush, Ses!Step, Ses!IInv, Ses!TypeOK
<1>3. PICK j : j = [task[t] EXCEPT !.at = "write", !.copy = copy]
  OBVIOUS
<1>4. /\ j \in Ses!Job /\ j.at = "write" /\ j.copy = copy /\ j.op = task[t].op /\ j.id = task[t].id /\ j.report = task[t].report
  BY <1>1, <1>3 DEF Ses!Job
<1>5. Ses!JobOK(j, saves)
  BY <1>1, <1>2, <1>4 DEF Ses!Flush, Ses!JobOK
<1> QED BY <1>2, <1>3, <1>4, <1>5, SessionQuietStep DEF Ses!Flush, Ses!Quiet, Ses!IInv, Ses!TypeOK

LEMMA SessionWriteStep == ASSUME Ses!IInv, NEW t \in Threads, Ses!Write(t) PROVE Ses!IInv'
<1>1. /\ task[t] \in Ses!Job /\ Ses!JobOK(task[t], saves)
  BY SessionJob DEF Ses!Write
<1>2. PICK j : j = [task[t] EXCEPT !.at = "between", !.copy = None]
  OBVIOUS
<1>3. /\ j \in Ses!Job /\ j.at = "between" /\ j.op = task[t].op /\ j.id = task[t].id /\ j.report = task[t].report
  BY <1>1, <1>2 DEF Ses!Job
<1>4. /\ task[t].copy \in Ses!Session /\ Ses!Good(task[t].copy, saves)
      /\ Ses!JobOK(j, saves)
  BY <1>1, <1>3 DEF Ses!Write, Ses!JobOK
<1> QED BY <1>2, <1>3, <1>4, SessionStoreStep DEF Ses!Write, Ses!Step, Ses!Quiet, Ses!IInv, Ses!TypeOK

(* A call that fails ends the request, or makes it record the failure.     *)
LEMMA SessionFailed ==
  ASSUME Ses!IInv, NEW t \in Threads, task[t].at # "idle"
  PROVE  Ses!Failed(t) \in Ses!Job /\ Ses!JobOK(Ses!Failed(t), saves)
<1>1. Ses!Failed(t) \in {Ses!Start(t, "fail"), Ses!Idle}
  BY DEF Ses!Failed
<1>2. Ses!Start(t, "fail") \in Ses!Job /\ Ses!JobOK(Ses!Start(t, "fail"), saves)
  BY SessionStart DEF Ses!Ops
<1> QED BY <1>1, <1>2, SessionIdle

(* A fault is counted, and there are no more than there may be.            *)
LEMMA SessionFault ==
  ASSUME Ses!IInv, faults < MaxFaults, faults' = faults + 1
  PROVE  faults' \in 0 .. MaxFaults
<1>1. PICK n : n = faults + 1
  OBVIOUS
<1> QED BY <1>1, SessionsAssumption DEF Ses!IInv, Ses!TypeOK

(* The step of a request is as it was, but for where it is.                *)
LEMMA SessionMove ==
  ASSUME Ses!IInv, NEW t \in Threads, task[t].at # "idle",
         NEW place \in {"save", "between", "flush", "load", "fill", "change"},
         place \in {"fill", "change"} => task[t].at = place
  PROVE  LET j == [task[t] EXCEPT !.at = place] IN j \in Ses!Job /\ Ses!JobOK(j, saves)
<1>1. /\ task[t] \in Ses!Job /\ Ses!JobOK(task[t], saves)
  BY SessionJob
<1>2. PICK j : j = [task[t] EXCEPT !.at = place]
  OBVIOUS
<1>3. /\ j \in Ses!Job /\ j.at = place /\ j.copy = task[t].copy /\ j.op = task[t].op /\ j.id = task[t].id /\ j.report = task[t].report
  BY <1>1, <1>2 DEF Ses!Job
<1>4. Ses!JobOK(j, saves)
  BY <1>1, <1>3 DEF Ses!JobOK
<1> QED BY <1>2, <1>3, <1>4

LEMMA SessionDatabaseFailsStep == ASSUME Ses!IInv, NEW t \in Threads, Ses!DatabaseFails(t) PROVE Ses!IInv'
<1>1. faults' \in 0 .. MaxFaults
  BY SessionFault DEF Ses!DatabaseFails
<1>2. CASE Ses!Touches(t) /\ task' = Ses!Step(t, Ses!Failed(t))
  <2>1. task[t].at # "idle"
    BY <1>2 DEF Ses!Touches
  <2> QED BY <1>1, <1>2, <2>1, SessionFailed, SessionQuietStep
           DEF Ses!DatabaseFails, Ses!Step, Ses!Quiet, Ses!IInv, Ses!TypeOK
<1>3. CASE task[t].at = "flush" /\ task' = Ses!Step(t, [task[t] EXCEPT !.at = "between"])
  <2>1. PICK j : j = [task[t] EXCEPT !.at = "between"]
    OBVIOUS
  <2>2. j \in Ses!Job /\ Ses!JobOK(j, saves)
    BY <1>3, <2>1, SessionMove
  <2> QED BY <1>1, <1>3, <2>1, <2>2, SessionQuietStep
           DEF Ses!DatabaseFails, Ses!Step, Ses!Quiet, Ses!IInv, Ses!TypeOK
<1> QED BY <1>2, <1>3 DEF Ses!DatabaseFails

LEMMA SessionRedisFailsStep == ASSUME Ses!IInv, NEW t \in Threads, Ses!RedisFails(t) PROVE Ses!IInv'
<1>1. faults' \in 0 .. MaxFaults
  BY SessionFault DEF Ses!RedisFails
<1>2. PICK place \in {"between", "flush", "load", "fill", "change"} :
        /\ place \in {"fill", "change"} => task[t].at = place
        /\ task' = [task EXCEPT ![t] = [task[t] EXCEPT !.at = place]]
  BY DEF Ses!RedisFails, Ses!Step
<1>3. PICK j : j = [task[t] EXCEPT !.at = place]
  OBVIOUS
<1>4. j \in Ses!Job /\ Ses!JobOK(j, saves)
  BY <1>2, <1>3, SessionMove DEF Ses!RedisFails
<1> QED BY <1>1, <1>2, <1>3, <1>4, SessionQuietStep DEF Ses!RedisFails, Ses!Quiet

(* An execution completes its session after it saved the report, see       *)
(* SaveReport; no other call is followed by complete_session.              *)
LEMMA SessionProceedStep == ASSUME Ses!IInv, NEW t \in Threads, Ses!Proceed(t) PROVE Ses!IInv'
<1>1. task[t].at # "idle" /\ task[t].op \in Ses!Ops
  BY SessionJob DEF Ses!Proceed
<1>2. PICK next \in Ses!Follows(task[t].role, task[t].op) :
        task' = [task EXCEPT ![t] =
          CASE next = "end"  -> Ses!Idle
            [] next = "save" -> [task[t] EXCEPT !.at = "save"]
            [] OTHER         -> Ses!Start(t, next)]
  BY DEF Ses!Proceed
<1>3. next \in {"end", "save", "run", "event", "summary", "todos", "fail"}
  BY <1>1, <1>2 DEF Ses!Follows, Ses!Ops
<1>4. UNCHANGED <<row, cache, linked, faults, files, saves, requests>>
  BY DEF Ses!Proceed, Ses!Quiet
<1>5. PICK j : /\ task' = [task EXCEPT ![t] = j]
               /\ j = CASE next = "end"  -> Ses!Idle
                        [] next = "save" -> [task[t] EXCEPT !.at = "save"]
                        [] OTHER         -> Ses!Start(t, next)
  BY <1>2
<1>6. j \in Ses!Job /\ Ses!JobOK(j, saves)
  <2>1. CASE next = "end"
    BY <1>5, <2>1, SessionIdle
  <2>2. CASE next = "save"
    <3>1. PICK i : i = [task[t] EXCEPT !.at = "save"]
      OBVIOUS
    <3> QED BY <1>1, <1>5, <2>2, <3>1, SessionMove
  <2>3. CASE next \in {"run", "event", "summary", "todos", "fail"}
    BY <1>1, <1>5, <2>3, SessionStart DEF Ses!Ops
  <2> QED BY <1>3, <2>1, <2>2, <2>3
<1> QED BY <1>4, <1>5, <1>6, SessionQuietStep DEF Ses!IInv, Ses!TypeOK

(* One more report in a file: what was saved stays so.                     *)
LEMMA SessionSaved ==
  ASSUME Ses!IInv, NEW n \in Ses!Seconds, NEW id \in Ses!Ids \cup {Ses!Other}, Ses!Saved(n, id)
  PROVE  /\ files' \in [Ses!Seconds -> Ses!Ids \cup {Ses!Other, None}]
         /\ saves' \in [Ses!Seconds -> SUBSET (Ses!Ids \cup {Ses!Other})]
         /\ \A m \in Ses!Seconds : saves[m] \subseteq saves'[m] /\ files'[m] \in saves'[m] \cup {None}
         /\ id \in saves'[n]
         /\ Ses!Good(row, saves') /\ (cache # None => Ses!Good(cache, saves'))
<1>1. /\ files \in [Ses!Seconds -> Ses!Ids \cup {Ses!Other, None}]
      /\ saves \in [Ses!Seconds -> SUBSET (Ses!Ids \cup {Ses!Other})]
      /\ \A m \in Ses!Seconds : files[m] \in saves[m] \cup {None}
  BY DEF Ses!IInv, Ses!TypeOK
<1>2. files' = [files EXCEPT ![n] = id] /\ saves' = [saves EXCEPT ![n] = saves[n] \cup {id}]
  BY DEF Ses!Saved
<1>3. /\ files' \in [Ses!Seconds -> Ses!Ids \cup {Ses!Other, None}]
      /\ saves' \in [Ses!Seconds -> SUBSET (Ses!Ids \cup {Ses!Other})]
      /\ \A m \in Ses!Seconds : saves[m] \subseteq saves'[m] /\ files'[m] \in saves'[m] \cup {None}
      /\ id \in saves'[n]
  BY <1>1, <1>2
<1>4. Ses!Good(row, saves') /\ (cache # None => Ses!Good(cache, saves'))
  BY <1>3 DEF Ses!IInv, Ses!Good
<1> QED BY <1>3, <1>4

LEMMA SessionSaveReportStep == ASSUME Ses!IInv, NEW t \in Threads, Ses!SaveReport(t) PROVE Ses!IInv'
<1>1. /\ task[t].at # "idle" /\ task[t] \in Ses!Job /\ task[t].id \in Ses!Ids
  BY SessionJob DEF Ses!SaveReport
<1>2. PICK n \in Ses!Seconds :
        Ses!Saved(n, task[t].id) /\ task' = [task EXCEPT ![t] = [Ses!Start(t, "complete") EXCEPT !.report = n]]
  BY DEF Ses!SaveReport
<1>3. PICK j : j = [Ses!Start(t, "complete") EXCEPT !.report = n]
  OBVIOUS
<1>4. j = [role |-> task[t].role, at |-> "load", op |-> "complete", copy |-> None, id |-> task[t].id, report |-> n]
  <2>1. PICK i : i = task[t]
    OBVIOUS
  <2>2. i = [role |-> i.role, at |-> i.at, op |-> i.op, copy |-> i.copy, id |-> i.id, report |-> i.report]
    BY <1>1, <2>1 DEF Ses!Job
  <2>3. Ses!Start(t, "complete") = [role |-> i.role, at |-> "load", op |-> "complete", copy |-> None,
                                    id |-> i.id, report |-> i.report]
    <3>1. PICK a : a = [i EXCEPT !.at = "load"]
      OBVIOUS
    <3>2. a = [role |-> i.role, at |-> "load", op |-> i.op, copy |-> i.copy, id |-> i.id, report |-> i.report]
      BY <2>2, <3>1
    <3>3. PICK b : b = [a EXCEPT !.op = "complete"]
      OBVIOUS
    <3>4. b = [role |-> i.role, at |-> "load", op |-> "complete", copy |-> i.copy, id |-> i.id, report |-> i.report]
      BY <3>2, <3>3
    <3>5. [b EXCEPT !.copy = None] = [role |-> i.role, at |-> "load", op |-> "complete", copy |-> None,
                                      id |-> i.id, report |-> i.report]
      BY <3>4
    <3> QED BY <2>1, <3>1, <3>3, <3>5 DEF Ses!Start
  <2> QED BY <1>3, <2>1, <2>3
<1>5. PICK saved : saved = saves'
  OBVIOUS
<1>6. j \in Ses!Job
  BY <1>1, <1>4 DEF Ses!Job, Ses!Ops
<1>7. Ses!JobOK(j, saved)
  <2>1. task[t].id \in saved[n]
    BY <1>1, <1>2, <1>5, SessionSaved
  <2> QED BY <1>1, <1>4, <2>1 DEF Ses!Ops, Ses!JobOK
<1>8. UNCHANGED <<row, cache, linked, requests, faults>>
  BY DEF Ses!SaveReport
<1>9. row \in Ses!Session /\ cache \in Ses!Session \cup {None} /\ linked \in BOOLEAN
      /\ requests \in 0 .. MaxSessionRequests /\ faults \in 0 .. MaxFaults
  BY DEF Ses!IInv, Ses!TypeOK
<1>10. /\ files' \in [Ses!Seconds -> Ses!Ids \cup {Ses!Other, None}]
       /\ saves' \in [Ses!Seconds -> SUBSET (Ses!Ids \cup {Ses!Other})]
       /\ \A m \in Ses!Seconds : saves[m] \subseteq saved[m] /\ files'[m] \in saved[m] \cup {None}
       /\ Ses!Good(row', saved) /\ (cache' # None => Ses!Good(cache', saved))
  BY <1>1, <1>2, <1>5, <1>8, SessionSaved
<1> QED BY <1>2, <1>3, <1>5, <1>6, <1>7, <1>8, <1>9, <1>10, SessionStep

LEMMA SessionSaveFailsStep == ASSUME Ses!IInv, NEW t \in Threads, Ses!SaveFails(t) PROVE Ses!IInv'
<1>1. task[t].at # "idle" /\ faults' \in 0 .. MaxFaults
  BY SessionFault DEF Ses!SaveFails
<1>2. PICK j : j = Ses!Start(t, "fail")
  OBVIOUS
<1>3. j \in Ses!Job /\ Ses!JobOK(j, saves) /\ j.op = "fail" /\ j.at = "load"
  <2>1. Ses!Start(t, "fail").op = "fail" /\ Ses!Start(t, "fail").at = "load"
    <3>1. PICK i : i = task[t] /\ i \in Ses!Job
      BY <1>1, SessionJob
    <3> QED BY <3>1 DEF Ses!Start, Ses!Job
  <2> QED BY <1>1, <1>2, <2>1, SessionStart DEF Ses!Ops
<1>4. task' = [task EXCEPT ![t] = j] /\ UNCHANGED <<row, cache, linked, requests>>
  BY <1>2 DEF Ses!SaveFails
<1>5. CASE UNCHANGED <<files, saves>>
  BY <1>1, <1>3, <1>4, <1>5, SessionQuietStep DEF Ses!IInv, Ses!TypeOK
<1>6. CASE \E n \in Ses!Seconds : Ses!Saved(n, Ses!Other)
  <2>1. PICK n \in Ses!Seconds : Ses!Saved(n, Ses!Other)
    BY <1>6
  <2>2. PICK saved : saved = saves'
    OBVIOUS
  <2>3. Ses!JobOK(j, saved)
    BY <1>3 DEF Ses!JobOK
  <2>4. row \in Ses!Session /\ cache \in Ses!Session \cup {None} /\ linked \in BOOLEAN
        /\ requests \in 0 .. MaxSessionRequests
    BY DEF Ses!IInv, Ses!TypeOK
  <2>5. /\ files' \in [Ses!Seconds -> Ses!Ids \cup {Ses!Other, None}]
        /\ saves' \in [Ses!Seconds -> SUBSET (Ses!Ids \cup {Ses!Other})]
        /\ \A m \in Ses!Seconds : saves[m] \subseteq saved[m] /\ files'[m] \in saved[m] \cup {None}
        /\ Ses!Good(row', saved) /\ (cache' # None => Ses!Good(cache', saved))
    BY <1>4, <2>1, <2>2, SessionSaved
  <2> QED BY <1>1, <1>3, <1>4, <2>2, <2>3, <2>4, <2>5, SessionStep
<1> QED BY <1>5, <1>6 DEF Ses!SaveFails

LEMMA SessionLeaveStep == ASSUME Ses!IInv, NEW t \in Threads, Ses!Leave(t) PROVE Ses!IInv'
  BY SessionIdle, SessionQuietStep DEF Ses!Leave, Ses!Quiet, Ses!IInv, Ses!TypeOK

(* No request moves: another session saves, a report is deleted, or the    *)
(* process starts again.                                                   *)
LEMMA SessionOtherStep == ASSUME Ses!IInv, Ses!OtherSession PROVE Ses!IInv'
<1>1. PICK n \in Ses!Seconds : Ses!Saved(n, Ses!Other)
  BY DEF Ses!OtherSession
<1>2. UNCHANGED <<row, cache, linked, task, faults>>
  BY DEF Ses!OtherSession
<1>3. requests' \in 0 .. MaxSessionRequests
  <2>1. requests \in Nat /\ requests < MaxSessionRequests /\ requests' = requests + 1
    BY SessionsAssumption DEF Ses!OtherSession, Ses!IInv, Ses!TypeOK
  <2> QED BY <2>1, SessionsAssumption
<1>4. PICK saved : saved = saves'
  OBVIOUS
<1>5. /\ files' \in [Ses!Seconds -> Ses!Ids \cup {Ses!Other, None}]
      /\ saves' \in [Ses!Seconds -> SUBSET (Ses!Ids \cup {Ses!Other})]
      /\ \A m \in Ses!Seconds : saves[m] \subseteq saved[m] /\ files'[m] \in saved[m] \cup {None}
      /\ Ses!Good(row, saved) /\ (cache # None => Ses!Good(cache, saved))
  BY <1>1, <1>4, SessionSaved
<1>6. \A t \in Threads : Ses!JobOK(task[t], saved)
  BY <1>5 DEF Ses!IInv, Ses!JobOK, Ses!Good
<1>7. Ses!TypeOK'
  BY <1>2, <1>3, <1>4, <1>5 DEF Ses!IInv, Ses!TypeOK
<1> QED BY <1>2, <1>4, <1>5, <1>6, <1>7 DEF Ses!IInv

LEMMA SessionDeleteReportStep == ASSUME Ses!IInv, Ses!DeleteReport PROVE Ses!IInv'
<1>1. /\ files \in [Ses!Seconds -> Ses!Ids \cup {Ses!Other, None}]
      /\ \A n \in Ses!Seconds : files[n] \in saves[n] \cup {None}
  BY DEF Ses!IInv, Ses!TypeOK
<1>2. /\ files' \in [Ses!Seconds -> Ses!Ids \cup {Ses!Other, None}]
      /\ \A n \in Ses!Seconds : files'[n] \in saves[n] \cup {None}
  BY <1>1 DEF Ses!DeleteReport
<1>3. UNCHANGED <<row, cache, linked, saves, task, requests, faults>>
  BY DEF Ses!DeleteReport
<1>4. Ses!TypeOK'
  BY <1>2, <1>3 DEF Ses!IInv, Ses!TypeOK
<1> QED BY <1>2, <1>3, <1>4 DEF Ses!IInv

LEMMA SessionRestartStep == ASSUME Ses!IInv, Ses!Restart PROVE Ses!IInv'
<1>1. faults' \in 0 .. MaxFaults
  BY SessionFault DEF Ses!Restart
<1>2. task' \in [Threads -> Ses!Job] /\ \A t \in Threads : Ses!JobOK(task'[t], saves)
  BY SessionIdle DEF Ses!Restart
<1> QED BY <1>1, <1>2 DEF Ses!Restart, Ses!Quiet, Ses!IInv, Ses!TypeOK

(* The invariant is inductive.                                             *)
LEMMA SessionNextIInv == Ses!IInv /\ [Ses!Next]_(Ses!vars) => Ses!IInv'
<1> SUFFICES ASSUME Ses!IInv, [Ses!Next]_(Ses!vars) PROVE Ses!IInv'
  OBVIOUS
<1>1. CASE UNCHANGED Ses!vars
  BY <1>1 DEF Ses!vars, Ses!IInv, Ses!TypeOK
<1>2. CASE Ses!OtherSession \/ Ses!DeleteReport \/ Ses!Restart
  BY <1>2, SessionOtherStep, SessionDeleteReportStep, SessionRestartStep
<1>3. ASSUME NEW t \in Threads,
             Ses!Begin(t) \/ Ses!Load(t) \/ Ses!Fill(t) \/ Ses!Change(t) \/ Ses!Flush(t) \/ Ses!Write(t)
      PROVE  Ses!IInv'
  BY <1>3, SessionBeginStep, SessionLoadStep, SessionFillStep, SessionChangeStep, SessionFlushStep,
     SessionWriteStep
<1>4. ASSUME NEW t \in Threads,
             Ses!DatabaseFails(t) \/ Ses!RedisFails(t) \/ Ses!Proceed(t) \/ Ses!SaveReport(t)
               \/ Ses!SaveFails(t) \/ Ses!Leave(t)
      PROVE  Ses!IInv'
  BY <1>4, SessionDatabaseFailsStep, SessionRedisFailsStep, SessionProceedStep, SessionSaveReportStep,
     SessionSaveFailsStep, SessionLeaveStep
<1> QED BY <1>1, <1>2, <1>3, <1>4 DEF Ses!Next

-----------------------------------------------------------------------------
LEMMA MemoryInitIInv == Mem!Init => Mem!IInv
<1> SUFFICES ASSUME Mem!Init PROVE Mem!IInv
  OBVIOUS
<1>1. core = <<>> /\ revise = [t \in Threads |-> [at |-> "idle", version |-> 0, after |-> 0, rows |-> {}]]
  BY DEF Mem!Init, Mem!NoRevision
<1>2. Mem!Versions = {0}
  BY <1>1 DEF Mem!Versions
<1>3. revise \in [Threads -> Mem!Revisions]
  BY <1>1 DEF Mem!Revisions
<1> QED BY <1>1, <1>2, <1>3 DEF Mem!IInv, Mem!RevisionIsServed

LEMMA MemoryCore ==
  ASSUME Mem!IInv
  PROVE  /\ Len(core) \in Nat
         /\ \A r \in 1 .. Len(core) :
              /\ core[r] \in Mem!Revision /\ core[r].version \in Nat /\ core[r].after \in Nat
              /\ core[r].active \in BOOLEAN
              /\ core[r] = [version |-> core[r].version, active |-> core[r].active, after |-> core[r].after]
<1>1. Len(core) \in Nat /\ \A r \in 1 .. Len(core) : core[r] \in Mem!Revision
  BY DEF Mem!IInv
<1> QED BY <1>1 DEF Mem!Revision

(* The number of a new revision is above those there are.                  *)
LEMMA MemoryNextVersion ==
  ASSUME Mem!IInv
  PROVE  /\ Mem!NextVersion \in Nat
         /\ \A r \in 1 .. Len(core) : core[r].version < Mem!NextVersion
<1>1. Mem!Versions \subseteq Nat
  <2>1. \A r \in 1 .. Len(core) : core[r].version \in Nat
    BY MemoryCore
  <2> QED BY <2>1 DEF Mem!Versions
<1>2. PICK v \in Mem!Versions : \A w \in Mem!Versions : v >= w
  BY <1>1 DEF Mem!IInv
<1>3. Mem!Max(Mem!Versions) \in Mem!Versions /\ \A w \in Mem!Versions : Mem!Max(Mem!Versions) >= w
  BY <1>2 DEF Mem!Max
<1>4. \A r \in 1 .. Len(core) : core[r].version \in Mem!Versions
  BY DEF Mem!Versions
<1>5. PICK m \in Nat : m = Mem!Max(Mem!Versions)
  BY <1>1, <1>3
<1>6. \A r \in 1 .. Len(core) : core[r].version \in Nat /\ core[r].version <= m
  BY <1>3, <1>4, <1>5, MemoryCore
<1> QED BY <1>5, <1>6 DEF Mem!NextVersion

(* What a transaction has seen.                                            *)
LEMMA MemorySeen ==
  ASSUME Mem!IInv, NEW t \in Threads
  PROVE  /\ revise[t] \in Mem!Revisions
         /\ revise[t] = [at |-> revise[t].at, version |-> revise[t].version, after |-> revise[t].after,
                         rows |-> revise[t].rows]
         /\ revise[t].version \in Nat /\ revise[t].after \in Nat /\ revise[t].rows \subseteq Nat
         /\ revise[t].at # "idle" => Mem!SeenOK(revise[t])
<1>1. revise[t] \in Mem!Revisions
  BY DEF Mem!IInv
<1>2. revise[t].at # "idle" => Mem!SeenOK(revise[t])
  BY DEF Mem!IInv
<1> QED BY <1>1, <1>2 DEF Mem!Revisions

(* A statement that nobody sees: only what the transaction has seen.       *)
LEMMA MemoryStatementStep ==
  ASSUME Mem!IInv, NEW t \in Threads, NEW w \in Mem!Revisions, UNCHANGED core,
         revise' = [revise EXCEPT ![t] = w], w.at # "idle" => Mem!SeenOK(w)
  PROVE  Mem!IInv'
<1>1. /\ revise' \in [Threads -> Mem!Revisions]
      /\ \A u \in Threads : revise'[u] = IF u = t THEN w ELSE revise[u]
  BY DEF Mem!IInv
<1>2. Mem!Versions' = Mem!Versions
  BY DEF Mem!Versions
<1>3. \A u \in Threads : revise'[u].at # "idle" => Mem!SeenOK(revise[u])' \/ u = t
  BY <1>1 DEF Mem!IInv, Mem!SeenOK
<1>4. w.at # "idle" => Mem!SeenOK(revise[t])'
  BY <1>1 DEF Mem!SeenOK
<1>5. Mem!RevisionIsServed'
  BY DEF Mem!IInv, Mem!RevisionIsServed, Mem!Served
<1> QED BY <1>1, <1>2, <1>3, <1>4, <1>5 DEF Mem!IInv

LEMMA MemoryNumberStep == ASSUME Mem!IInv, NEW t \in Threads, Mem!Number(t) PROVE Mem!IInv'
<1>1. PICK n \in Nat : n = Mem!NextVersion /\ \A r \in 1 .. Len(core) : core[r].version < n
  BY MemoryNextVersion
<1>2. PICK k \in Nat : k = Len(core)
  BY MemoryCore
<1>3. PICK w : w = [at |-> "update", version |-> n, after |-> k, rows |-> {}]
  OBVIOUS
<1>4. w \in Mem!Revisions /\ Mem!SeenOK(w)
  BY <1>1, <1>2, <1>3 DEF Mem!Revisions, Mem!SeenOK
<1>5. revise' = [revise EXCEPT ![t] = w] /\ UNCHANGED core
  BY <1>1, <1>2, <1>3 DEF Mem!Number
<1> QED BY <1>4, <1>5, MemoryStatementStep

LEMMA MemoryFound ==
  ASSUME Mem!IInv, NEW t \in Threads, Mem!Find(t), NEW R, R = 1 .. Len(core)
  PROVE  /\ revise[t].at = "update" /\ UNCHANGED core
         /\ revise' = [revise EXCEPT ![t] =
              [at |-> "locks", version |-> revise[t].version, after |-> revise[t].after, rows |-> R]]
<1>1. PICK v : v = revise[t] /\ v \in [at : {"idle", "update", "locks", "insert"}, version : Nat, after : Nat, rows : SUBSET Nat]
  BY MemorySeen DEF Mem!Revisions
<1>2. [v EXCEPT !.at = "locks", !.rows = R] = [at |-> "locks", version |-> v.version, after |-> v.after, rows |-> R]
  <2>1. PICK m : m = [v EXCEPT !.at = "locks"]
    OBVIOUS
  <2>2. m = [at |-> "locks", version |-> v.version, after |-> v.after, rows |-> v.rows]
    BY <1>1, <2>1
  <2>3. [m EXCEPT !.rows = R] = [at |-> "locks", version |-> v.version, after |-> v.after, rows |-> R]
    BY <2>2
  <2> QED BY <2>1, <2>3
<1>3. revise' = [revise EXCEPT ![t] = [v EXCEPT !.at = "locks", !.rows = R]]
  BY <1>1 DEF Mem!Find
<1> QED BY <1>1, <1>2, <1>3 DEF Mem!Find

LEMMA MemoryFindStep == ASSUME Mem!IInv, NEW t \in Threads, Mem!Find(t) PROVE Mem!IInv'
<1>1. PICK k \in Nat : k = Len(core)
  BY MemoryCore
<1>2. PICK w : w = [at |-> "locks", version |-> revise[t].version, after |-> revise[t].after, rows |-> 1 .. k]
  OBVIOUS
<1>3. revise' = [revise EXCEPT ![t] = w] /\ UNCHANGED core
  BY <1>1, <1>2, MemoryFound
<1>4. Mem!SeenOK(revise[t])
  BY MemorySeen DEF Mem!Find
<1>5. w \in Mem!Revisions /\ Mem!SeenOK(w)
  <2>1. w \in Mem!Revisions
    <3>1. PICK R \in SUBSET Nat : R = 1 .. k
      BY <1>1
    <3>2. revise[t].version \in Nat /\ revise[t].after \in Nat
      BY MemorySeen
    <3> QED BY <1>2, <3>1, <3>2 DEF Mem!Revisions
  <2>2. revise[t].after \in Nat /\ revise[t].after <= k /\ w.after = revise[t].after
    BY <1>1, <1>2, <1>4, MemorySeen DEF Mem!SeenOK
  <2>3. 1 .. w.after \subseteq w.rows /\ w.rows = 1 .. k
    BY <1>1, <1>2, <2>2
  <2> QED BY <1>1, <1>2, <1>4, <2>1, <2>2, <2>3 DEF Mem!SeenOK
<1> QED BY <1>3, <1>5, MemoryStatementStep

LEMMA MemoryDeactivateStep == ASSUME Mem!IInv, NEW t \in Threads, Mem!Deactivate(t) PROVE Mem!IInv'
<1>1. PICK w : w = [at |-> "insert", version |-> revise[t].version, after |-> revise[t].after, rows |-> revise[t].rows]
  OBVIOUS
<1>2. revise' = [revise EXCEPT ![t] = w] /\ UNCHANGED core
  <2>1. PICK v : v = revise[t] /\ v \in Mem!Revisions
    BY MemorySeen
  <2>2. [v EXCEPT !.at = "insert"] = w
    BY <1>1, <2>1 DEF Mem!Revisions
  <2>3. revise' = [revise EXCEPT ![t] = [v EXCEPT !.at = "insert"]]
    BY <2>1 DEF Mem!Deactivate
  <2> QED BY <2>2, <2>3 DEF Mem!Deactivate
<1>3. Mem!SeenOK(revise[t]) /\ revise[t].at = "locks"
  BY MemorySeen DEF Mem!Deactivate
<1>4. w \in Mem!Revisions /\ Mem!SeenOK(w)
  BY <1>1, <1>3, MemorySeen DEF Mem!Revisions, Mem!SeenOK
<1> QED BY <1>2, <1>4, MemoryStatementStep

LEMMA MemoryBreakStep == ASSUME Mem!IInv, NEW t \in Threads, Mem!Break(t) PROVE Mem!IInv'
<1>1. revise' = [revise EXCEPT ![t] = Mem!NoRevision] /\ UNCHANGED core
  BY DEF Mem!Break
<1>2. Mem!NoRevision \in Mem!Revisions /\ Mem!NoRevision.at = "idle"
  BY DEF Mem!NoRevision, Mem!Revisions
<1> QED BY <1>1, <1>2, MemoryStatementStep

(* The commit: the rows it has found are deactivated, one is added.        *)
LEMMA MemoryCommit ==
  ASSUME Mem!IInv, NEW t \in Threads, Mem!Activate(t), NEW n, n = Len(core)
  PROVE  /\ n \in Nat /\ core' \in Seq(Mem!Revision) /\ Len(core') = n + 1
         /\ core'[n + 1] = [version |-> revise[t].version, active |-> TRUE, after |-> revise[t].after]
         /\ \A r \in 1 .. n : /\ core'[r].version = core[r].version /\ core'[r].after = core[r].after
                              /\ core'[r].active = (core[r].active /\ r \notin revise[t].rows)
<1>1. n \in Nat /\ \A r \in 1 .. n : core[r] \in Mem!Revision
  BY MemoryCore
<1>2. PICK rows : rows = revise[t].rows
  OBVIOUS
<1>3. PICK old : old = [r \in 1 .. n |-> [core[r] EXCEPT !.active = @ /\ r \notin rows]]
  OBVIOUS
<1>4. PICK new : new = [version |-> revise[t].version, active |-> TRUE, after |-> revise[t].after]
  OBVIOUS
<1>5. core' = Append(old, new)
  BY <1>2, <1>3, <1>4 DEF Mem!Activate
<1>6. ASSUME NEW r \in 1 .. n
      PROVE  /\ old[r] \in Mem!Revision /\ old[r].version = core[r].version /\ old[r].after = core[r].after
             /\ old[r].active = (core[r].active /\ r \notin rows)
  <2>1. PICK c : c = core[r] /\ c \in [version : Nat, active : BOOLEAN, after : Nat]
    BY <1>1 DEF Mem!Revision
  <2>2. PICK b \in BOOLEAN : b = (c.active /\ r \notin rows)
    OBVIOUS
  <2>3. old[r] = [c EXCEPT !.active = b]
    BY <1>3, <2>1, <2>2
  <2>4. /\ old[r] \in [version : Nat, active : BOOLEAN, after : Nat]
        /\ old[r].version = c.version /\ old[r].after = c.after /\ old[r].active = b
    BY <2>1, <2>3
  <2> QED BY <2>1, <2>2, <2>4 DEF Mem!Revision
<1>7. old \in [1 .. n -> Mem!Revision]
  <2>1. DOMAIN old = 1 .. n /\ old = [r \in 1 .. n |-> old[r]]
    BY <1>3
  <2> QED BY <1>6, <2>1
<1>8. old \in Seq(Mem!Revision) /\ Len(old) = n
  BY <1>1, <1>7
<1>9. new \in Mem!Revision
  BY <1>4, MemorySeen DEF Mem!Revision
<1>10. /\ core' \in Seq(Mem!Revision) /\ Len(core') = n + 1 /\ core'[n + 1] = new
       /\ \A r \in 1 .. n : core'[r] = old[r]
  BY <1>1, <1>5, <1>8, <1>9
<1> QED BY <1>1, <1>2, <1>4, <1>6, <1>10

LEMMA MemoryActivateStep == ASSUME Mem!IInv, NEW t \in Threads, Mem!Activate(t) PROVE Mem!IInv'
<1>1. PICK n : n = Len(core)
  OBVIOUS
<1>2. /\ n \in Nat /\ core' \in Seq(Mem!Revision) /\ Len(core') = n + 1
      /\ core'[n + 1] = [version |-> revise[t].version, active |-> TRUE, after |-> revise[t].after]
      /\ \A r \in 1 .. n : /\ core'[r].version = core[r].version /\ core'[r].after = core[r].after
                           /\ core'[r].active = (core[r].active /\ r \notin revise[t].rows)
  BY <1>1, MemoryCommit
<1>3. /\ core'[n + 1].version = revise[t].version /\ core'[n + 1].active /\ core'[n + 1].after = revise[t].after
      /\ \A r \in 1 .. n + 1 : r \in 1 .. n \/ r = n + 1
  BY <1>2
<1>4. /\ revise[t].at = "insert" /\ Mem!SeenOK(revise[t]) /\ revise[t].version \in Nat /\ revise[t].after \in Nat
  BY MemorySeen DEF Mem!Activate
<1>5. /\ revise' \in [Threads -> Mem!Revisions] /\ revise'[t].at = "idle"
      /\ \A u \in Threads \ {t} : revise'[u] = revise[u]
  <2>1. Mem!NoRevision \in Mem!Revisions /\ Mem!NoRevision.at = "idle"
    BY DEF Mem!NoRevision, Mem!Revisions
  <2> QED BY <2>1 DEF Mem!Activate, Mem!IInv
<1>6. ASSUME NEW u \in Threads, revise'[u].at # "idle" PROVE Mem!SeenOK(revise[u])'
  <2>1. revise'[u] = revise[u] /\ Mem!SeenOK(revise[u]) /\ revise[u].after \in Nat
    BY <1>5, <1>6, MemorySeen
  <2>2. revise[u].after <= n /\ 1 .. revise[u].after \subseteq 1 .. n /\ 1 .. n \subseteq 1 .. n + 1
    BY <1>1, <1>2, <2>1 DEF Mem!SeenOK
  <2> QED BY <1>1, <1>2, <2>1, <2>2 DEF Mem!SeenOK
<1>7. \E v \in Mem!Versions' : \A w \in Mem!Versions' : w <= v
  <2>1. /\ Mem!Versions \subseteq Nat
        /\ Mem!Versions' = Mem!Versions \cup {revise[t].version}
    <3>1. /\ Mem!Versions' = {0} \cup {core'[r].version : r \in 1 .. n + 1}
          /\ Mem!Versions = {0} \cup {core[r].version : r \in 1 .. n}
      BY <1>1, <1>2 DEF Mem!Versions
    <3>2. \A r \in 1 .. n : core[r].version \in Nat
      BY <1>1, MemoryCore
    <3>3. {core'[r].version : r \in 1 .. n + 1} = {core[r].version : r \in 1 .. n} \cup {revise[t].version}
      <4>1. \A r \in 1 .. n : r \in 1 .. n + 1 /\ core'[r].version = core[r].version
        BY <1>2
      <4>2. n + 1 \in 1 .. n + 1
        BY <1>2
      <4> QED BY <1>3, <4>1, <4>2
    <3> QED BY <3>1, <3>2, <3>3
  <2>2. PICK v \in Mem!Versions : \A w \in Mem!Versions : w <= v
    BY DEF Mem!IInv
  <2>3. CASE revise[t].version <= v
    BY <2>1, <2>2, <2>3
  <2>4. CASE ~(revise[t].version <= v)
    <3>1. \A w \in Mem!Versions : w <= revise[t].version
      BY <1>4, <2>1, <2>2, <2>4
    <3> QED BY <1>4, <2>1, <3>1
  <2> QED BY <2>3, <2>4
<1>8. \A r \in 1 .. n + 1 : core'[r].after < r
  <2>1. \A r \in 1 .. n : core[r].after < r
    BY <1>1 DEF Mem!IInv
  <2>2. revise[t].after < n + 1
    BY <1>1, <1>2, <1>4 DEF Mem!SeenOK
  <2> QED BY <1>2, <1>3, <2>1, <2>2
<1>9. Mem!RevisionIsServed'
  <2>1. Mem!Served' # {}
    BY <1>2, <1>3 DEF Mem!Served
  <2>2. ASSUME NEW r \in 1 .. n, NEW old \in 1 .. core'[r].after
        PROVE  ~core'[old].active /\ core'[old].version < core'[r].version
    <3>1. old \in 1 .. core[r].after /\ core[r].after \in Nat /\ core[r].after < r
      BY <1>1, <1>2, <2>2, MemoryCore DEF Mem!IInv
    <3>2. old \in 1 .. n
      BY <1>2, <3>1
    <3>3. ~core[old].active /\ core[old].version < core[r].version
      BY <1>1, <3>1 DEF Mem!IInv, Mem!RevisionIsServed
    <3> QED BY <1>2, <3>2, <3>3
  <2>3. ASSUME NEW old \in 1 .. revise[t].after
        PROVE  ~core'[old].active /\ core'[old].version < revise[t].version
    <3>1. old \in 1 .. n /\ old \in revise[t].rows /\ core[old].version < revise[t].version
      BY <1>1, <1>2, <1>4, <2>3 DEF Mem!SeenOK
    <3> QED BY <1>2, <3>1
  <2>4. \A r \in 1 .. n + 1 : \A old \in 1 .. core'[r].after : ~core'[old].active /\ core'[old].version < core'[r].version
    BY <1>3, <2>2, <2>3
  <2> QED BY <1>2, <2>1, <2>4 DEF Mem!RevisionIsServed
<1> QED BY <1>2, <1>3, <1>5, <1>6, <1>7, <1>8, <1>9 DEF Mem!IInv

(* Nothing but a revision writes what the invariant is about.              *)
LEMMA MemoryOtherStep == ASSUME Mem!IInv, UNCHANGED <<core, revise>> PROVE Mem!IInv'
<1>1. /\ Mem!Versions' = Mem!Versions /\ Mem!Served' = Mem!Served
      /\ \A t \in Threads : Mem!SeenOK(revise[t])' <=> Mem!SeenOK(revise[t])
  BY DEF Mem!Versions, Mem!Served, Mem!SeenOK
<1> QED BY <1>1 DEF Mem!IInv, Mem!RevisionIsServed

LEMMA MemoryNextIInv == Mem!IInv /\ [Mem!Next]_(Mem!vars) => Mem!IInv'
<1> SUFFICES ASSUME Mem!IInv, [Mem!Next]_(Mem!vars) PROVE Mem!IInv'
  OBVIOUS
<1>1. CASE UNCHANGED Mem!vars
  BY <1>1, MemoryOtherStep DEF Mem!vars
<1>2. ASSUME NEW t \in Threads,
             \/ Mem!Create(t) \/ Mem!SetStatus(t) \/ Mem!ReadCore(t) \/ Mem!ReadIndex(t) \/ Mem!Select(t)
             \/ Mem!Answer(t) \/ Mem!ReadPending(t) \/ Mem!ReadActive(t) \/ Mem!Suggest(t)
      PROVE  Mem!IInv'
  <2>1. UNCHANGED <<core, revise>>
    BY <1>2 DEF Mem!Create, Mem!SetStatus, Mem!ReadCore, Mem!ReadIndex, Mem!Select, Mem!Answer,
         Mem!ReadPending, Mem!ReadActive, Mem!Suggest, Mem!OnlyAsk, Mem!OnlyMemories
  <2> QED BY <2>1, MemoryOtherStep
<1>3. ASSUME NEW t \in Threads, Mem!Number(t) \/ Mem!Find(t) \/ Mem!Deactivate(t) \/ Mem!Activate(t) \/ Mem!Break(t)
      PROVE  Mem!IInv'
  BY <1>3, MemoryNumberStep, MemoryFindStep, MemoryDeactivateStep, MemoryActivateStep, MemoryBreakStep
<1> QED BY <1>1, <1>2, <1>3 DEF Mem!Next

-----------------------------------------------------------------------------
LEMMA FactInitIInv == Fac!Init => Fac!IInv
<1> SUFFICES ASSUME Fac!Init PROVE Fac!IInv
  OBVIOUS
<1>1. facts = <<>> /\ evidence = <<>> /\ weighed = {} /\ Fac!Known = {}
  BY DEF Fac!Init, Fac!Known
<1>2. work = [t \in Threads |-> Fac!Idle]
  BY DEF Fac!Init
<1>3. Fac!NoRow \in Fac!Rows /\ Fac!WorkOK(Fac!Idle)
  BY <1>1 DEF Fac!WorkOK, Fac!Idle, Fac!NoRow, Fac!Rows, Fac!Statuses, Fac!Verifications
<1>4. Fac!Idle.alone = FALSE
  BY DEF Fac!Idle
<1>5. facts \in Seq(Fac!Rows) /\ evidence = [f \in Fac!Known |-> evidence[f]]
  BY <1>1
<1> QED BY <1>1, <1>2, <1>3, <1>4, <1>5 DEF Fac!IInv

(* A step of one thread, which writes at most the fact it is at or a new   *)
(* one: what the others hold alone stays as it is.                         *)
LEMMA FactStep ==
  ASSUME Fac!IInv, NEW t \in Threads, NEW w, Fac!Become(t, w), NEW f,
         facts' \in Seq(Fac!Rows), evidence' = [g \in Fac!Known' |-> evidence'[g]],
         Fac!Known \subseteq Fac!Known',
         f \notin Fac!Known \/ f = work[t].fact,
         \A g \in Fac!Known \ {f} : facts'[g] = facts[g] /\ evidence'[g] = evidence[g],
         weighed' \subseteq Fac!Known', weighed' \subseteq weighed \cup {f},
         \A g \in weighed' : g = f => (facts[g].verification = Fac!Derived(Fac!Refs(g)))',
         Fac!WorkOK(w)', w.alone => Fac!Alone(t, w.fact)
  PROVE  Fac!IInv'
<1>1. work' = [u \in Threads |->
             IF u = t THEN w
             ELSE IF w.fact # 0 /\ work[u].fact = w.fact THEN [work[u] EXCEPT !.alone = FALSE]
             ELSE work[u]]
  BY DEF Fac!Become
<1>2. work'[t] = w
  BY <1>1
<1>3. ASSUME NEW g \in Fac!Known \ {f} PROVE (Fac!Derived(Fac!Refs(g)))' = Fac!Derived(Fac!Refs(g))
  <2>1. Fac!Refs(g)' = Fac!Refs(g)
    BY DEF Fac!Refs
  <2> QED BY <2>1 DEF Fac!Derived
<1>4. ASSUME NEW g \in weighed' PROVE (facts[g].verification = Fac!Derived(Fac!Refs(g)))'
  <2>1. CASE g = f
    BY <2>1
  <2>2. CASE g # f
    <3>1. g \in Fac!Known /\ facts'[g] = facts[g] /\ facts[g].verification = Fac!Derived(Fac!Refs(g))
      BY <2>2 DEF Fac!IInv
    <3> QED BY <1>3, <2>2, <3>1
  <2> QED BY <2>1, <2>2
<1>5. ASSUME NEW u \in Threads \ {t}
      PROVE  /\ work'[u] = [at |-> work[u].at, fact |-> work[u].fact, row |-> work[u].row, todo |-> work[u].todo,
                            alone |-> work'[u].alone]
             /\ work'[u].alone \in BOOLEAN /\ work'[u].fact = work[u].fact
             /\ work'[u].alone => work[u].alone /\ ~(w.fact # 0 /\ work[u].fact = w.fact)
  <2>1. PICK i : i = work[u] /\ i = [at |-> i.at, fact |-> i.fact, row |-> i.row, todo |-> i.todo, alone |-> i.alone]
                 /\ i.alone \in BOOLEAN
    BY DEF Fac!IInv, Fac!WorkOK
  <2>2. [i EXCEPT !.alone = FALSE] = [at |-> i.at, fact |-> i.fact, row |-> i.row, todo |-> i.todo, alone |-> FALSE]
    <3>1. PICK j : j = [i EXCEPT !.alone = FALSE]
      OBVIOUS
    <3>2. j = [at |-> i.at, fact |-> i.fact, row |-> i.row, todo |-> i.todo, alone |-> FALSE]
      BY <2>1, <3>1
    <3> QED BY <3>1, <3>2
  <2>3. CASE w.fact # 0 /\ work[u].fact = w.fact
    <3>1. work'[u] = [i EXCEPT !.alone = FALSE]
      BY <1>1, <2>1, <2>3
    <3> QED BY <2>1, <2>2, <3>1
  <2>4. CASE ~(w.fact # 0 /\ work[u].fact = w.fact)
    <3>1. work'[u] = i
      BY <1>1, <2>1, <2>4
    <3> QED BY <2>1, <2>4, <3>1
  <2> QED BY <2>3, <2>4
<1>6. ASSUME NEW u \in Threads \ {t}
      PROVE  Fac!WorkOK(work[u])' /\ (work'[u].alone => Fac!Alone(u, work[u].fact)')
  <2>1. PICK i : i = work[u]
    OBVIOUS
  <2>2. PICK k : k = work'[u]
    OBVIOUS
  <2>3. /\ k = [at |-> i.at, fact |-> i.fact, row |-> i.row, todo |-> i.todo, alone |-> k.alone]
        /\ k.alone \in BOOLEAN /\ (k.alone => i.alone /\ i.fact # w.fact)
    <3>1. i.alone => i.fact # 0
      BY <2>1 DEF Fac!IInv, Fac!WorkOK, Fac!Known
    <3> QED BY <1>5, <2>1, <2>2, <3>1
  <2>4. Fac!WorkOK(i) /\ (i.alone => Fac!Alone(u, i.fact))
    BY <2>1 DEF Fac!IInv
  <2>5. i.alone => i.fact \in Fac!Known \ {f}
    BY <2>1, <2>4 DEF Fac!WorkOK, Fac!Alone
  <2>6. Fac!WorkOK(k)'
    <3>1. /\ k.at = i.at /\ k.fact = i.fact /\ k.row = i.row /\ k.todo = i.todo
          /\ k = [at |-> k.at, fact |-> k.fact, row |-> k.row, todo |-> k.todo, alone |-> k.alone]
      BY <2>3
    <3>2. k.at = "write" /\ k.alone => (k.row.verification = Fac!Derived(Fac!Refs(k.fact)))'
      BY <1>3, <2>3, <2>4, <2>5, <3>1 DEF Fac!WorkOK
    <3> QED BY <2>3, <2>4, <2>5, <3>1, <3>2 DEF Fac!WorkOK
  <2>7. k.alone => \A v \in Threads \ {u} : work'[v].fact # k.fact
    <3> SUFFICES ASSUME k.alone, NEW v \in Threads \ {u} PROVE work'[v].fact # k.fact
      OBVIOUS
    <3>1. CASE v = t
      BY <1>2, <2>3, <3>1
    <3>2. CASE v # t
      <4>1. work'[v].fact = work[v].fact
        BY <1>5, <3>2
      <4> QED BY <2>3, <2>4, <4>1 DEF Fac!Alone
    <3> QED BY <3>1, <3>2
  <2> QED BY <2>2, <2>6, <2>7 DEF Fac!Alone
<1>7. \A u \in Threads : Fac!WorkOK(work[u])' /\ (work'[u].alone => Fac!Alone(u, work[u].fact)')
  <2>1. \A u \in Threads \ {t} : work'[u].fact = work[u].fact
    BY <1>5
  <2>2. w.alone => \A u \in Threads \ {t} : work'[u].fact # work'[t].fact
    BY <1>2, <2>1 DEF Fac!Alone
  <2> QED BY <1>2, <1>6, <2>2 DEF Fac!Alone
<1>8. work' = [u \in Threads |-> work'[u]]
  BY <1>1
<1> QED BY <1>4, <1>7, <1>8 DEF Fac!IInv

(* A step that writes neither facts nor evidence.                          *)
LEMMA FactQuietStep ==
  ASSUME Fac!IInv, NEW t \in Threads, NEW w, Fac!Become(t, w), Fac!OnlyWork,
         Fac!WorkOK(w), w.alone => Fac!Alone(t, w.fact)
  PROVE  Fac!IInv'
<1>1. UNCHANGED <<facts, evidence, weighed>>
  BY DEF Fac!OnlyWork
<1>2. Fac!Known' = Fac!Known
  BY <1>1 DEF Fac!Known
<1>3. Fac!WorkOK(w)'
  <2>1. \A f : Fac!Refs(f)' = Fac!Refs(f)
    BY <1>1 DEF Fac!Refs
  <2>2. \A f : (Fac!Derived(Fac!Refs(f)))' = Fac!Derived(Fac!Refs(f))
    BY <2>1 DEF Fac!Derived
  <2> QED BY <1>2, <2>2 DEF Fac!WorkOK
<1>4. PICK f : f = work[t].fact
  OBVIOUS
<1>5. \A g \in weighed' : g = f => (facts[g].verification = Fac!Derived(Fac!Refs(g)))'
  <2> SUFFICES ASSUME NEW g \in weighed PROVE (facts[g].verification = Fac!Derived(Fac!Refs(g)))'
    BY <1>1
  <2>1. Fac!Refs(g)' = Fac!Refs(g)
    BY <1>1 DEF Fac!Refs
  <2>2. (Fac!Derived(Fac!Refs(g)))' = Fac!Derived(Fac!Refs(g))
    BY <2>1 DEF Fac!Derived
  <2> QED BY <1>1, <2>2 DEF Fac!IInv
<1>6. /\ facts' \in Seq(Fac!Rows) /\ evidence' = [g \in Fac!Known' |-> evidence'[g]]
      /\ weighed' \subseteq Fac!Known'
  BY <1>1, <1>2 DEF Fac!IInv
<1> QED BY <1>1, <1>2, <1>3, <1>4, <1>5, <1>6, FactStep

LEMMA FactIdle == Fac!WorkOK(Fac!Idle) /\ Fac!Idle.alone = FALSE
  BY DEF Fac!WorkOK, Fac!Idle, Fac!NoRow, Fac!Rows, Fac!Statuses, Fac!Verifications

(* What a request, an update or a model makes of a row is a row.           *)
LEMMA FactRow ==
  /\ \A v \in Stated : Fac!FromRequest(v) \in Fac!Rows /\ Fac!FromAnswer(v) \in Fac!Rows
  /\ \A r \in Fac!Rows, s \in Fac!Statuses : [r EXCEPT !.status = s] \in Fac!Rows
  /\ \A r \in Fac!Rows, v \in Fac!Verifications :
       /\ [r EXCEPT !.verification = v] \in Fac!Rows
       /\ [r EXCEPT !.verification = v].verification = v
<1>1. ASSUME NEW r \in Fac!Rows, NEW v \in Fac!Verifications
      PROVE  [r EXCEPT !.verification = v] \in Fac!Rows /\ [r EXCEPT !.verification = v].verification = v
  BY DEF Fac!Rows
<1>2. ASSUME NEW r \in Fac!Rows, NEW s \in Fac!Statuses PROVE [r EXCEPT !.status = s] \in Fac!Rows
  BY DEF Fac!Rows
<1>3. Fac!NoRow \in Fac!Rows
  BY DEF Fac!NoRow, Fac!Rows, Fac!Statuses, Fac!Verifications
<1> QED BY <1>1, <1>2, <1>3, FactsAssumption DEF Fac!FromRequest, Fac!FromAnswer

LEMMA FactStarts ==
  ASSUME Fac!IInv, NEW p \in {"save", "insert"}, NEW f, NEW r \in Fac!Rows, NEW q,
         f \in {0} \cup Fac!Known, p = "insert" => f \in Fac!Known
  PROVE  LET w == [at |-> p, fact |-> f, row |-> r, todo |-> q, alone |-> FALSE]
         IN  Fac!WorkOK(w) /\ w.alone = FALSE
  BY DEF Fac!WorkOK

LEMMA FactCreateStep == ASSUME Fac!IInv, NEW t \in Threads, Fac!Create(t) PROVE Fac!IInv'
<1>1. PICK v, q :
        /\ v \in Stated
        /\ Fac!Become(t, [Fac!Idle EXCEPT !.at = "save", !.row = Fac!FromRequest(v), !.todo = q])
  BY DEF Fac!Create
<1>2. PICK r \in Fac!Rows : r = Fac!FromRequest(v)
  BY <1>1, FactRow
<1>3. PICK w : w = [Fac!Idle EXCEPT !.at = "save", !.row = r, !.todo = q]
  OBVIOUS
<1>4. w = [at |-> "save", fact |-> 0, row |-> r, todo |-> q, alone |-> FALSE]
  BY <1>3 DEF Fac!Idle
<1>5. Fac!WorkOK(w) /\ w.alone = FALSE
  BY <1>4, FactStarts
<1>6. Fac!Become(t, w) /\ Fac!OnlyWork
  BY <1>1, <1>2, <1>3 DEF Fac!Create
<1> QED BY <1>5, <1>6, FactQuietStep

LEMMA FactUpdateStep == ASSUME Fac!IInv, NEW t \in Threads, Fac!Update(t) PROVE Fac!IInv'
<1>1. PICK f \in Fac!Known, s \in Fac!Statuses :
        Fac!Become(t, [Fac!Idle EXCEPT !.at = "save", !.fact = f, !.row = Fac!Merged(f, s)])
  BY DEF Fac!Update
<1>2. PICK r \in Fac!Rows : r = Fac!Merged(f, s)
  <2>1. facts[f] \in Fac!Rows
    BY DEF Fac!IInv, Fac!Known
  <2> QED BY <2>1, FactRow DEF Fac!Merged
<1>3. PICK w : w = [Fac!Idle EXCEPT !.at = "save", !.fact = f, !.row = r]
  OBVIOUS
<1>4. w = [at |-> "save", fact |-> f, row |-> r, todo |-> <<>>, alone |-> FALSE]
  BY <1>3 DEF Fac!Idle
<1>5. Fac!WorkOK(w) /\ w.alone = FALSE
  BY <1>4, FactStarts
<1>6. Fac!Become(t, w) /\ Fac!OnlyWork
  BY <1>1, <1>2, <1>3 DEF Fac!Update
<1> QED BY <1>5, <1>6, FactQuietStep

LEMMA FactExtractStep == ASSUME Fac!IInv, NEW t \in Threads, Fac!Extract(t) PROVE Fac!IInv'
<1>1. PICK f \in {0} \cup Fac!Known, v \in Stated :
        Fac!Become(t, [Fac!Idle EXCEPT !.at = "save", !.fact = f, !.row = Fac!FromAnswer(v), !.todo = Extracted])
  BY DEF Fac!Extract
<1>2. PICK r \in Fac!Rows : r = Fac!FromAnswer(v)
  BY FactRow
<1>3. PICK w : w = [Fac!Idle EXCEPT !.at = "save", !.fact = f, !.row = r, !.todo = Extracted]
  OBVIOUS
<1>4. w = [at |-> "save", fact |-> f, row |-> r, todo |-> Extracted, alone |-> FALSE]
  BY <1>3 DEF Fac!Idle
<1>5. Fac!WorkOK(w) /\ w.alone = FALSE
  BY <1>4, FactStarts
<1>6. Fac!Become(t, w) /\ Fac!OnlyWork
  BY <1>1, <1>2, <1>3 DEF Fac!Extract
<1> QED BY <1>5, <1>6, FactQuietStep

LEMMA FactAttachStep == ASSUME Fac!IInv, NEW t \in Threads, Fac!Attach(t) PROVE Fac!IInv'
<1>1. PICK f \in Fac!Known, e \in OfferedPieces :
        Fac!Become(t, [Fac!Idle EXCEPT !.at = "insert", !.fact = f, !.todo = <<e>>])
  BY DEF Fac!Attach
<1>2. PICK w : w = [Fac!Idle EXCEPT !.at = "insert", !.fact = f, !.todo = <<e>>]
  OBVIOUS
<1>3. w = [at |-> "insert", fact |-> f, row |-> Fac!NoRow, todo |-> <<e>>, alone |-> FALSE]
  BY <1>2 DEF Fac!Idle
<1>4. Fac!NoRow \in Fac!Rows
  BY DEF Fac!NoRow, Fac!Rows, Fac!Statuses, Fac!Verifications
<1>5. Fac!WorkOK(w) /\ w.alone = FALSE
  BY <1>3, <1>4, FactStarts
<1>6. Fac!Become(t, w) /\ Fac!OnlyWork
  BY <1>1, <1>2 DEF Fac!Attach
<1> QED BY <1>5, <1>6, FactQuietStep

LEMMA FactEndStep == ASSUME Fac!IInv, NEW t \in Threads, Fac!Refuse(t) \/ Fac!Break(t) PROVE Fac!IInv'
  BY FactIdle, FactQuietStep DEF Fac!Refuse, Fac!Break

(* What a thread is doing, as a record.                                    *)
LEMMA FactJob ==
  ASSUME Fac!IInv, NEW t \in Threads
  PROVE  /\ work[t] = [at |-> work[t].at, fact |-> work[t].fact, row |-> work[t].row,
                       todo |-> work[t].todo, alone |-> work[t].alone]
         /\ work[t].row \in Fac!Rows /\ work[t].alone \in BOOLEAN /\ work[t].fact \in {0} \cup Fac!Known
         /\ work[t].at \in {"compare", "insert", "read", "weigh", "write"} => work[t].fact \in Fac!Known
         /\ work[t].alone => Fac!Alone(t, work[t].fact)
  BY DEF Fac!IInv, Fac!WorkOK

(* The next thing it does at the same fact.                                *)
LEMMA FactGoesOn ==
  ASSUME Fac!IInv, NEW p \in {"compare", "insert", "read", "weigh", "write"}, NEW f \in Fac!Known,
         NEW r \in Fac!Rows, NEW q, NEW a \in BOOLEAN,
         p = "write" /\ a => r.verification = Fac!Derived(Fac!Refs(f))
  PROVE  LET w == [at |-> p, fact |-> f, row |-> r, todo |-> q, alone |-> a] IN Fac!WorkOK(w)
  BY DEF Fac!WorkOK

LEMMA FactCompareStep == ASSUME Fac!IInv, NEW t \in Threads, Fac!Compare(t) PROVE Fac!IInv'
<1>1. PICK i : i = work[t]
  OBVIOUS
<1>2. /\ i = [at |-> i.at, fact |-> i.fact, row |-> i.row, todo |-> i.todo, alone |-> i.alone]
      /\ i.row \in Fac!Rows /\ i.alone \in BOOLEAN /\ i.fact \in Fac!Known /\ (i.alone => Fac!Alone(t, i.fact))
  BY <1>1, FactJob DEF Fac!Compare, Fac!Works
<1>3. PICK q : Fac!Become(t, IF q = <<>> THEN Fac!Idle ELSE [i EXCEPT !.at = "insert", !.todo = q])
  BY <1>1 DEF Fac!Compare
<1>4. PICK w : w = [i EXCEPT !.at = "insert", !.todo = q]
  OBVIOUS
<1>5. w = [at |-> "insert", fact |-> i.fact, row |-> i.row, todo |-> q, alone |-> i.alone]
  BY <1>2, <1>4
<1>6. Fac!WorkOK(w) /\ (w.alone => Fac!Alone(t, w.fact))
  BY <1>2, <1>5, FactGoesOn
<1>7. Fac!OnlyWork /\ (Fac!Become(t, w) \/ Fac!Become(t, Fac!Idle))
  BY <1>3, <1>4 DEF Fac!Compare
<1> QED BY <1>6, <1>7, FactIdle, FactQuietStep

LEMMA FactReadStep == ASSUME Fac!IInv, NEW t \in Threads, Fac!Read(t) PROVE Fac!IInv'
<1>1. PICK i : i = work[t]
  OBVIOUS
<1>2. /\ i = [at |-> i.at, fact |-> i.fact, row |-> i.row, todo |-> i.todo, alone |-> i.alone]
      /\ i.alone \in BOOLEAN /\ i.fact \in Fac!Known /\ (i.alone => Fac!Alone(t, i.fact))
  BY <1>1, FactJob DEF Fac!Read, Fac!Works
<1>3. PICK r \in Fac!Rows : r = facts[i.fact]
  BY <1>2 DEF Fac!IInv, Fac!Known
<1>4. PICK w : w = [i EXCEPT !.at = "weigh", !.row = r]
  OBVIOUS
<1>5. w = [at |-> "weigh", fact |-> i.fact, row |-> r, todo |-> i.todo, alone |-> i.alone]
  BY <1>2, <1>4
<1>6. Fac!WorkOK(w) /\ (w.alone => Fac!Alone(t, w.fact))
  BY <1>2, <1>5, FactGoesOn
<1>7. Fac!OnlyWork /\ Fac!Become(t, w)
  BY <1>1, <1>3, <1>4 DEF Fac!Read
<1> QED BY <1>6, <1>7, FactQuietStep

LEMMA FactWeighStep == ASSUME Fac!IInv, NEW t \in Threads, Fac!Weigh(t) PROVE Fac!IInv'
<1>1. PICK i : i = work[t]
  OBVIOUS
<1>2. /\ i = [at |-> i.at, fact |-> i.fact, row |-> i.row, todo |-> i.todo, alone |-> i.alone]
      /\ i.row \in Fac!Rows /\ i.alone \in BOOLEAN /\ i.fact \in Fac!Known /\ (i.alone => Fac!Alone(t, i.fact))
  BY <1>1, FactJob DEF Fac!Weigh, Fac!Works
<1>3. PICK v \in Fac!Verifications : v = Fac!Derived(Fac!Refs(i.fact))
  BY DEF Fac!Derived, Fac!Verifications
<1>4. PICK r \in Fac!Rows : r = [i.row EXCEPT !.verification = v] /\ r.verification = v
  BY <1>2, FactRow
<1>5. PICK w : w = [i EXCEPT !.at = "write", !.row = r]
  OBVIOUS
<1>6. w = [at |-> "write", fact |-> i.fact, row |-> r, todo |-> i.todo, alone |-> i.alone]
  BY <1>2, <1>5
<1>7. Fac!WorkOK(w) /\ (w.alone => Fac!Alone(t, w.fact))
  BY <1>2, <1>3, <1>4, <1>6, FactGoesOn
<1>8. Fac!OnlyWork /\ Fac!Become(t, w)
  BY <1>1, <1>3, <1>4, <1>5 DEF Fac!Weigh
<1> QED BY <1>7, <1>8, FactQuietStep

LEMMA FactSaveStep == ASSUME Fac!IInv, NEW t \in Threads, Fac!Save(t) PROVE Fac!IInv'
<1>1. PICK i : i = work[t]
  OBVIOUS
<1>2. /\ i = [at |-> i.at, fact |-> i.fact, row |-> i.row, todo |-> i.todo, alone |-> i.alone]
      /\ i.row \in Fac!Rows /\ i.fact \in {0} \cup Fac!Known
  BY <1>1, FactJob
<1>3. PICK n : n = Len(facts)
  OBVIOUS
<1>4. n \in Nat /\ Fac!Known = 1 .. n
  BY <1>3 DEF Fac!IInv, Fac!Known
<1>5. PICK f : f = IF i.fact = 0 THEN n + 1 ELSE i.fact
  OBVIOUS
<1>6. f \in 1 .. n \/ f = n + 1
  BY <1>2, <1>4, <1>5
<1>7. /\ facts' = IF f \in Fac!Known THEN [facts EXCEPT ![f] = i.row] ELSE Append(facts, i.row)
      /\ evidence' = IF f \in Fac!Known THEN evidence ELSE Append(evidence, <<>>)
      /\ weighed' = weighed \ {f}
      /\ Fac!Become(t, IF i.todo = <<>> THEN Fac!Idle
                       ELSE [i EXCEPT !.at = "compare", !.fact = f, !.alone = FALSE])
  BY <1>1, <1>3, <1>5 DEF Fac!Save
<1>8. /\ facts' \in Seq(Fac!Rows) /\ evidence' = [g \in Fac!Known' |-> evidence'[g]]
      /\ Fac!Known \subseteq Fac!Known' /\ f \in Fac!Known'
      /\ \A g \in Fac!Known \ {f} : facts'[g] = facts[g] /\ evidence'[g] = evidence[g]
  <2>1. PICK k, m : k = facts' /\ m = evidence'
    OBVIOUS
  <2>2. CASE f \in Fac!Known
    <3>1. k = [facts EXCEPT ![f] = i.row] /\ m = evidence
      BY <1>7, <2>1, <2>2
    <3>2. k \in Seq(Fac!Rows) /\ Len(k) = n /\ \A g \in Fac!Known \ {f} : k[g] = facts[g]
      BY <1>2, <1>3, <1>4, <2>2, <3>1 DEF Fac!IInv
    <3>3. Fac!Known' = Fac!Known
      BY <1>4, <2>1, <3>2 DEF Fac!Known
    <3> QED BY <2>1, <2>2, <3>1, <3>2, <3>3 DEF Fac!IInv
  <2>3. CASE f \notin Fac!Known
    <3>1. k = Append(facts, i.row) /\ m = Append(evidence, <<>>) /\ f = n + 1
      BY <1>4, <1>6, <1>7, <2>1, <2>3
    <3>2. k \in Seq(Fac!Rows) /\ Len(k) = n + 1 /\ \A g \in 1 .. n : k[g] = facts[g]
      BY <1>2, <1>3, <1>4, <3>1 DEF Fac!IInv
    <3>3. PICK all : all = {evidence[g] : g \in 1 .. n} \cup {<<>>}
      OBVIOUS
    <3>4. evidence \in Seq(all) /\ Len(evidence) = n
      BY <1>4, <3>3 DEF Fac!IInv
    <3>5. m \in Seq(all) /\ Len(m) = n + 1 /\ \A g \in 1 .. n : m[g] = evidence[g]
      BY <1>4, <3>1, <3>3, <3>4
    <3>6. m = [g \in 1 .. n + 1 |-> m[g]]
      BY <1>4, <3>5
    <3>7. Fac!Known' = 1 .. n + 1
      BY <2>1, <3>2 DEF Fac!Known
    <3>8. 1 .. n \subseteq 1 .. n + 1 /\ f \in 1 .. n + 1
      BY <1>4, <3>1
    <3> QED BY <1>4, <2>1, <3>2, <3>5, <3>6, <3>7, <3>8
  <2> QED BY <2>2, <2>3
<1>9. weighed' \subseteq Fac!Known' /\ weighed' \subseteq weighed \cup {f} /\ f \notin weighed'
  BY <1>7, <1>8 DEF Fac!IInv
<1>10. f \notin Fac!Known \/ f = work[t].fact
  BY <1>1, <1>4, <1>5
<1>11. PICK w : w = IF i.todo = <<>> THEN Fac!Idle ELSE [i EXCEPT !.at = "compare", !.fact = f, !.alone = FALSE]
  OBVIOUS
<1>12. Fac!WorkOK(w)' /\ w.alone = FALSE
  <2>1. PICK z : z = [i EXCEPT !.at = "compare", !.fact = f, !.alone = FALSE]
    OBVIOUS
  <2>2. z = [at |-> "compare", fact |-> f, row |-> i.row, todo |-> i.todo, alone |-> FALSE]
    BY <1>2, <2>1
  <2>3. Fac!WorkOK(z)'
    BY <1>2, <1>8, <2>2 DEF Fac!WorkOK
  <2>4. Fac!WorkOK(Fac!Idle)'
    BY DEF Fac!WorkOK, Fac!Idle, Fac!NoRow, Fac!Rows, Fac!Statuses, Fac!Verifications
  <2> QED BY <1>11, <2>1, <2>2, <2>3, <2>4, FactIdle
<1> QED BY <1>7, <1>8, <1>9, <1>10, <1>11, <1>12, FactStep

LEMMA FactInsertStep == ASSUME Fac!IInv, NEW t \in Threads, Fac!Insert(t) PROVE Fac!IInv'
<1>1. PICK i, f : i = work[t] /\ f = i.fact
  OBVIOUS
<1>2. /\ i = [at |-> i.at, fact |-> i.fact, row |-> i.row, todo |-> i.todo, alone |-> i.alone]
      /\ i.row \in Fac!Rows /\ f \in Fac!Known
  BY <1>1, FactJob DEF Fac!Insert, Fac!Works
<1>3. PICK q, e, a :
        /\ Fac!Become(t, [i EXCEPT !.at = "read", !.todo = q, !.alone = a])
        /\ a = Fac!Alone(t, f) /\ a \in BOOLEAN
        /\ evidence' = [evidence EXCEPT ![f] = Append(@, e)]
        /\ weighed' = weighed \ {f} /\ UNCHANGED facts
  <2>1. PICK q, e, a : q = Tail(i.todo) /\ e = Head(i.todo) /\ a = Fac!Alone(t, f)
    OBVIOUS
  <2>2. a \in BOOLEAN
    BY <2>1 DEF Fac!Alone
  <2>3. /\ Fac!Become(t, [i EXCEPT !.at = "read", !.todo = Tail(@), !.alone = Fac!Alone(t, f)])
        /\ evidence' = [evidence EXCEPT ![f] = Append(@, Head(i.todo))]
        /\ weighed' = weighed \ {f} /\ UNCHANGED facts
    BY <1>1 DEF Fac!Insert
  <2> QED BY <2>1, <2>2, <2>3
<1>4. PICK w : w = [i EXCEPT !.at = "read", !.todo = q, !.alone = a]
  OBVIOUS
<1>5. w = [at |-> "read", fact |-> f, row |-> i.row, todo |-> q, alone |-> a]
  BY <1>1, <1>2, <1>4
<1>6. Fac!Known' = Fac!Known
  BY <1>3 DEF Fac!Known
<1>7. Fac!WorkOK(w)' /\ (w.alone => Fac!Alone(t, w.fact))
  BY <1>2, <1>3, <1>5, <1>6 DEF Fac!WorkOK
<1>8. /\ facts' \in Seq(Fac!Rows) /\ evidence' = [g \in Fac!Known' |-> evidence'[g]]
      /\ \A g \in Fac!Known \ {f} : facts'[g] = facts[g] /\ evidence'[g] = evidence[g]
  BY <1>3, <1>6 DEF Fac!IInv
<1>9. weighed' \subseteq Fac!Known' /\ weighed' \subseteq weighed \cup {f} /\ f \notin weighed'
  BY <1>3, <1>6 DEF Fac!IInv
<1>10. Fac!Become(t, w) /\ Fac!Known \subseteq Fac!Known' /\ (f \notin Fac!Known \/ f = work[t].fact)
  BY <1>1, <1>3, <1>4, <1>6
<1>11. \A g \in weighed' : g = f => (facts[g].verification = Fac!Derived(Fac!Refs(g)))'
  BY <1>9
<1> QED BY <1>7, <1>8, <1>9, <1>10, <1>11, FactStep

LEMMA FactWriteBackStep == ASSUME Fac!IInv, NEW t \in Threads, Fac!WriteBack(t) PROVE Fac!IInv'
<1>1. PICK i, f : i = work[t] /\ f = i.fact
  OBVIOUS
<1>2. /\ i = [at |-> i.at, fact |-> i.fact, row |-> i.row, todo |-> i.todo, alone |-> i.alone]
      /\ i.row \in Fac!Rows /\ f \in Fac!Known /\ i.alone \in BOOLEAN
      /\ i.alone => Fac!Alone(t, f) /\ i.row.verification = Fac!Derived(Fac!Refs(f))
  <2>1. i.at = "write" /\ Fac!WorkOK(i)
    BY <1>1 DEF Fac!WriteBack, Fac!Works, Fac!IInv
  <2> QED BY <1>1, <2>1, FactJob DEF Fac!WorkOK
<1>3. /\ facts' = [facts EXCEPT ![f] = i.row]
      /\ weighed' = IF i.alone THEN weighed \cup {f} ELSE weighed \ {f}
      /\ Fac!Become(t, IF i.todo = <<>> THEN Fac!Idle ELSE [i EXCEPT !.at = "insert"]) /\ UNCHANGED evidence
  BY <1>1 DEF Fac!WriteBack
<1>4. /\ facts' \in Seq(Fac!Rows) /\ Fac!Known' = Fac!Known /\ facts'[f] = i.row
      /\ \A g \in Fac!Known \ {f} : facts'[g] = facts[g] /\ evidence'[g] = evidence[g]
  <2>1. PICK k : k = facts'
    OBVIOUS
  <2>2. k \in Seq(Fac!Rows) /\ Len(k) = Len(facts) /\ k[f] = i.row /\ \A g \in Fac!Known \ {f} : k[g] = facts[g]
    BY <1>2, <1>3, <2>1 DEF Fac!IInv, Fac!Known
  <2> QED BY <1>3, <2>1, <2>2 DEF Fac!Known
<1>5. evidence' = [g \in Fac!Known' |-> evidence'[g]]
  BY <1>3, <1>4 DEF Fac!IInv
<1>6. weighed' \subseteq Fac!Known' /\ weighed' \subseteq weighed \cup {f} /\ (f \in weighed' => i.alone)
  BY <1>2, <1>3, <1>4 DEF Fac!IInv
<1>7. \A g \in weighed' : g = f => (facts[g].verification = Fac!Derived(Fac!Refs(g)))'
  <2> SUFFICES ASSUME f \in weighed', NEW g, g = f
               PROVE  (facts[g].verification = Fac!Derived(Fac!Refs(g)))'
    OBVIOUS
  <2>1. Fac!Refs(g)' = Fac!Refs(g)
    BY <1>3 DEF Fac!Refs
  <2>2. (Fac!Derived(Fac!Refs(g)))' = Fac!Derived(Fac!Refs(g))
    BY <2>1 DEF Fac!Derived
  <2> QED BY <1>2, <1>4, <1>6, <2>2
<1>8. PICK w : w = IF i.todo = <<>> THEN Fac!Idle ELSE [i EXCEPT !.at = "insert"]
  OBVIOUS
<1>9. Fac!WorkOK(w)' /\ (w.alone => Fac!Alone(t, w.fact))
  <2>1. PICK z : z = [i EXCEPT !.at = "insert"]
    OBVIOUS
  <2>2. z = [at |-> "insert", fact |-> f, row |-> i.row, todo |-> i.todo, alone |-> i.alone]
    BY <1>1, <1>2, <2>1
  <2>3. Fac!WorkOK(z)'
    BY <1>2, <1>4, <2>2 DEF Fac!WorkOK
  <2>4. Fac!WorkOK(Fac!Idle)'
    BY DEF Fac!WorkOK, Fac!Idle, Fac!NoRow, Fac!Rows, Fac!Statuses, Fac!Verifications
  <2> QED BY <1>2, <1>8, <2>1, <2>2, <2>3, <2>4, FactIdle
<1>10. Fac!Become(t, w) /\ Fac!Known \subseteq Fac!Known' /\ (f \notin Fac!Known \/ f = work[t].fact)
  BY <1>1, <1>3, <1>4, <1>8
<1> QED BY <1>4, <1>5, <1>6, <1>7, <1>9, <1>10, FactStep

LEMMA FactNextIInv == Fac!IInv /\ [Fac!Next]_(Fac!vars) => Fac!IInv'
<1> SUFFICES ASSUME Fac!IInv, [Fac!Next]_(Fac!vars) PROVE Fac!IInv'
  OBVIOUS
<1>1. CASE UNCHANGED Fac!vars
  <2>1. Fac!Known' = Fac!Known /\ \A f : Fac!Refs(f)' = Fac!Refs(f)
    BY <1>1 DEF Fac!vars, Fac!Known, Fac!Refs
  <2>2. \A f : (Fac!Derived(Fac!Refs(f)))' = Fac!Derived(Fac!Refs(f))
    BY <2>1 DEF Fac!Derived
  <2>3. UNCHANGED <<facts, evidence, work, weighed>>
    BY <1>1 DEF Fac!vars
  <2>4. ASSUME NEW t \in Threads PROVE Fac!WorkOK(work[t])' /\ (work'[t].alone => Fac!Alone(t, work[t].fact)')
    <3>1. Fac!WorkOK(work[t]) /\ (work[t].alone => Fac!Alone(t, work[t].fact))
      BY DEF Fac!IInv
    <3> QED BY <2>1, <2>2, <2>3, <3>1 DEF Fac!WorkOK, Fac!Alone
  <2> QED BY <2>1, <2>2, <2>3, <2>4 DEF Fac!IInv
<1>2. CASE Fac!Next
  BY <1>2, FactCreateStep, FactUpdateStep, FactExtractStep, FactAttachStep, FactSaveStep, FactCompareStep,
     FactEndStep, FactInsertStep, FactReadStep, FactWeighStep, FactWriteBackStep DEF Fac!Next
<1> QED BY <1>1, <1>2

-----------------------------------------------------------------------------
Wordings == texts = [f \in FactNames |-> texts[f]] /\ stated = [f \in FactNames |-> stated[f]]

LEMMA CompetitorInitIInv == Cmp!Init => Cmp!IInv
<1> SUFFICES ASSUME Cmp!Init PROVE Cmp!IInv
  OBVIOUS
<1>1. Cmp!WorkOK(Cmp!Idle)
  BY DEF Cmp!WorkOK, Cmp!Idle
<1>2. /\ competitors \in Seq(Cmp!CompetitorRows) /\ byName = {} /\ linking = [t \in Threads |-> Cmp!Idle]
      /\ Wordings /\ \A f \in FactNames : texts[f] \in stated[f]
  BY DEF Cmp!Init, Wordings
<1> QED BY <1>1, <1>2 DEF Cmp!IInv, Wordings

(* Competitors come to those there are, and none gets another name: a link *)
(* that was right stays right, and so does what a pass has listed.         *)
LEMMA CompetitorStep ==
  ASSUME Cmp!IInv, NEW t \in Threads, NEW w, linking' = [linking EXCEPT ![t] = w], Cmp!WorkOK(w),
         competitors' \in Seq(Cmp!CompetitorRows), Len(competitors) <= Len(competitors'),
         \A c \in Cmp!Ids : competitors'[c].name = competitors[c].name,
         Wordings',
         \A f \in FactNames : stated[f] \subseteq stated'[f] /\ texts'[f] \in stated'[f],
         \A l \in byName' \ byName : /\ l[2] \in Cmp!Ids /\ competitors[l[2]].name \in l[3]
                                    /\ l[1] \in FactNames /\ l[3] \in stated'[l[1]]
  PROVE  Cmp!IInv'
<1>1. PICK now, n, m : now = competitors' /\ n = Len(competitors) /\ m = Len(competitors')
  OBVIOUS
<1>2. /\ n \in Nat /\ m \in Nat /\ n <= m /\ Cmp!Ids = 1 .. n /\ Cmp!Ids' = 1 .. m
      /\ \A c \in 1 .. n : now[c].name = competitors[c].name
  BY <1>1 DEF Cmp!IInv, Cmp!Ids
<1>3. \A l \in byName' : /\ l[2] \in 1 .. m /\ now[l[2]].name \in l[3]
                        /\ l[1] \in FactNames /\ l[3] \in stated'[l[1]]
  BY <1>2 DEF Cmp!IInv
<1>4. ASSUME NEW i, Cmp!WorkOK(i) PROVE Cmp!WorkOK(i)'
  <2>1. ASSUME Cmp!StillNamed(i.listed) PROVE Cmp!StillNamed(i.listed)'
    <3>1. PICK k : k = Len(i.listed)
      OBVIOUS
    <3>2. k \in Nat /\ k <= n /\ \A c \in 1 .. k : c \in 1 .. n /\ i.listed[c].name = now[c].name
      BY <1>1, <1>2, <2>1, <3>1 DEF Cmp!StillNamed
    <3>3. k <= m
      BY <1>2, <3>2
    <3> QED BY <1>1, <2>1, <3>1, <3>2, <3>3 DEF Cmp!StillNamed
  <2>2. ASSUME NEW f, Cmp!WasStated(i, f) PROVE Cmp!WasStated(i, f)'
    BY <2>2 DEF Cmp!WasStated
  <2> QED BY <1>4, <2>1, <2>2 DEF Cmp!WorkOK
<1>5. linking' = [u \in Threads |-> linking'[u]] /\ \A u \in Threads : linking'[u] = w \/ linking'[u] = linking[u]
  BY DEF Cmp!IInv
<1>6. \A u \in Threads : Cmp!WorkOK(linking[u])'
  <2> TAKE u \in Threads
  <2>1. PICK i : i = linking'[u]
    OBVIOUS
  <2>2. Cmp!WorkOK(i)
    BY <1>5, <2>1 DEF Cmp!IInv
  <2> QED BY <1>4, <2>1, <2>2 DEF Cmp!WorkOK
<1> QED BY <1>1, <1>2, <1>3, <1>5, <1>6 DEF Cmp!IInv, Wordings

LEMMA CompetitorQuietStep ==
  ASSUME Cmp!IInv, NEW t \in Threads, NEW w, linking' = [linking EXCEPT ![t] = w], Cmp!WorkOK(w),
         UNCHANGED <<competitors, texts, stated, byName>>
  PROVE  Cmp!IInv'
<1>1. competitors' \in Seq(Cmp!CompetitorRows) /\ Len(competitors) <= Len(competitors')
  <2>1. PICK n \in Nat : n = Len(competitors)
    BY DEF Cmp!IInv
  <2> QED BY <2>1 DEF Cmp!IInv
<1>2. Wordings' /\ \A f \in FactNames : texts'[f] \in stated'[f]
  BY DEF Cmp!IInv, Wordings
<1> QED BY <1>1, <1>2, CompetitorStep

(* Neither are the texts of the facts written.                             *)
LEMMA CompetitorWording ==
  ASSUME Cmp!IInv, UNCHANGED <<texts, stated>>
  PROVE  /\ Wordings'
         /\ \A f \in FactNames : stated[f] \subseteq stated'[f] /\ texts'[f] \in stated'[f]
  BY DEF Cmp!IInv, Wordings

(* save_competitor names no competitor anew.                               *)
LEMMA CompetitorUpsert ==
  ASSUME Cmp!IInv, NEW id, NEW r \in Cmp!CompetitorRows, Cmp!Upsert(id, r)
  PROVE  /\ competitors' \in Seq(Cmp!CompetitorRows) /\ Len(competitors) <= Len(competitors')
         /\ \A c \in Cmp!Ids : competitors'[c].name = competitors[c].name
<1>1. PICK now, n, same : /\ now = competitors' /\ n = Len(competitors)
                          /\ same = {c \in Cmp!Live : competitors[c].name = r.name}
  OBVIOUS
<1>2. n \in Nat /\ Cmp!Ids = 1 .. n
  BY <1>1 DEF Cmp!IInv, Cmp!Ids
<1>3. now = IF same = {} THEN Append(competitors, r)
            ELSE [c \in 1 .. n |-> IF c \in same THEN r ELSE competitors[c]]
  BY <1>1, <1>2 DEF Cmp!Upsert
<1>4. now \in Seq(Cmp!CompetitorRows) /\ n <= Len(now) /\ \A c \in 1 .. n : now[c].name = competitors[c].name
  <2>1. CASE same = {}
    <3>1. now = Append(competitors, r)
      BY <1>3, <2>1
    <3> QED BY <1>1, <1>2, <3>1 DEF Cmp!IInv
  <2>2. CASE same # {}
    <3>1. now = [c \in 1 .. n |-> IF c \in same THEN r ELSE competitors[c]]
      BY <1>3, <2>2
    <3>2. \A c \in 1 .. n : competitors[c] \in Cmp!CompetitorRows
      BY <1>1 DEF Cmp!IInv
    <3>3. \A c \in 1 .. n : now[c] \in Cmp!CompetitorRows /\ now[c].name = competitors[c].name
      BY <1>1, <3>1, <3>2
    <3>4. now = [c \in 1 .. n |-> now[c]]
      BY <3>1
    <3>5. now \in [1 .. n -> Cmp!CompetitorRows]
      BY <3>3, <3>4
    <3>6. now \in Seq(Cmp!CompetitorRows) /\ Len(now) = n
      BY <1>2, <3>5
    <3> QED BY <1>2, <3>3, <3>6
  <2> QED BY <2>1, <2>2
<1> QED BY <1>1, <1>2, <1>4

LEMMA CompetitorIdle == Cmp!WorkOK(Cmp!Idle)
  BY DEF Cmp!WorkOK, Cmp!Idle

LEMMA CompetitorSame ==
  ASSUME Cmp!IInv, NEW t \in Threads, UNCHANGED linking
  PROVE  linking' = [linking EXCEPT ![t] = linking[t]] /\ Cmp!WorkOK(linking[t])
  BY DEF Cmp!IInv

LEMMA CompetitorStarts ==
  ASSUME NEW p \in {"product", "one", "checkClaim"}, NEW id, NEW c, NEW q, NEW w,
         w = [at |-> p, id |-> id, row |-> Cmp!NoCompetitor, claim |-> c, listed |-> <<>>, linked |-> {},
              had |-> {}, rest |-> {}, todo |-> q, before |-> {}, found |-> {}, texts |-> <<>>]
  PROVE  Cmp!WorkOK(w)
  BY DEF Cmp!WorkOK

LEMMA CompetitorCreateStep ==
  ASSUME Cmp!IInv, NEW t \in Threads, Cmp!CreateCompetitor(t) PROVE Cmp!IInv'
<1>1. PICK n \in Names, a \in SUBSET Aliases : Cmp!Upsert(0, [Cmp!NoCompetitor EXCEPT !.name = n, !.aliases = a])
  BY DEF Cmp!CreateCompetitor
<1>2. PICK r : r = [Cmp!NoCompetitor EXCEPT !.name = n, !.aliases = a]
  OBVIOUS
<1>3. r = [name |-> n, aliases |-> a, status |-> "active", there |-> TRUE]
  BY <1>2 DEF Cmp!NoCompetitor
<1>4. r \in Cmp!CompetitorRows
  BY <1>3 DEF Cmp!CompetitorRows
<1>5. UNCHANGED <<linking, texts, stated, byName>>
  BY DEF Cmp!CreateCompetitor, Cmp!Links, Cmp!Wording
<1>6. Cmp!Upsert(0, r)
  BY <1>1, <1>2
<1> QED BY <1>4, <1>5, <1>6, CompetitorUpsert, CompetitorSame, CompetitorWording, CompetitorStep

LEMMA CompetitorReadStep ==
  ASSUME Cmp!IInv, NEW t \in Threads, Cmp!ReadCompetitor(t) PROVE Cmp!IInv'
<1>1. PICK c \in Cmp!Live, n \in Names, a \in SUBSET Aliases, s \in {"active", "inactive"} :
        Cmp!Become(t, [Cmp!Idle EXCEPT !.at = "saveCompetitor", !.id = c,
                         !.row = [name |-> n, aliases |-> a, status |-> s, there |-> TRUE]])
  BY DEF Cmp!ReadCompetitor
<1>2. PICK r : r = [name |-> n, aliases |-> a, status |-> s, there |-> TRUE]
  OBVIOUS
<1>3. r \in Cmp!CompetitorRows
  BY <1>2 DEF Cmp!CompetitorRows
<1>4. PICK w : w = [Cmp!Idle EXCEPT !.at = "saveCompetitor", !.id = c, !.row = r]
  OBVIOUS
<1>5. w = [at |-> "saveCompetitor", id |-> c, row |-> r, claim |-> Cmp!NoClaim, listed |-> <<>>, linked |-> {},
           had |-> {}, rest |-> {}, todo |-> {}, before |-> {}, found |-> {}, texts |-> <<>>]
  BY <1>4 DEF Cmp!Idle
<1>6. Cmp!WorkOK(w)
  BY <1>3, <1>5 DEF Cmp!WorkOK
<1>7. linking' = [linking EXCEPT ![t] = w] /\ UNCHANGED <<competitors, texts, stated, byName>>
  BY <1>1, <1>2, <1>4 DEF Cmp!ReadCompetitor, Cmp!Become, Cmp!Registry, Cmp!Links, Cmp!Wording
<1> QED BY <1>6, <1>7, CompetitorQuietStep

LEMMA CompetitorSaveStep ==
  ASSUME Cmp!IInv, NEW t \in Threads, Cmp!SaveCompetitor(t) PROVE Cmp!IInv'
<1>1. linking[t].row \in Cmp!CompetitorRows /\ Cmp!Upsert(linking[t].id, linking[t].row)
  BY DEF Cmp!SaveCompetitor, Cmp!Works, Cmp!IInv, Cmp!WorkOK
<1>2. linking' = [linking EXCEPT ![t] = Cmp!Idle] /\ UNCHANGED <<texts, stated, byName>>
  BY DEF Cmp!SaveCompetitor, Cmp!Become, Cmp!Links, Cmp!Wording
<1> QED BY <1>1, <1>2, CompetitorIdle, CompetitorUpsert, CompetitorWording, CompetitorStep

LEMMA CompetitorDeleteStep ==
  ASSUME Cmp!IInv, NEW t \in Threads, Cmp!DeleteCompetitor(t) PROVE Cmp!IInv'
<1>1. PICK c \in Cmp!Live :
        /\ competitors' = [competitors EXCEPT ![c].there = FALSE]
        /\ byName' \subseteq byName /\ UNCHANGED <<linking, texts, stated>>
  BY DEF Cmp!DeleteCompetitor, Cmp!Wording
<1>2. PICK r, now, n : r = [competitors[c] EXCEPT !.there = FALSE] /\ now = competitors' /\ n = Len(competitors)
  OBVIOUS
<1>3. c \in 1 .. n /\ n \in Nat /\ competitors[c] \in Cmp!CompetitorRows /\ Cmp!Ids = 1 .. n
  BY <1>2 DEF Cmp!IInv, Cmp!Live, Cmp!Ids
<1>4. r \in Cmp!CompetitorRows /\ r.name = competitors[c].name
  <2>1. PICK k : k = competitors[c]
    OBVIOUS
  <2>2. k \in [name : Names, aliases : SUBSET Aliases, status : {"active", "inactive"}, there : BOOLEAN]
    BY <1>3, <2>1 DEF Cmp!CompetitorRows
  <2>3. r \in [name : Names, aliases : SUBSET Aliases, status : {"active", "inactive"}, there : BOOLEAN] /\ r.name = k.name
    BY <1>2, <2>1, <2>2
  <2> QED BY <2>1, <2>3 DEF Cmp!CompetitorRows
<1>5. now = [competitors EXCEPT ![c] = r]
  BY <1>1, <1>2
<1>6. now \in Seq(Cmp!CompetitorRows) /\ Len(now) = n /\ \A d \in 1 .. n : now[d].name = competitors[d].name
  BY <1>2, <1>3, <1>4, <1>5 DEF Cmp!IInv
<1>7. /\ competitors' \in Seq(Cmp!CompetitorRows) /\ Len(competitors) <= Len(competitors')
      /\ \A d \in Cmp!Ids : competitors'[d].name = competitors[d].name
  BY <1>2, <1>3, <1>6
<1> QED BY <1>1, <1>7, CompetitorSame, CompetitorWording, CompetitorStep

(* What leaves the thread idle, or does not concern it, and writes neither *)
(* competitors nor links.                                                  *)
LEMMA CompetitorEndStep ==
  ASSUME Cmp!IInv, NEW t \in Threads,
         \/ Cmp!AddProduct(t) \/ Cmp!DeleteProduct(t) \/ Cmp!LinkFact(t) \/ Cmp!LinkProduct(t)
         \/ Cmp!SaveClaim(t) \/ Cmp!Break(t)
  PROVE  Cmp!IInv'
<1>1. /\ UNCHANGED <<competitors, texts, stated, byName>>
      /\ UNCHANGED linking \/ linking' = [linking EXCEPT ![t] = Cmp!Idle]
  BY DEF Cmp!AddProduct, Cmp!DeleteProduct, Cmp!LinkFact, Cmp!LinkProduct, Cmp!SaveClaim, Cmp!Break,
       Cmp!Become, Cmp!Registry, Cmp!Links, Cmp!Wording
<1> QED BY <1>1, CompetitorIdle, CompetitorSame, CompetitorQuietStep

LEMMA CompetitorCheckStep ==
  ASSUME Cmp!IInv, NEW t \in Threads, Cmp!CheckCompetitor(t) \/ Cmp!CheckLink(t) PROVE Cmp!IInv'
<1>1. /\ UNCHANGED <<competitors, texts, stated, byName>>
      /\ \/ \E c : linking' = [linking EXCEPT ![t] = [Cmp!Idle EXCEPT !.at = "product", !.id = c]]
         \/ \E q : linking' = [linking EXCEPT ![t] = [Cmp!Idle EXCEPT !.at = "one", !.todo = q]]
  <2>1. CASE Cmp!CheckCompetitor(t)
    BY <2>1 DEF Cmp!CheckCompetitor, Cmp!Become, Cmp!Registry, Cmp!Links, Cmp!Wording
  <2>2. CASE Cmp!CheckLink(t)
    <3>1. PICK f, c : Cmp!Become(t, [Cmp!Idle EXCEPT !.at = "one", !.todo = {<<f, c>>}])
      BY <2>2 DEF Cmp!CheckLink
    <3>2. PICK q : q = {<<f, c>>}
      OBVIOUS
    <3>3. linking' = [linking EXCEPT ![t] = [Cmp!Idle EXCEPT !.at = "one", !.todo = q]]
      BY <3>1, <3>2 DEF Cmp!Become
    <3> QED BY <2>2, <3>3 DEF Cmp!CheckLink, Cmp!Registry, Cmp!Links, Cmp!Wording
  <2> QED BY <2>1, <2>2
<1>2. ASSUME NEW c PROVE Cmp!WorkOK([Cmp!Idle EXCEPT !.at = "product", !.id = c])
  <2>1. PICK w : w = [Cmp!Idle EXCEPT !.at = "product", !.id = c]
    OBVIOUS
  <2>2. w = [at |-> "product", id |-> c, row |-> Cmp!NoCompetitor, claim |-> Cmp!NoClaim, listed |-> <<>>,
             linked |-> {}, had |-> {}, rest |-> {}, todo |-> {}, before |-> {}, found |-> {}, texts |-> <<>>]
    BY <2>1 DEF Cmp!Idle
  <2> QED BY <2>1, <2>2, CompetitorStarts
<1>3. ASSUME NEW q PROVE Cmp!WorkOK([Cmp!Idle EXCEPT !.at = "one", !.todo = q])
  <2>1. PICK w : w = [Cmp!Idle EXCEPT !.at = "one", !.todo = q]
    OBVIOUS
  <2>2. w = [at |-> "one", id |-> 0, row |-> Cmp!NoCompetitor, claim |-> Cmp!NoClaim, listed |-> <<>>,
             linked |-> {}, had |-> {}, rest |-> {}, todo |-> q, before |-> {}, found |-> {}, texts |-> <<>>]
    BY <2>1 DEF Cmp!Idle
  <2> QED BY <2>1, <2>2, CompetitorStarts
<1> QED BY <1>1, <1>2, <1>3, CompetitorQuietStep

LEMMA CompetitorClaimStep ==
  ASSUME Cmp!IInv, NEW t \in Threads, Cmp!CreateClaim(t) \/ Cmp!BuildClaim(t) \/ Cmp!ReadClaim(t) PROVE Cmp!IInv'
<1>1. PICK id, k : Cmp!Become(t, [Cmp!Idle EXCEPT !.at = "checkClaim", !.id = id, !.claim = k])
  <2>1. ASSUME NEW k, Cmp!Become(t, [Cmp!Idle EXCEPT !.at = "checkClaim", !.claim = k])
        PROVE  Cmp!Become(t, [Cmp!Idle EXCEPT !.at = "checkClaim", !.id = 0, !.claim = k])
    <3>1. PICK v, w : /\ v = [Cmp!Idle EXCEPT !.at = "checkClaim", !.claim = k]
                      /\ w = [Cmp!Idle EXCEPT !.at = "checkClaim", !.id = 0, !.claim = k]
      OBVIOUS
    <3>2. v = [at |-> "checkClaim", id |-> 0, row |-> Cmp!NoCompetitor, claim |-> k, listed |-> <<>>,
               linked |-> {}, had |-> {}, rest |-> {}, todo |-> {}, before |-> {}, found |-> {}, texts |-> <<>>]
      BY <3>1 DEF Cmp!Idle
    <3>3. w = [at |-> "checkClaim", id |-> 0, row |-> Cmp!NoCompetitor, claim |-> k, listed |-> <<>>,
               linked |-> {}, had |-> {}, rest |-> {}, todo |-> {}, before |-> {}, found |-> {}, texts |-> <<>>]
      BY <3>1 DEF Cmp!Idle
    <3> QED BY <2>1, <3>1, <3>2, <3>3
  <2>2. CASE Cmp!CreateClaim(t)
    <3>1. PICK f, c : Cmp!Become(t, [Cmp!Idle EXCEPT !.at = "checkClaim",
                                       !.claim = [Cmp!NoClaim EXCEPT !.facts = f, !.competitors = c]])
      BY <2>2 DEF Cmp!CreateClaim
    <3>2. PICK k : k = [Cmp!NoClaim EXCEPT !.facts = f, !.competitors = c]
      OBVIOUS
    <3> QED BY <2>1, <3>1, <3>2
  <2>3. CASE Cmp!BuildClaim(t)
    <3>1. PICK f : Cmp!Become(t, [Cmp!Idle EXCEPT !.at = "checkClaim",
            !.claim = [Cmp!NoClaim EXCEPT !.facts = {f}, !.competitors = {c \in Cmp!Ids : <<f, c>> \in links}]])
      BY <2>3 DEF Cmp!BuildClaim
    <3>2. PICK k : k = [Cmp!NoClaim EXCEPT !.facts = {f}, !.competitors = {c \in Cmp!Ids : <<f, c>> \in links}]
      OBVIOUS
    <3> QED BY <2>1, <3>1, <3>2
  <2>4. CASE Cmp!ReadClaim(t)
    <3>1. PICK j, s : Cmp!Become(t, [Cmp!Idle EXCEPT !.at = "checkClaim", !.id = j,
                                       !.claim = [claims[j] EXCEPT !.status = s]])
      BY <2>4 DEF Cmp!ReadClaim
    <3>2. PICK k : k = [claims[j] EXCEPT !.status = s]
      OBVIOUS
    <3> QED BY <3>1, <3>2
  <2> QED BY <2>2, <2>3, <2>4
<1>2. PICK w : w = [Cmp!Idle EXCEPT !.at = "checkClaim", !.id = id, !.claim = k]
  OBVIOUS
<1>3. w = [at |-> "checkClaim", id |-> id, row |-> Cmp!NoCompetitor, claim |-> k, listed |-> <<>>,
           linked |-> {}, had |-> {}, rest |-> {}, todo |-> {}, before |-> {}, found |-> {}, texts |-> <<>>]
  BY <1>2 DEF Cmp!Idle
<1>4. Cmp!WorkOK(w)
  BY <1>3, CompetitorStarts
<1>5. linking' = [linking EXCEPT ![t] = w] /\ UNCHANGED <<competitors, texts, stated, byName>>
  BY <1>1, <1>2 DEF Cmp!CreateClaim, Cmp!BuildClaim, Cmp!ReadClaim, Cmp!Become, Cmp!Registry, Cmp!Links, Cmp!Wording
<1> QED BY <1>4, <1>5, CompetitorQuietStep

(* A pass over the facts: what a thread is doing, as a record.             *)
LEMMA CompetitorJob ==
  ASSUME Cmp!IInv, NEW t \in Threads, NEW i, i = linking[t]
  PROVE  /\ Cmp!WorkOK(i)
         /\ i = [at |-> i.at, id |-> i.id, row |-> i.row, claim |-> i.claim, listed |-> i.listed,
                 linked |-> i.linked, had |-> i.had, rest |-> i.rest, todo |-> i.todo, before |-> i.before,
                 found |-> i.found, texts |-> i.texts]
  BY DEF Cmp!IInv, Cmp!WorkOK

LEMMA CompetitorGoesOn ==
  ASSUME Cmp!IInv, NEW t \in Threads, NEW i, i = linking[t], i.at \in {"fact", "links"},
         NEW p \in {"fact", "links"}, NEW a, NEW b, NEW c, NEW d, NEW e, NEW f, NEW w,
         w = [at |-> p, id |-> i.id, row |-> i.row, claim |-> i.claim, listed |-> i.listed,
              linked |-> a, had |-> b, rest |-> c, todo |-> d, before |-> e, found |-> f, texts |-> i.texts],
         c \subseteq i.rest,
         p = "links" => \A l \in d : l[2] \in 1 .. Len(i.listed) /\ Cmp!WasStated(i, l[1])
  PROVE  Cmp!WorkOK(w)
<1>1. Cmp!StillNamed(i.listed) /\ \A g \in c : Cmp!WasStated(i, g)
  BY CompetitorJob DEF Cmp!WorkOK
<1>2. \A g : Cmp!WasStated(i, g) => Cmp!WasStated(w, g)
  BY DEF Cmp!WasStated
<1> QED BY <1>1, <1>2 DEF Cmp!WorkOK

LEMMA CompetitorListStep ==
  ASSUME Cmp!IInv, NEW t \in Threads, Cmp!ListCompetitors(t) PROVE Cmp!IInv'
<1>1. PICK w : w = [Cmp!Idle EXCEPT !.at = "facts", !.listed = competitors]
  OBVIOUS
<1>2. w = [at |-> "facts", id |-> 0, row |-> Cmp!NoCompetitor, claim |-> Cmp!NoClaim, listed |-> competitors,
           linked |-> {}, had |-> {}, rest |-> {}, todo |-> {}, before |-> {}, found |-> {}, texts |-> <<>>]
  BY <1>1 DEF Cmp!Idle
<1>3. Cmp!StillNamed(competitors)
  <2>1. PICK n \in Nat : n = Len(competitors)
    BY DEF Cmp!IInv
  <2> QED BY <2>1 DEF Cmp!IInv, Cmp!StillNamed
<1>4. Cmp!WorkOK(w)
  BY <1>2, <1>3 DEF Cmp!WorkOK
<1>5. linking' = [linking EXCEPT ![t] = w] /\ UNCHANGED <<competitors, texts, stated, byName>>
  BY <1>1 DEF Cmp!ListCompetitors, Cmp!Become, Cmp!Registry, Cmp!Links, Cmp!Wording
<1> QED BY <1>4, <1>5, CompetitorQuietStep

LEMMA CompetitorListFactsStep ==
  ASSUME Cmp!IInv, NEW t \in Threads, Cmp!ListFacts(t) PROVE Cmp!IInv'
<1>0. PICK i : i = linking[t] /\ i.at = "facts"
  BY DEF Cmp!ListFacts, Cmp!Works
<1>1. /\ i = linking[t] /\ i.at = "facts"
      /\ i = [at |-> i.at, id |-> i.id, row |-> i.row, claim |-> i.claim, listed |-> i.listed,
              linked |-> i.linked, had |-> i.had, rest |-> i.rest, todo |-> i.todo, before |-> i.before,
              found |-> i.found, texts |-> i.texts]
  BY <1>0, CompetitorJob
<1>2. PICK some \in SUBSET FactNames :
        linking' = [linking EXCEPT ![t] = [i EXCEPT !.at = "fact", !.linked = links, !.had = productLinks,
                                                    !.rest = some, !.texts = texts]]
  BY <1>1 DEF Cmp!ListFacts, Cmp!Become
<1>3. PICK w : w = [i EXCEPT !.at = "fact", !.linked = links, !.had = productLinks, !.rest = some, !.texts = texts]
  OBVIOUS
<1>4. w = [at |-> "fact", id |-> i.id, row |-> i.row, claim |-> i.claim, listed |-> i.listed,
           linked |-> links, had |-> productLinks, rest |-> some, todo |-> i.todo, before |-> i.before,
           found |-> i.found, texts |-> texts]
  BY <1>1, <1>3
<1>5. Cmp!WorkOK(w)
  <2>1. Cmp!StillNamed(i.listed)
    BY <1>1, CompetitorJob DEF Cmp!WorkOK
  <2>2. \A g \in some : Cmp!WasStated(w, g)
    BY <1>4 DEF Cmp!WasStated, Cmp!IInv
  <2> QED BY <1>4, <2>1, <2>2 DEF Cmp!WorkOK
<1> QED BY <1>2, <1>3, <1>5, CompetitorQuietStep DEF Cmp!ListFacts, Cmp!Registry, Cmp!Links, Cmp!Wording

(* A fact is edited: its new text is one it has had from then on.          *)
LEMMA CompetitorReadFactStep ==
  ASSUME Cmp!IInv, NEW t \in Threads, Cmp!ReadFact(t) PROVE Cmp!IInv'
<1>1. PICK f, s : Cmp!Become(t, [Cmp!Idle EXCEPT !.at = "saveFact", !.texts = [g \in {f} |-> s]])
  BY DEF Cmp!ReadFact
<1>2. PICK x : x = [g \in {f} |-> s]
  OBVIOUS
<1>3. PICK w : w = [Cmp!Idle EXCEPT !.at = "saveFact", !.texts = x]
  OBVIOUS
<1>4. w = [at |-> "saveFact", id |-> 0, row |-> Cmp!NoCompetitor, claim |-> Cmp!NoClaim, listed |-> <<>>,
           linked |-> {}, had |-> {}, rest |-> {}, todo |-> {}, before |-> {}, found |-> {}, texts |-> x]
  BY <1>3 DEF Cmp!Idle
<1>5. Cmp!WorkOK(w)
  BY <1>4 DEF Cmp!WorkOK
<1>6. linking' = [linking EXCEPT ![t] = w] /\ UNCHANGED <<competitors, texts, stated, byName>>
  BY <1>1, <1>2, <1>3 DEF Cmp!ReadFact, Cmp!Become, Cmp!Registry, Cmp!Links, Cmp!Wording
<1> QED BY <1>5, <1>6, CompetitorQuietStep

LEMMA CompetitorSaveFactStep ==
  ASSUME Cmp!IInv, NEW t \in Threads, Cmp!SaveFact(t) PROVE Cmp!IInv'
<1>1. PICK f, s : /\ texts' = [texts EXCEPT ![f] = s]
                  /\ stated' = [stated EXCEPT ![f] = stated[f] \cup {s}]
  BY DEF Cmp!SaveFact
<1>2. linking' = [linking EXCEPT ![t] = Cmp!Idle] /\ UNCHANGED <<competitors, byName>>
  BY DEF Cmp!SaveFact, Cmp!Become, Cmp!Registry
<1>3. /\ Wordings'
      /\ \A g \in FactNames : stated[g] \subseteq stated'[g] /\ texts'[g] \in stated'[g]
  BY <1>1 DEF Cmp!IInv, Wordings
<1>4. competitors' \in Seq(Cmp!CompetitorRows) /\ Len(competitors) <= Len(competitors')
  <2>1. PICK n \in Nat : n = Len(competitors)
    BY DEF Cmp!IInv
  <2> QED BY <1>2, <2>1 DEF Cmp!IInv
<1> QED BY <1>2, <1>3, <1>4, CompetitorIdle, CompetitorStep

LEMMA CompetitorNextFactStep ==
  ASSUME Cmp!IInv, NEW t \in Threads, Cmp!NextFact(t) PROVE Cmp!IInv'
<1>0. PICK i : i = linking[t] /\ i.at = "fact"
  BY DEF Cmp!NextFact, Cmp!Works
<1>1. /\ i = linking[t] /\ i.at = "fact"
      /\ i = [at |-> i.at, id |-> i.id, row |-> i.row, claim |-> i.claim, listed |-> i.listed,
              linked |-> i.linked, had |-> i.had, rest |-> i.rest, todo |-> i.todo, before |-> i.before,
              found |-> i.found, texts |-> i.texts]
  BY <1>0, CompetitorJob
<1>2. UNCHANGED <<competitors, texts, stated, byName>>
  BY DEF Cmp!NextFact, Cmp!Registry, Cmp!Links, Cmp!Wording
<1>3. CASE Cmp!Become(t, Cmp!Idle)
  BY <1>2, <1>3, CompetitorIdle, CompetitorQuietStep DEF Cmp!Become
<1>4. CASE ~Cmp!Become(t, Cmp!Idle)
  <2>1. PICK f \in linking[t].rest :
          LET w == linking[t]
              with == {d \in Cmp!Listed(w) : <<f, d>> \in w.linked}
          IN  Cmp!Become(t, [w EXCEPT !.at = "links", !.rest = @ \ {f}, !.before = {f} \X with,
                !.todo = {f} \X {d \in Cmp!Listed(w) \ with : Cmp!Matches(w.texts[f], w.listed[d])}])
    BY <1>4 DEF Cmp!NextFact
  <2>2. PICK c, b, q, with :
          /\ with = {d \in Cmp!Listed(linking[t]) : <<f, d>> \in linking[t].linked}
          /\ c = linking[t].rest \ {f} /\ b = {f} \X with
          /\ q = {f} \X {d \in Cmp!Listed(linking[t]) \ with : Cmp!Matches(linking[t].texts[f], linking[t].listed[d])}
    OBVIOUS
  <2>3. PICK w : w = [i EXCEPT !.at = "links", !.rest = c, !.before = b, !.todo = q]
    OBVIOUS
  <2>4. linking' = [linking EXCEPT ![t] = w]
    BY <1>1, <2>1, <2>2, <2>3 DEF Cmp!Become
  <2>5. w = [at |-> "links", id |-> i.id, row |-> i.row, claim |-> i.claim, listed |-> i.listed,
             linked |-> i.linked, had |-> i.had, rest |-> c, todo |-> q, before |-> b, found |-> i.found,
             texts |-> i.texts]
    BY <1>1, <2>3
  <2>6. (\A l \in q : l[2] \in 1 .. Len(i.listed) /\ Cmp!WasStated(i, l[1])) /\ c \subseteq i.rest
    <3>1. Cmp!WasStated(i, f)
      BY <1>1, CompetitorJob DEF Cmp!WorkOK
    <3> QED BY <1>1, <2>2, <3>1 DEF Cmp!Listed
  <2>7. Cmp!WorkOK(w)
    BY <1>1, <2>5, <2>6, CompetitorGoesOn
  <2> QED BY <1>2, <2>4, <2>7, CompetitorQuietStep
<1> QED BY <1>3, <1>4

(* The link of a fact that mentions the name: the name is the one that was *)
(* listed, and the competitor still has it.                                *)
LEMMA CompetitorAutoLinkStep ==
  ASSUME Cmp!IInv, NEW t \in Threads, Cmp!AutoLink(t) PROVE Cmp!IInv'
<1>0. PICK i : i = linking[t] /\ i.at = "links"
  BY DEF Cmp!AutoLink, Cmp!Works
<1>1. /\ i = linking[t] /\ i.at = "links"
      /\ i = [at |-> i.at, id |-> i.id, row |-> i.row, claim |-> i.claim, listed |-> i.listed,
              linked |-> i.linked, had |-> i.had, rest |-> i.rest, todo |-> i.todo, before |-> i.before,
              found |-> i.found, texts |-> i.texts]
  BY <1>0, CompetitorJob
<1>2. UNCHANGED <<competitors, texts, stated>>
  BY DEF Cmp!AutoLink, Cmp!Registry, Cmp!Wording
<1>3. PICK l \in i.todo :
        IF l[2] \notin Cmp!Live THEN Cmp!Become(t, Cmp!Idle) /\ UNCHANGED <<links, byName>>
        ELSE /\ links' = links \cup {l}
             /\ byName' = IF i.listed[l[2]].name \in i.texts[l[1]]
                          THEN byName \cup {<<l[1], l[2], i.texts[l[1]]>>} ELSE byName
             /\ Cmp!Become(t, [i EXCEPT !.todo = @ \ {l}])
  BY <1>1 DEF Cmp!AutoLink
<1>4. CASE l[2] \notin Cmp!Live
  BY <1>2, <1>3, <1>4, CompetitorIdle, CompetitorQuietStep DEF Cmp!Become
<1>5. CASE l[2] \in Cmp!Live
  <2>1. PICK w, q : w = [i EXCEPT !.todo = q] /\ q = i.todo \ {l}
    OBVIOUS
  <2>2. linking' = [linking EXCEPT ![t] = w]
    BY <1>3, <1>5, <2>1 DEF Cmp!Become
  <2>3. w = [at |-> "links", id |-> i.id, row |-> i.row, claim |-> i.claim, listed |-> i.listed,
             linked |-> i.linked, had |-> i.had, rest |-> i.rest, todo |-> q, before |-> i.before, found |-> i.found,
             texts |-> i.texts]
    BY <1>1, <2>1
  <2>4. Cmp!StillNamed(i.listed) /\ \A k \in i.todo : k[2] \in 1 .. Len(i.listed) /\ Cmp!WasStated(i, k[1])
    BY <1>1, CompetitorJob DEF Cmp!WorkOK
  <2>5. Cmp!WorkOK(w)
    BY <1>1, <2>1, <2>3, <2>4, CompetitorGoesOn
  <2>6. l[2] \in Cmp!Ids /\ i.listed[l[2]].name = competitors[l[2]].name
    BY <1>5, <2>4 DEF Cmp!Live, Cmp!StillNamed
  <2>7. \A k \in byName' \ byName : /\ k[2] \in Cmp!Ids /\ competitors[k[2]].name \in k[3]
                                   /\ k[1] \in FactNames /\ k[3] \in stated'[k[1]]
    <3>1. l[1] \in FactNames /\ i.texts[l[1]] \in stated[l[1]]
      BY <2>4 DEF Cmp!WasStated
    <3> QED BY <1>2, <1>3, <1>5, <2>6, <3>1
  <2>8. competitors' \in Seq(Cmp!CompetitorRows) /\ Len(competitors) <= Len(competitors')
    <3>1. PICK n \in Nat : n = Len(competitors)
      BY DEF Cmp!IInv
    <3> QED BY <1>2, <3>1 DEF Cmp!IInv
  <2> QED BY <1>2, <2>2, <2>5, <2>7, <2>8, CompetitorWording, CompetitorStep
<1> QED BY <1>4, <1>5

LEMMA CompetitorProductStep ==
  ASSUME Cmp!IInv, NEW t \in Threads, Cmp!ListProducts(t) \/ Cmp!AutoLinkProduct(t) PROVE Cmp!IInv'
<1>0. PICK i : i = linking[t] /\ i.at = "links"
  BY DEF Cmp!ListProducts, Cmp!AutoLinkProduct, Cmp!Works
<1>1. /\ i = linking[t] /\ i.at = "links"
      /\ i = [at |-> i.at, id |-> i.id, row |-> i.row, claim |-> i.claim, listed |-> i.listed,
              linked |-> i.linked, had |-> i.had, rest |-> i.rest, todo |-> i.todo, before |-> i.before,
              found |-> i.found, texts |-> i.texts]
  BY <1>0, CompetitorJob
<1>2. UNCHANGED <<competitors, texts, stated, byName>>
  BY DEF Cmp!ListProducts, Cmp!AutoLinkProduct, Cmp!Registry, Cmp!Links, Cmp!Wording
<1>3. \A k \in i.todo : k[2] \in 1 .. Len(i.listed) /\ Cmp!WasStated(i, k[1])
  BY <1>1, CompetitorJob DEF Cmp!WorkOK
<1>4. CASE Cmp!Become(t, Cmp!Idle)
  BY <1>2, <1>4, CompetitorIdle, CompetitorQuietStep DEF Cmp!Become
<1>5. ASSUME NEW p \in {"fact", "links"}, NEW b, NEW f, NEW w,
             w = [at |-> p, id |-> i.id, row |-> i.row, claim |-> i.claim, listed |-> i.listed,
                  linked |-> i.linked, had |-> i.had, rest |-> i.rest, todo |-> i.todo, before |-> b, found |-> f,
                  texts |-> i.texts],
             Cmp!Become(t, w)
      PROVE  Cmp!IInv'
  <2>1. Cmp!WorkOK(w)
    BY <1>1, <1>3, <1>5, CompetitorGoesOn
  <2> QED BY <1>2, <1>5, <2>1, CompetitorQuietStep DEF Cmp!Become
<1>6. CASE Cmp!ListProducts(t)
  <2>1. CASE Cmp!Become(t, [i EXCEPT !.at = "fact"])
    <3>1. PICK w : w = [i EXCEPT !.at = "fact"]
      OBVIOUS
    <3>2. w = [at |-> "fact", id |-> i.id, row |-> i.row, claim |-> i.claim, listed |-> i.listed, linked |-> i.linked,
               had |-> i.had, rest |-> i.rest, todo |-> i.todo, before |-> i.before, found |-> i.found,
               texts |-> i.texts]
      BY <1>1, <3>1
    <3> QED BY <1>5, <2>1, <3>1, <3>2
  <2>2. CASE ~Cmp!Become(t, [i EXCEPT !.at = "fact"])
    <3>1. PICK l, mentioned :
            Cmp!Become(t, [i EXCEPT !.before = @ \ {l}, !.found = ({l[1]} \X mentioned) \ i.had])
      BY <1>1, <1>6, <2>2 DEF Cmp!ListProducts
    <3>2. PICK b, f : b = i.before \ {l} /\ f = ({l[1]} \X mentioned) \ i.had
      OBVIOUS
    <3>3. PICK w : w = [i EXCEPT !.before = b, !.found = f]
      OBVIOUS
    <3>4. w = [at |-> "links", id |-> i.id, row |-> i.row, claim |-> i.claim, listed |-> i.listed, linked |-> i.linked,
               had |-> i.had, rest |-> i.rest, todo |-> i.todo, before |-> b, found |-> f, texts |-> i.texts]
      BY <1>1, <3>3
    <3>5. Cmp!Become(t, w)
      BY <3>1, <3>2, <3>3
    <3> QED BY <1>5, <3>4, <3>5
  <2> QED BY <2>1, <2>2
<1>7. CASE Cmp!AutoLinkProduct(t)
  <2>1. CASE ~Cmp!Become(t, Cmp!Idle)
    <3>1. PICK l \in i.found : Cmp!Become(t, [i EXCEPT !.found = @ \ {l}])
      BY <1>1, <1>7, <2>1 DEF Cmp!AutoLinkProduct
    <3>2. PICK f : f = i.found \ {l}
      OBVIOUS
    <3>3. PICK w : w = [i EXCEPT !.found = f]
      OBVIOUS
    <3>4. w = [at |-> "links", id |-> i.id, row |-> i.row, claim |-> i.claim, listed |-> i.listed, linked |-> i.linked,
               had |-> i.had, rest |-> i.rest, todo |-> i.todo, before |-> i.before, found |-> f, texts |-> i.texts]
      BY <1>1, <3>3
    <3>5. Cmp!Become(t, w)
      BY <3>1, <3>2, <3>3
    <3> QED BY <1>5, <3>4, <3>5
  <2> QED BY <1>4, <2>1
<1> QED BY <1>6, <1>7

LEMMA CompetitorCheckClaimStep ==
  ASSUME Cmp!IInv, NEW t \in Threads, Cmp!CheckClaim(t) PROVE Cmp!IInv'
<1>1. PICK i, w : i = linking[t] /\ w = [i EXCEPT !.at = "saveClaim"]
  OBVIOUS
<1>2. w = [at |-> "saveClaim", id |-> i.id, row |-> i.row, claim |-> i.claim, listed |-> i.listed, linked |-> i.linked,
           had |-> i.had, rest |-> i.rest, todo |-> i.todo, before |-> i.before, found |-> i.found,
           texts |-> i.texts]
  BY <1>1, CompetitorJob
<1>3. Cmp!WorkOK(w)
  BY <1>2 DEF Cmp!WorkOK
<1>4. UNCHANGED <<competitors, texts, stated, byName>>
      /\ (linking' = [linking EXCEPT ![t] = w] \/ linking' = [linking EXCEPT ![t] = Cmp!Idle])
  BY <1>1 DEF Cmp!CheckClaim, Cmp!Become, Cmp!Registry, Cmp!Links, Cmp!Wording
<1> QED BY <1>3, <1>4, CompetitorIdle, CompetitorQuietStep

LEMMA CompetitorNextIInv == Cmp!IInv /\ [Cmp!Next]_(Cmp!vars) => Cmp!IInv'
<1> SUFFICES ASSUME Cmp!IInv, [Cmp!Next]_(Cmp!vars) PROVE Cmp!IInv'
  OBVIOUS
<1>1. CASE UNCHANGED Cmp!vars
  BY <1>1 DEF Cmp!vars, Cmp!IInv, Cmp!Ids, Cmp!WorkOK, Cmp!StillNamed, Cmp!WasStated
<1>2. CASE Cmp!Next
  BY <1>2, CompetitorCreateStep, CompetitorReadStep, CompetitorSaveStep, CompetitorDeleteStep, CompetitorEndStep,
     CompetitorCheckStep, CompetitorClaimStep, CompetitorListStep, CompetitorListFactsStep, CompetitorNextFactStep,
     CompetitorReadFactStep, CompetitorSaveFactStep, CompetitorAutoLinkStep, CompetitorProductStep,
     CompetitorCheckClaimStep DEF Cmp!Next
<1> QED BY <1>1, <1>2

-----------------------------------------------------------------------------
(* A set of natural numbers has a least one, and a bounded one a greatest. *)
LEMMA Least ==
  ASSUME NEW S, S \subseteq Nat, S # {}
  PROVE  \E i \in S : \A j \in S : i <= j
<1>1. PICK less : less = {pair \in Nat \X Nat : pair[1] < pair[2]}
  OBVIOUS
<1>2. IsWellFoundedOn(less, Nat)
  <2>1. less = OpToRel(<, Nat)
    BY <1>1 DEF OpToRel
  <2> QED BY <2>1, NatLessThanWellFounded
<1>3. PICK i \in S : \A j \in S : <<j, i>> \notin less
  BY <1>2, WFMin
<1>4. ASSUME NEW j \in S PROVE i <= j
  <2>1. i \in Nat /\ j \in Nat
    OBVIOUS
  <2>2. j < i => <<j, i>> \in less
    BY <1>1, <2>1
  <2> QED BY <1>3, <2>1, <2>2
<1> QED BY <1>4

LEMMA Greatest ==
  ASSUME NEW n \in Nat, NEW S, S \subseteq 1 .. n, S # {}
  PROVE  \E i \in S : \A j \in S : j <= i
<1>1. PICK T : T = {n - i : i \in S}
  OBVIOUS
<1>2. T \subseteq Nat /\ T # {}
  <2>1. \A i \in S : n - i \in Nat
    OBVIOUS
  <2> QED BY <1>1, <2>1
<1>3. PICK m \in T : \A k \in T : m <= k
  BY <1>2, Least
<1>4. PICK i \in S : m = n - i
  BY <1>1
<1>5. ASSUME NEW j \in S PROVE j <= i
  <2>1. m <= n - j
    BY <1>1, <1>3
  <2>2. i \in 1 .. n /\ j \in 1 .. n
    OBVIOUS
  <2> QED BY <1>4, <2>1, <2>2
<1> QED BY <1>5

-----------------------------------------------------------------------------
(* What stands between white space.                                        *)
Between(s, i, j) ==
  /\ i \in 1 .. Len(s) /\ j \in i .. Len(s)
  /\ s[i] # "space" /\ s[j] # "space"
  /\ \A k \in 1 .. i - 1 : s[k] = "space"
  /\ \A k \in j + 1 .. Len(s) : s[k] = "space"

LEMMA StripBetween ==
  ASSUME NEW s \in Seq(Age!Marks), NEW i, NEW j, Between(s, i, j)
  PROVE  ~Age!Blank(s) /\ Age!Strip(s) = SubSeq(s, i, j)
<1> DEFINE solid == {k \in 1 .. Len(s) : s[k] # "space"}
<1>1. i \in solid /\ j \in solid /\ \A k \in solid : i <= k /\ k <= j
  BY DEF Between
<1>2. \A k \in solid : (\A m \in solid : k <= m) => k = i
  BY <1>1
<1>3. \A k \in solid : (\A m \in solid : m <= k) => k = j
  BY <1>1
<1>4. (CHOOSE k \in solid : \A m \in solid : k <= m) = i
  BY <1>1, <1>2
<1>5. (CHOOSE k \in solid : \A m \in solid : m <= k) = j
  BY <1>1, <1>3
<1>6. ~Age!Blank(s)
  BY <1>1 DEF Age!Blank
<1> QED BY <1>4, <1>5, <1>6 DEF Age!Strip

LEMMA HasEnds ==
  ASSUME NEW s \in Seq(Age!Marks), ~Age!Blank(s)
  PROVE  \E i, j \in 1 .. Len(s) : Between(s, i, j)
<1> PICK solid : solid = {k \in 1 .. Len(s) : s[k] # "space"}
  OBVIOUS
<1>1. Len(s) \in Nat /\ solid \subseteq 1 .. Len(s) /\ solid \subseteq Nat /\ solid # {}
  BY DEF Age!Blank
<1>2. PICK i \in solid : \A k \in solid : i <= k
  BY <1>1, Least
<1>3. PICK j \in solid : \A k \in solid : k <= j
  BY <1>1, Greatest
<1>4. i \in 1 .. Len(s) /\ j \in 1 .. Len(s) /\ s[i] # "space" /\ s[j] # "space" /\ i <= j
  BY <1>2
<1>5. \A k \in 1 .. i - 1 : s[k] = "space"
  BY <1>1, <1>2, <1>4
<1>6. \A k \in j + 1 .. Len(s) : s[k] = "space"
  BY <1>1, <1>3, <1>4
<1>7. Between(s, i, j)
  BY <1>1, <1>4, <1>5, <1>6 DEF Between
<1> QED BY <1>4, <1>7

LEMMA StripType == ASSUME NEW s \in Seq(Age!Marks) PROVE Age!Strip(s) \in Seq(Age!Marks)
<1>1. CASE Age!Blank(s)
  BY <1>1 DEF Age!Strip
<1>2. CASE ~Age!Blank(s)
  <2>1. PICK i, j \in 1 .. Len(s) : Between(s, i, j)
    BY <1>2, HasEnds
  <2>2. Age!Strip(s) = SubSeq(s, i, j)
    BY <2>1, StripBetween
  <2> QED BY <2>1, <2>2 DEF Between
<1> QED BY <1>1, <1>2

(* Blank texts before and after change nothing.                            *)
LEMMA StripAppended ==
  ASSUME NEW s \in Seq(Age!Marks), NEW u \in Seq(Age!Marks), Age!Blank(s)
  PROVE  Age!Strip(s \o u) = Age!Strip(u)
<1> PICK v : v = s \o u
  OBVIOUS
<1>1. /\ v \in Seq(Age!Marks) /\ Len(v) = Len(s) + Len(u) /\ Len(s) \in Nat /\ Len(u) \in Nat
      /\ \A k \in 1 .. Len(s) : v[k] = s[k]
      /\ \A k \in 1 .. Len(u) : v[Len(s) + k] = u[k]
  OBVIOUS
<1>2. CASE Age!Blank(u)
  <2>1. \A k \in 1 .. Len(v) : v[k] = "space"
    <3> SUFFICES ASSUME NEW k \in 1 .. Len(v) PROVE v[k] = "space"
      OBVIOUS
    <3>1. CASE k <= Len(s)
      BY <1>1, <3>1 DEF Age!Blank
    <3>2. CASE k > Len(s)
      <4>1. k - Len(s) \in 1 .. Len(u) /\ k = Len(s) + (k - Len(s))
        BY <1>1, <3>2
      <4> QED BY <1>1, <1>2, <4>1 DEF Age!Blank
    <3> QED BY <1>1, <3>1, <3>2
  <2> QED BY <1>2, <2>1 DEF Age!Strip, Age!Blank
<1>3. CASE ~Age!Blank(u)
  <2>1. PICK i, j \in 1 .. Len(u) : Between(u, i, j)
    BY <1>3, HasEnds
  <2>2. PICK a, b : a = Len(s) + i /\ b = Len(s) + j
    OBVIOUS
  <2>3. Between(v, a, b)
    <3>1. a \in 1 .. Len(v) /\ b \in a .. Len(v) /\ v[a] # "space" /\ v[b] # "space"
      BY <1>1, <2>1, <2>2 DEF Between
    <3>2. ASSUME NEW k \in 1 .. a - 1 PROVE v[k] = "space"
      <4>1. CASE k <= Len(s)
        BY <1>1, <4>1 DEF Age!Blank
      <4>2. CASE k > Len(s)
        <5>1. k - Len(s) \in 1 .. i - 1 /\ k - Len(s) \in 1 .. Len(u) /\ k = Len(s) + (k - Len(s))
          BY <1>1, <2>1, <2>2, <4>2
        <5> QED BY <1>1, <2>1, <5>1 DEF Between
      <4> QED BY <1>1, <2>2, <4>1, <4>2
    <3>3. ASSUME NEW k \in b + 1 .. Len(v) PROVE v[k] = "space"
      <4>1. k - Len(s) \in j + 1 .. Len(u) /\ k - Len(s) \in 1 .. Len(u) /\ k = Len(s) + (k - Len(s))
        BY <1>1, <2>1, <2>2
      <4> QED BY <1>1, <2>1, <4>1 DEF Between
    <3> QED BY <3>1, <3>2, <3>3 DEF Between
  <2>4. Age!Strip(u) = SubSeq(u, i, j) /\ Age!Strip(v) = SubSeq(v, a, b)
    BY <1>1, <2>1, <2>3, StripBetween
  <2>5. SubSeq(v, a, b) = SubSeq(u, i, j)
    <3>1. SubSeq(u, i, j) = [k \in 1 .. j - i + 1 |-> u[k + i - 1]]
      BY <2>1 DEF Between
    <3>2. SubSeq(v, a, b) = [k \in 1 .. b - a + 1 |-> v[k + a - 1]]
      BY <1>1, <2>3 DEF Between
    <3>3. b - a + 1 = j - i + 1
      BY <1>1, <2>1, <2>2
    <3>4. ASSUME NEW k \in 1 .. j - i + 1 PROVE v[k + a - 1] = u[k + i - 1]
      <4>1. k + i - 1 \in 1 .. Len(u) /\ k + a - 1 = Len(s) + (k + i - 1)
        BY <1>1, <2>1, <2>2 DEF Between
      <4> QED BY <1>1, <4>1
    <3> QED BY <3>1, <3>2, <3>3, <3>4
  <2> QED BY <2>4, <2>5
<1> QED BY <1>2, <1>3

-----------------------------------------------------------------------------
(* Where the answer stands in a text.                                      *)
LEMMA ColonFirst ==
  ASSUME NEW s \in Seq(Age!Marks), Age!HasAnswer(s)
  PROVE  Age!Colon(s) \in Age!AnswerMarks(s) /\ \A i \in Age!AnswerMarks(s) : Age!Colon(s) <= i
<1> PICK S : S = Age!AnswerMarks(s)
  OBVIOUS
<1>1. S \subseteq Nat /\ S # {}
  BY DEF Age!AnswerMarks, Age!HasAnswer
<1>2. \E i \in S : \A j \in S : i <= j
  BY <1>1, Least
<1> QED BY <1>2 DEF Age!Colon

LEMMA ColonIs ==
  ASSUME NEW s \in Seq(Age!Marks), NEW c \in Age!AnswerMarks(s), \A i \in Age!AnswerMarks(s) : c <= i
  PROVE  Age!HasAnswer(s) /\ Age!Colon(s) = c
<1>1. Age!HasAnswer(s)
  BY DEF Age!HasAnswer
<1>2. c \in Nat /\ Age!Colon(s) \in Nat
  BY <1>1, ColonFirst DEF Age!AnswerMarks
<1> QED BY <1>1, <1>2, ColonFirst

LEMMA StartIs ==
  ASSUME NEW s \in Seq(Age!Marks), Age!HasAnswer(s)
  PROVE  /\ Age!AnswerStart(s) \in Age!Colon(s) + 1 .. Len(s)
         /\ \A k \in Age!Colon(s) + 1 .. Age!AnswerStart(s) - 1 : s[k] = "space"
         /\ s[Age!AnswerStart(s)] # "space" \/ Age!AnswerStart(s) = Len(s)
<1> PICK c : c = Age!Colon(s)
  OBVIOUS
<1>1. c \in 2 .. Len(s) - 1
  BY ColonFirst DEF Age!AnswerMarks
<1> PICK S : S = {k \in c + 1 .. Len(s) : s[k] # "space" \/ k = Len(s)}
  OBVIOUS
<1>2. S \subseteq Nat /\ S # {}
  <2>1. Len(s) \in S
    BY <1>1
  <2> QED BY <1>1, <2>1
<1>3. PICK i \in S : \A k \in S : i <= k
  BY <1>2, Least
<1>4. i \in c + 1 .. Len(s) /\ (s[i] # "space" \/ i = Len(s))
  OBVIOUS
<1>5. \A k \in c + 1 .. i - 1 : s[k] = "space"
  <2> SUFFICES ASSUME NEW k \in c + 1 .. i - 1, s[k] # "space" PROVE FALSE
    OBVIOUS
  <2>1. k \in S /\ k < i
    BY <1>1, <1>4
  <2> QED BY <1>1, <1>3, <1>4, <2>1
<1>6. \E k \in c + 1 .. Len(s) : /\ \A m \in c + 1 .. k - 1 : s[m] = "space"
                                /\ (s[k] # "space" \/ k = Len(s))
  BY <1>4, <1>5
<1> QED BY <1>6 DEF Age!AnswerStart

(* The first place where an answer starts stays it when more is written.   *)
LEMMA ColonStays ==
  ASSUME NEW s \in Seq(Age!Marks), NEW u \in Seq(Age!Marks), Age!HasAnswer(s)
  PROVE  Age!HasAnswer(s \o u) /\ Age!Colon(s \o u) = Age!Colon(s)
<1> PICK c, v : c = Age!Colon(s) /\ v = s \o u
  OBVIOUS
<1>1. /\ v \in Seq(Age!Marks) /\ Len(v) = Len(s) + Len(u) /\ Len(s) \in Nat /\ Len(u) \in Nat
      /\ \A k \in 1 .. Len(s) : v[k] = s[k]
  OBVIOUS
<1>2. c \in 2 .. Len(s) - 1 /\ s[c - 1] = "Ans" /\ s[c] = "wer:" /\ \A i \in Age!AnswerMarks(s) : c <= i
  BY ColonFirst DEF Age!AnswerMarks
<1>3. c \in Age!AnswerMarks(v)
  BY <1>1, <1>2 DEF Age!AnswerMarks
<1>4. ASSUME NEW i \in Age!AnswerMarks(v) PROVE c <= i
  <2>1. i \in 2 .. Len(v) - 1 /\ v[i - 1] = "Ans" /\ v[i] = "wer:"
    BY DEF Age!AnswerMarks
  <2>2. CASE i < Len(s)
    <3>1. i \in Age!AnswerMarks(s)
      BY <1>1, <2>1, <2>2 DEF Age!AnswerMarks
    <3> QED BY <1>2, <3>1
  <2>3. CASE i >= Len(s)
    BY <1>1, <1>2, <2>1, <2>3
  <2> QED BY <1>1, <2>1, <2>2, <2>3
<1> QED BY <1>1, <1>3, <1>4, ColonIs

(* What is forwarded with the first token that reaches the answer, and     *)
(* with a later one.                                                       *)
LEMMA FirstDelta ==
  ASSUME NEW s \in Seq(Age!Marks), NEW v \in Seq(Age!Marks), Age!Blank(s), Age!HasAnswer(v)
  PROVE  Age!EndAlike(s \o SubSeq(v, Age!AnswerStart(v), Len(v)), v, Age!Colon(v))
<1>1. PICK c, i : c = Age!Colon(v) /\ i = Age!AnswerStart(v)
  OBVIOUS
<1>2. PICK u : u = SubSeq(v, i, Len(v))
  OBVIOUS
<1>3. PICK w : w = s \o u
  OBVIOUS
<1>4. PICK ls, lu, lv, lw : ls = Len(s) /\ lu = Len(u) /\ lv = Len(v) /\ lw = Len(w)
  OBVIOUS
<1>5. c \in 2 .. lv - 1 /\ lv \in Nat /\ ls \in Nat
  BY <1>1, <1>4, ColonFirst DEF Age!AnswerMarks
<1>6. i \in c + 1 .. lv /\ \A k \in c + 1 .. i - 1 : v[k] = "space"
  BY <1>1, <1>4, StartIs
<1>7. u \in Seq(Age!Marks) /\ lu = lv - i + 1 /\ \A k \in 1 .. lu : u[k] = v[i + k - 1]
  BY <1>2, <1>4, <1>5, <1>6
<1>8. /\ lw = ls + lu
      /\ \A k \in 1 .. ls : w[k] = "space"
      /\ \A k \in 1 .. lu : w[ls + k] = u[k]
  <2>1. w = s \o u /\ s \in Seq(Age!Marks) /\ u \in Seq(Age!Marks) /\ ls = Len(s) /\ lu = Len(u) /\ lw = Len(w)
    BY <1>3, <1>4, <1>7
  <2>2. \A k \in 1 .. ls : s[k] = "space"
    BY <2>1 DEF Age!Blank
  <2>3. lw = ls + lu /\ (\A k \in 1 .. ls : w[k] = s[k]) /\ \A k \in 1 .. lu : w[ls + k] = u[k]
    BY <2>1
  <2> QED BY <2>2, <2>3
<1>9. lu \in Nat /\ lw \in Nat /\ c \in Nat /\ i \in Nat /\ c + 1 <= i /\ i <= lv
  <2>1. c \in Nat
    BY <1>5
  <2>2. i \in Nat /\ c + 1 <= i /\ i <= lv
    BY <1>5, <1>6, <2>1
  <2>3. lu \in Nat
    BY <1>5, <1>7, <2>2
  <2> QED BY <1>5, <1>8, <2>1, <2>2, <2>3
<1>10. ASSUME NEW k \in Nat, k < lw
       PROVE  w[lw - k] = IF k < lv - c THEN v[lv - k] ELSE "space"
  <2>1. CASE k < lu
    <3>1. lu - k \in 1 .. lu /\ lw - k = ls + (lu - k) /\ i + (lu - k) - 1 = lv - k /\ k < lv - c
      BY <1>5, <1>7, <1>8, <1>9, <2>1
    <3>2. PICK m : m = lu - k
      OBVIOUS
    <3>3. w[ls + m] = u[m] /\ u[m] = v[i + m - 1]
      BY <1>7, <1>8, <3>1, <3>2
    <3> QED BY <3>1, <3>2, <3>3
  <2>2. CASE k >= lu
    <3>1. lw - k \in 1 .. ls /\ (k < lv - c => lv - k \in c + 1 .. i - 1)
      BY <1>5, <1>7, <1>8, <1>9, <1>10, <2>2
    <3> QED BY <1>6, <1>8, <3>1
  <2> QED BY <1>9, <2>1, <2>2
<1>11. ASSUME NEW k \in Nat, lw <= k, k < lv - c PROVE v[lv - k] = "space"
  <2>1. lv - k \in c + 1 .. i - 1
    BY <1>5, <1>7, <1>8, <1>9, <1>11
  <2> QED BY <1>6, <2>1
<1>12. /\ \A k \in 0 .. lw - 1 : k \in Nat /\ k < lw
       /\ \A k \in lw .. lv - c - 1 : k \in Nat /\ lw <= k /\ k < lv - c
  BY <1>5, <1>9
<1>13. /\ \A k \in 0 .. lw - 1 : w[lw - k] = IF k < lv - c THEN v[lv - k] ELSE "space"
       /\ \A k \in lw .. lv - c - 1 : v[lv - k] = "space"
  BY <1>10, <1>11, <1>12
<1>14. Age!EndAlike(w, v, c)
  BY <1>4, <1>13 DEF Age!EndAlike
<1> QED BY <1>1, <1>2, <1>3, <1>14

LEMMA NextDelta ==
  ASSUME NEW s \in Seq(Age!Marks), NEW u \in Seq(Age!Marks), NEW x \in Seq(Age!Marks),
         NEW c \in Nat, c <= Len(u), Age!EndAlike(s, u, c)
  PROVE  Age!EndAlike(s \o x, u \o x, c)
<1>1. PICK v, w : v = s \o x /\ w = u \o x
  OBVIOUS
<1>2. PICK ls, lu, lv, lw, lx : ls = Len(s) /\ lu = Len(u) /\ lv = Len(v) /\ lw = Len(w) /\ lx = Len(x)
  OBVIOUS
<1>3. /\ ls \in Nat /\ lu \in Nat /\ lx \in Nat
      /\ lv = ls + lx /\ lw = lu + lx
      /\ \A k \in 1 .. ls : v[k] = s[k]
      /\ \A k \in 1 .. lx : v[ls + k] = x[k]
      /\ \A k \in 1 .. lu : w[k] = u[k]
      /\ \A k \in 1 .. lx : w[lu + k] = x[k]
  BY <1>1, <1>2
<1>4. /\ \A i \in 0 .. ls - 1 : s[ls - i] = IF i < lu - c THEN u[lu - i] ELSE "space"
      /\ \A i \in ls .. lu - c - 1 : u[lu - i] = "space"
  BY <1>2 DEF Age!EndAlike
<1>5. lv \in Nat /\ lw \in Nat /\ c <= lu
  BY <1>2, <1>3
<1>6. ASSUME NEW k \in Nat, k < lv
      PROVE  v[lv - k] = IF k < lw - c THEN w[lw - k] ELSE "space"
  <2>1. CASE k < lx
    <3>1. lx - k \in 1 .. lx /\ lv - k = ls + (lx - k) /\ lw - k = lu + (lx - k) /\ k < lw - c
      BY <1>3, <1>5, <2>1
    <3>2. PICK m : m = lx - k
      OBVIOUS
    <3>3. v[ls + m] = x[m] /\ w[lu + m] = x[m]
      BY <1>3, <3>1, <3>2
    <3> QED BY <3>1, <3>2, <3>3
  <2>2. CASE k >= lx
    <3>1. PICK i : i = k - lx
      OBVIOUS
    <3>2. i \in 0 .. ls - 1 /\ lv - k = ls - i /\ lw - k = lu - i /\ ls - i \in 1 .. ls
      BY <1>3, <1>5, <1>6, <2>2, <3>1
    <3>3. ((k < lw - c) <=> i < lu - c) /\ (i < lu - c => lu - i \in 1 .. lu)
      BY <1>3, <1>5, <2>2, <3>1
    <3>4. v[ls - i] = s[ls - i] /\ (i < lu - c => w[lu - i] = u[lu - i])
      BY <1>3, <3>2, <3>3
    <3>5. s[ls - i] = IF i < lu - c THEN u[lu - i] ELSE "space"
      BY <1>4, <3>2
    <3> QED BY <3>2, <3>3, <3>4, <3>5
  <2> QED BY <1>3, <2>1, <2>2
<1>7. ASSUME NEW k \in Nat, lv <= k, k < lw - c PROVE w[lw - k] = "space"
  <2>1. PICK i : i = k - lx
    OBVIOUS
  <2>2. i \in ls .. lu - c - 1 /\ lw - k = lu - i /\ lu - i \in 1 .. lu
    BY <1>3, <1>5, <1>7, <2>1
  <2>3. w[lu - i] = u[lu - i] /\ u[lu - i] = "space"
    BY <1>3, <1>4, <2>2
  <2> QED BY <2>2, <2>3
<1>8. /\ \A k \in 0 .. lv - 1 : k \in Nat /\ k < lv
      /\ \A k \in lv .. lw - c - 1 : k \in Nat /\ lv <= k /\ k < lw - c
  BY <1>5
<1>9. /\ \A k \in 0 .. lv - 1 : v[lv - k] = IF k < lw - c THEN w[lw - k] ELSE "space"
      /\ \A k \in lv .. lw - c - 1 : w[lw - k] = "space"
  BY <1>6, <1>7, <1>8
<1>10. Age!EndAlike(v, w, c)
  BY <1>2, <1>9 DEF Age!EndAlike
<1> QED BY <1>1, <1>10

(* The same read from the front: the place k of what was sent is the place *)
(* k + n of the text, where n may be negative.                             *)
LEMMA EndAlikeAt ==
  ASSUME NEW d \in Seq(Age!Marks), NEW s \in Seq(Age!Marks), NEW c \in Nat, Age!EndAlike(d, s, c),
         NEW ld, ld = Len(d), NEW ls, ls = Len(s), NEW n, n = ls - ld
  PROVE  /\ \A k \in 1 .. ld : d[k] = IF c < k + n THEN s[k + n] ELSE "space"
         /\ \A k \in c + 1 .. n : s[k] = "space"
<1>1. ld \in Nat /\ ls \in Nat
  OBVIOUS
<1>2. /\ \A i \in 0 .. ld - 1 : d[ld - i] = IF i < ls - c THEN s[ls - i] ELSE "space"
      /\ \A i \in ld .. ls - c - 1 : s[ls - i] = "space"
  BY DEF Age!EndAlike
<1>3. ASSUME NEW k \in 1 .. ld PROVE d[k] = IF c < k + n THEN s[k + n] ELSE "space"
  <2>1. PICK i : i = ld - k
    OBVIOUS
  <2>2. i \in 0 .. ld - 1 /\ ld - i = k /\ ls - i = k + n /\ (c < k + n <=> i < ls - c)
    BY <1>1, <2>1
  <2> QED BY <1>2, <2>2
<1>4. ASSUME NEW k \in c + 1 .. n PROVE s[k] = "space"
  <2>1. PICK i : i = ls - k
    OBVIOUS
  <2>2. i \in ld .. ls - c - 1 /\ ls - i = k
    BY <1>1, <2>1
  <2> QED BY <1>2, <2>2
<1> QED BY <1>3, <1>4

(* A text in which an answer was found while it was written is parsed to   *)
(* that answer, unless only white space followed.                          *)
LEMMA SentIsParsed ==
  ASSUME NEW s \in Seq(Age!Marks), NEW d \in Seq(Age!Marks), Age!HasAnswer(s), Age!EndAlike(d, s, Age!Colon(s)),
         ~Age!Blank(d)
  PROVE  Age!Parsed(s) # Age!Unanswered /\ Age!Strip(d) = Age!Strip(Age!Parsed(s))
<1>1. PICK c : c = Age!Colon(s)
  OBVIOUS
<1>2. PICK ls, ld : ls = Len(s) /\ ld = Len(d)
  OBVIOUS
<1>3. ls \in Nat /\ ld \in Nat
  BY <1>2
<1>4. /\ c \in 2 .. ls - 1 /\ s[c - 1] = "Ans" /\ s[c] = "wer:"
      /\ \A i \in Age!AnswerMarks(s) : c <= i
  BY <1>1, <1>2, ColonFirst DEF Age!AnswerMarks
<1>5. PICK n : n = ls - ld
  OBVIOUS
<1>6. /\ \A k \in 1 .. ld : d[k] = IF c < k + n THEN s[k + n] ELSE "space"
      /\ \A k \in c + 1 .. n : s[k] = "space"
  <2>1. c \in Nat
    BY <1>3, <1>4
  <2>2. Age!EndAlike(d, s, c)
    BY <1>1
  <2> QED BY <1>2, <1>5, <2>1, <2>2, EndAlikeAt
<1>7. ~Age!Blank(s)
  BY <1>2, <1>4 DEF Age!Blank
<1>8. PICK f, l \in 1 .. Len(s) : Between(s, f, l)
  BY <1>7, HasEnds
<1>9. /\ f \in 1 .. ls /\ l \in f .. ls /\ s[f] # "space" /\ s[l] # "space"
      /\ \A k \in 1 .. f - 1 : s[k] = "space"
      /\ \A k \in l + 1 .. ls : s[k] = "space"
  BY <1>2, <1>8 DEF Between
<1>10. f <= c - 1 /\ c < l
  <2>1. f <= c - 1
    <3>1. c - 1 < f => c - 1 \in 1 .. f - 1
      BY <1>3, <1>4, <1>9
    <3> QED BY <1>3, <1>4, <1>9, <3>1
  <2>2. SUFFICES ASSUME l <= c PROVE FALSE
    BY <1>3, <1>4, <1>9, <2>1
  <2>3. \A k \in c + 1 .. ls : s[k] = "space"
    BY <1>3, <1>4, <1>9, <2>2
  <2>4. ASSUME NEW k \in 1 .. ld PROVE d[k] = "space"
    <3>1. c < k + n => k + n \in c + 1 .. ls
      BY <1>3, <1>4, <1>5
    <3> QED BY <1>6, <2>3, <3>1
  <2> QED BY <1>2, <2>4 DEF Age!Blank
<1>11. PICK t, m : t = Age!Strip(s) /\ m = c - f + 1
  OBVIOUS
<1>12. t = SubSeq(s, f, l)
  BY <1>8, <1>11, StripBetween
<1>13. t \in Seq(Age!Marks) /\ Len(t) = l - f + 1 /\ \A k \in 1 .. l - f + 1 : t[k] = s[f + k - 1]
  BY <1>2, <1>3, <1>9, <1>12
<1>14. Age!HasAnswer(t) /\ Age!Colon(t) = m
  <2>1. m \in Age!AnswerMarks(t)
    <3>1. m \in 2 .. (l - f + 1) - 1 /\ m - 1 \in 1 .. l - f + 1 /\ m \in 1 .. l - f + 1
          /\ f + (m - 1) - 1 = c - 1 /\ f + m - 1 = c
      BY <1>3, <1>4, <1>9, <1>10, <1>11
    <3>2. t[m - 1] = s[c - 1] /\ t[m] = s[c]
      BY <1>13, <3>1
    <3> QED BY <1>4, <1>13, <3>1, <3>2 DEF Age!AnswerMarks
  <2>2. ASSUME NEW i \in Age!AnswerMarks(t) PROVE m <= i
    <3>1. i \in 2 .. (l - f + 1) - 1 /\ t[i - 1] = "Ans" /\ t[i] = "wer:"
      BY <1>13 DEF Age!AnswerMarks
    <3>2. PICK g : g = f + i - 1
      OBVIOUS
    <3>3. g \in 2 .. ls - 1 /\ f + (i - 1) - 1 = g - 1 /\ i - 1 \in 1 .. l - f + 1 /\ i \in 1 .. l - f + 1
      BY <1>3, <1>9, <3>1, <3>2
    <3>4. s[g - 1] = "Ans" /\ s[g] = "wer:"
      BY <1>13, <3>1, <3>2, <3>3
    <3>5. c <= g
      BY <1>2, <1>4, <3>3, <3>4 DEF Age!AnswerMarks
    <3> QED BY <1>3, <1>4, <1>9, <1>11, <3>1, <3>2, <3>5
  <2> QED BY <1>13, <2>1, <2>2, ColonIs
<1>15. PICK a, g : a = Age!AnswerStart(t) /\ g = f + a - 1
  OBVIOUS
<1>16. /\ a \in m + 1 .. l - f + 1
       /\ \A k \in m + 1 .. a - 1 : t[k] = "space"
       /\ t[a] # "space" \/ a = l - f + 1
  BY <1>13, <1>14, <1>15, StartIs
<1>17. g \in c + 1 .. l /\ s[g] # "space" /\ \A k \in c + 1 .. g - 1 : s[k] = "space"
  <2>1. g \in c + 1 .. l /\ a \in 1 .. l - f + 1 /\ (a = l - f + 1 => g = l) /\ f + a - 1 = g
    BY <1>3, <1>4, <1>9, <1>11, <1>15, <1>16
  <2>2. s[g] # "space"
    BY <1>9, <1>13, <1>16, <2>1
  <2>3. ASSUME NEW k \in c + 1 .. g - 1 PROVE s[k] = "space"
    <3>1. PICK h : h = k - f + 1
      OBVIOUS
    <3>2. h \in m + 1 .. a - 1 /\ h \in 1 .. l - f + 1 /\ f + h - 1 = k
      <4>1. /\ f \in Nat /\ c \in Nat /\ l \in Nat /\ f <= c - 1
        BY <1>3, <1>4, <1>9, <1>10
      <4>2. g \in Nat /\ g <= l /\ a = g - f + 1 /\ m = c - f + 1
        BY <1>11, <2>1, <4>1
      <4> QED BY <3>1, <4>1, <4>2
    <3> QED BY <1>13, <1>16, <3>2
  <2> QED BY <2>1, <2>2, <2>3
<1>18. PICK r : r = SubSeq(t, a, Len(t))
  OBVIOUS
<1>19. r \in Seq(Age!Marks) /\ Len(r) = l - g + 1 /\ \A k \in 1 .. l - g + 1 : r[k] = s[g + k - 1]
  <2>1. r \in Seq(Age!Marks) /\ Len(r) = (l - f + 1) - a + 1 /\ \A k \in 1 .. (l - f + 1) - a + 1 : r[k] = t[a + k - 1]
    <3>1. PICK z : z = l - f + 1
      OBVIOUS
    <3>2. z \in Nat /\ a \in 1 .. z
      BY <1>3, <1>4, <1>9, <1>10, <1>11, <1>16, <3>1
    <3>3. r = SubSeq(t, a, z) /\ Len(t) = z
      BY <1>13, <1>18, <3>1
    <3>4. t \in Seq(Age!Marks)
      BY <1>13
    <3>5. r \in Seq(Age!Marks) /\ Len(r) = z - a + 1
      BY <3>2, <3>3, <3>4
    <3>6. \A k \in 1 .. z - a + 1 : r[k] = t[a + k - 1]
      BY <3>2, <3>3, <3>4
    <3> QED BY <3>1, <3>5, <3>6
  <2>2. (l - f + 1) - a + 1 = l - g + 1
    BY <1>3, <1>4, <1>9, <1>11, <1>15, <1>16
  <2>3. ASSUME NEW k \in 1 .. l - g + 1 PROVE r[k] = s[g + k - 1]
    <3>1. PICK h : h = a + k - 1
      OBVIOUS
    <3>2. a \in Nat /\ f \in Nat /\ l \in Nat /\ 1 <= a /\ f <= l /\ g = f + a - 1
      <4>1. f \in Nat /\ l \in Nat /\ f <= l
        BY <1>3, <1>9
      <4>2. m \in Nat
        BY <1>3, <1>4, <1>10, <1>11, <4>1
      <4>3. a \in Nat /\ 1 <= a
        BY <1>16, <4>1, <4>2
      <4> QED BY <1>15, <4>1, <4>3
    <3>3. k \in Nat /\ 1 <= k /\ k <= l - g + 1
      <4>1. g \in Int
        BY <3>2
      <4> QED BY <3>2, <4>1
    <3>4. f + h - 1 = g + k - 1
      BY <3>1, <3>2, <3>3
    <3>5. h \in 1 .. l - f + 1
      BY <3>1, <3>2, <3>3
    <3> QED BY <1>13, <2>1, <2>2, <3>1, <3>4, <3>5
  <2> QED BY <2>1, <2>2, <2>3
<1>20. Age!Strip(r) = r
  <2>1. PICK z : z = l - g + 1
    OBVIOUS
  <2>2. z \in Nat /\ 1 <= z /\ g + z - 1 = l
    BY <1>3, <1>4, <1>9, <1>17, <2>1
  <2>3. r[1] = s[g] /\ r[z] = s[l]
    <3>1. 1 \in 1 .. z /\ z \in 1 .. z /\ g + 1 - 1 = g
      BY <1>3, <1>4, <1>9, <1>17, <2>2
    <3> QED BY <1>19, <2>1, <2>2, <3>1
  <2>4. Between(r, 1, z)
    BY <1>9, <1>17, <1>19, <2>1, <2>2, <2>3 DEF Between
  <2>5. Age!Strip(r) = SubSeq(r, 1, z)
    BY <1>19, <2>4, StripBetween
  <2>6. z = Len(r)
    BY <1>19, <2>1
  <2> QED BY <1>19, <2>5, <2>6
<1>21. Age!Parsed(s) = r
  BY <1>11, <1>14, <1>15, <1>18, <1>20 DEF Age!Parsed
<1>22. r # Age!Unanswered
  <2>1. Age!Unanswered \notin Seq(Age!Marks)
    BY DEF Age!Unanswered, Age!Marks
  <2> QED BY <1>19, <2>1
<1>23. PICK x, y : x = g - n /\ y = l - n
  OBVIOUS
<1>24. x \in 1 .. ld /\ y \in x .. ld /\ x + n = g /\ y + n = l
  <2>1. n < g
    <3>1. g <= n => g \in c + 1 .. n
      BY <1>3, <1>4, <1>5, <1>9, <1>17
    <3> QED BY <1>3, <1>4, <1>5, <1>6, <1>9, <1>17, <3>1
  <2> QED BY <1>3, <1>4, <1>5, <1>9, <1>17, <1>23, <2>1
<1>25. \A k \in x .. y : k \in 1 .. ld /\ d[k] = s[k + n]
  <2>1. ASSUME NEW k \in x .. y PROVE k \in 1 .. ld /\ c < k + n
    BY <1>3, <1>4, <1>5, <1>9, <1>17, <1>24
  <2> QED BY <1>6, <2>1
<1>26. Between(d, x, y)
  <2>1. d[x] = s[g] /\ d[y] = s[l]
    <3>1. x \in x .. y /\ y \in x .. y
      BY <1>3, <1>24
    <3> QED BY <1>24, <1>25, <3>1
  <2>2. ASSUME NEW k \in 1 .. x - 1 PROVE d[k] = "space"
    <3>1. k \in 1 .. ld /\ (c < k + n => k + n \in c + 1 .. g - 1)
      BY <1>3, <1>4, <1>5, <1>9, <1>17, <1>24
    <3> QED BY <1>6, <1>17, <3>1
  <2>3. ASSUME NEW k \in y + 1 .. ld PROVE d[k] = "space"
    <3>1. k \in 1 .. ld /\ (c < k + n => k + n \in l + 1 .. ls)
      BY <1>3, <1>4, <1>5, <1>9, <1>17, <1>24
    <3> QED BY <1>6, <1>9, <3>1
  <2> QED BY <1>2, <1>9, <1>17, <1>24, <2>1, <2>2, <2>3 DEF Between
<1>27. Age!Strip(d) = r
  <2>1. Age!Strip(d) = SubSeq(d, x, y)
    BY <1>26, StripBetween
  <2>2. PICK e : e = SubSeq(d, x, y)
    OBVIOUS
  <2>3. e \in Seq(Age!Marks) /\ Len(e) = y - x + 1 /\ \A k \in 1 .. y - x + 1 : e[k] = d[x + k - 1]
    BY <1>2, <1>3, <1>24, <2>2
  <2>4. y - x + 1 = l - g + 1
    BY <1>3, <1>4, <1>5, <1>9, <1>17, <1>23
  <2>5. ASSUME NEW k \in 1 .. l - g + 1 PROVE e[k] = r[k]
    <3>1. PICK h : h = x + k - 1
      OBVIOUS
    <3>2. h \in x .. y /\ h + n = g + k - 1
      BY <1>3, <1>4, <1>5, <1>9, <1>17, <1>24, <3>1
    <3>3. e[k] = d[h] /\ d[h] = s[h + n] /\ r[k] = s[g + k - 1]
      BY <1>19, <1>25, <2>3, <2>4, <3>1, <3>2
    <3> QED BY <3>2, <3>3
  <2>6. e = [k \in 1 .. l - g + 1 |-> e[k]] /\ r = [k \in 1 .. l - g + 1 |-> r[k]]
    BY <1>19, <2>3, <2>4
  <2> QED BY <2>1, <2>2, <2>5, <2>6
<1> QED BY <1>20, <1>21, <1>22, <1>27

LEMMA ParsedType ==
  ASSUME NEW s \in Seq(Age!Marks)
  PROVE  /\ Age!Parsed(s) = Age!Unanswered \/ Age!Parsed(s) \in Seq(Age!Marks)
         /\ s # Age!Unanswered
<1>1. PICK t : t = Age!Strip(s)
  OBVIOUS
<1>2. t \in Seq(Age!Marks)
  BY <1>1, StripType
<1>3. ASSUME Age!HasAnswer(t) PROVE Age!Strip(SubSeq(t, Age!AnswerStart(t), Len(t))) \in Seq(Age!Marks)
  <2>1. PICK c, a, z : c = Age!Colon(t) /\ a = Age!AnswerStart(t) /\ z = Len(t)
    OBVIOUS
  <2>2. c \in 2 .. z - 1 /\ z \in Nat
    BY <1>2, <1>3, <2>1, ColonFirst DEF Age!AnswerMarks
  <2>3. a \in 1 .. z
    <3>1. a \in c + 1 .. z
      BY <1>2, <1>3, <2>1, StartIs
    <3> QED BY <2>2, <3>1
  <2>4. SubSeq(t, a, z) \in Seq(Age!Marks)
    BY <1>2, <2>1, <2>2, <2>3
  <2> QED BY <2>1, <2>4, StripType
<1>4. s # Age!Unanswered
  <2>1. Age!Unanswered \notin Seq(Age!Marks)
    BY DEF Age!Unanswered, Age!Marks
  <2> QED BY <2>1
<1> QED BY <1>1, <1>2, <1>3, <1>4 DEF Age!Parsed

-----------------------------------------------------------------------------
LEMMA LoopInitIInv == Age!Init => Age!IInv
  BY LoopAssumption DEF Age!Init, Age!IInv, Age!TypeOK, Age!Blank, Age!StreamedIsAnswered

(* What a run keeps of its texts when it goes on.                          *)
LEMMA StreamTokenStep == ASSUME Age!IInv, Age!StreamToken PROVE Age!IInv'
<1>1. /\ text \in Seq(Age!Marks) /\ deltas \in Seq(Age!Marks) /\ at = "model" /\ streams = TRUE
      /\ offset = IF early THEN Len(text) ELSE 0
      /\ IF early THEN Age!HasAnswer(text) /\ Age!EndAlike(deltas, text, Age!Colon(text)) ELSE Age!Blank(deltas)
      /\ UNCHANGED <<streams, at, step, calls, answer>>
  BY DEF Age!IInv, Age!StreamToken
<1>2. PICK token \in {<<m>> : m \in Age!Marks} \cup (Age!Marks \X Age!Marks) :
         /\ Len(text \o token) <= MaxText
         /\ text' = text \o token
         /\ IF Age!HasAnswer(text \o token)
              THEN /\ deltas' = deltas \o SubSeq(text \o token,
                                   IF offset = 0 THEN Age!AnswerStart(text \o token) ELSE offset + 1, Len(text \o token))
                   /\ offset' = Len(text \o token)
                   /\ early' = TRUE
              ELSE UNCHANGED Age!stream
  BY DEF Age!StreamToken, Age!Forwarded
<1>3. token \in Seq(Age!Marks)
  <2>1. CASE token \in Age!Marks \X Age!Marks
    <3>1. PICK m, n \in Age!Marks : token = <<m, n>>
      BY <2>1
    <3> QED BY <3>1
  <2>2. CASE token \in {<<m>> : m \in Age!Marks}
    <3>1. PICK m \in Age!Marks : token = <<m>>
      BY <2>2
    <3> QED BY <3>1
  <2> QED BY <2>1, <2>2
<1>4. PICK v : v = text \o token
  OBVIOUS
<1>5. v \in Seq(Age!Marks) /\ text' = v /\ Len(v) <= MaxText /\ Len(v) \in Nat
  BY <1>1, <1>2, <1>3, <1>4
<1>6. CASE ~Age!HasAnswer(v)
  <2>1. ~early
    BY <1>1, <1>3, <1>4, <1>6, ColonStays
  <2>2. UNCHANGED <<offset, deltas, early>>
    BY <1>2, <1>4, <1>6 DEF Age!stream
  <2> QED BY <1>1, <1>5, <2>1, <2>2 DEF Age!IInv, Age!TypeOK, Age!StreamedIsAnswered, Age!Blank
<1>7. CASE Age!HasAnswer(v)
  <2>1. PICK d : d = deltas'
    OBVIOUS
  <2>2. offset' = Len(v) /\ early' = TRUE
    BY <1>2, <1>4, <1>7
  <2>3. d \in Seq(Age!Marks) /\ d # <<>> /\ Age!EndAlike(d, v, Age!Colon(v))
    <3>1. CASE ~early
      <4>1. d = deltas \o SubSeq(v, Age!AnswerStart(v), Len(v))
        BY <1>1, <1>2, <1>4, <1>7, <2>1, <3>1
      <4>2. PICK a, z : a = Age!AnswerStart(v) /\ z = Len(v)
        OBVIOUS
      <4>3. a \in 1 .. z /\ z \in Nat
        <5>1. PICK c : c = Age!Colon(v)
          OBVIOUS
        <5>2. c \in 2 .. z - 1 /\ z \in Nat
          BY <1>5, <1>7, <4>2, <5>1, ColonFirst DEF Age!AnswerMarks
        <5>3. a \in c + 1 .. z
          BY <1>5, <1>7, <4>2, <5>1, StartIs
        <5> QED BY <5>2, <5>3
      <4>4. PICK u : u = SubSeq(v, a, z)
        OBVIOUS
      <4>5. u \in Seq(Age!Marks) /\ Len(u) = z - a + 1
        BY <1>5, <4>2, <4>3, <4>4
      <4>6. d = deltas \o u
        BY <4>1, <4>2, <4>4
      <4>7. Age!EndAlike(d, v, Age!Colon(v))
        <5>1. PICK x : x = deltas
          OBVIOUS
        <5>2. x \in Seq(Age!Marks) /\ Age!Blank(x)
          BY <1>1, <3>1, <5>1
        <5>3. Age!EndAlike(x \o SubSeq(v, Age!AnswerStart(v), Len(v)), v, Age!Colon(v))
          BY <1>5, <1>7, <5>2, FirstDelta
        <5> QED BY <4>1, <5>1, <5>3
      <4>8. d \in Seq(Age!Marks) /\ Len(d) = Len(deltas) + Len(u) /\ Len(deltas) \in Nat
        <5>1. PICK x : x = deltas
          OBVIOUS
        <5>2. x \in Seq(Age!Marks) /\ u \in Seq(Age!Marks) /\ d = x \o u
          BY <1>1, <4>5, <4>6, <5>1
        <5>3. d \in Seq(Age!Marks) /\ Len(d) = Len(x) + Len(u) /\ Len(x) \in Nat
          BY <5>2
        <5> QED BY <5>1, <5>3
      <4>9. d # <<>>
        BY <4>3, <4>5, <4>8
      <4> QED BY <4>7, <4>8, <4>9
    <3>2. CASE early
      <4>1. PICK c : c = Age!Colon(text)
        OBVIOUS
      <4>2. c \in 2 .. Len(text) - 1 /\ Len(text) \in Nat
        BY <1>1, <3>2, <4>1, ColonFirst DEF Age!AnswerMarks
      <4>3. offset = Len(text) /\ offset # 0
        BY <1>1, <3>2, <4>2
      <4>4. d = deltas \o SubSeq(v, Len(text) + 1, Len(v))
        BY <1>2, <1>4, <1>7, <2>1, <4>3
      <4>5. SubSeq(v, Len(text) + 1, Len(v)) = token
        BY <1>1, <1>3, <1>4
      <4>6. d = deltas \o token
        BY <4>4, <4>5
      <4>7. Age!Colon(v) = c
        BY <1>1, <1>3, <1>4, <3>2, <4>1, ColonStays
      <4>8. c \in Nat /\ c <= Len(text)
        BY <4>2
      <4>9. Age!EndAlike(deltas, text, c)
        BY <1>1, <3>2, <4>1
      <4>10. Age!EndAlike(d, v, c)
        <5>1. PICK x, u : x = deltas /\ u = text
          OBVIOUS
        <5>2. x \in Seq(Age!Marks) /\ u \in Seq(Age!Marks) /\ c <= Len(u) /\ Age!EndAlike(x, u, c)
          BY <1>1, <4>8, <4>9, <5>1
        <5>3. Age!EndAlike(x \o token, u \o token, c)
          BY <1>3, <4>8, <5>2, NextDelta
        <5> QED BY <1>4, <4>6, <5>1, <5>3
      <4>11. d \in Seq(Age!Marks) /\ d # <<>>
        <5>1. PICK x : x = deltas
          OBVIOUS
        <5>2. x \in Seq(Age!Marks) /\ x # <<>> /\ d = x \o token
          BY <1>1, <3>2, <4>6, <5>1 DEF Age!IInv, Age!TypeOK
        <5> QED BY <1>3, <5>2
      <4> QED BY <4>7, <4>10, <4>11
    <3> QED BY <3>1, <3>2
  <2>4. Age!TypeOK'
    BY <1>1, <1>5, <2>1, <2>2, <2>3 DEF Age!IInv, Age!TypeOK
  <2>5. /\ text' = v /\ deltas' = d /\ at' = "model" /\ streams' = TRUE /\ early' = TRUE
        /\ step' \in Nat /\ calls' \in Nat /\ calls' < step' /\ offset' = Len(v) /\ offset' \in Nat
    BY <1>1, <1>5, <2>1, <2>2 DEF Age!IInv
  <2> QED BY <1>5, <1>7, <2>2, <2>3, <2>4, <2>5 DEF Age!IInv, Age!StreamedIsAnswered
<1> QED BY <1>6, <1>7

LEMMA StreamEndsStep == ASSUME Age!IInv, Age!StreamEnds \/ Age!ModelFails \/ Age!LastFails PROVE Age!IInv'
<1>1. UNCHANGED <<streams, step, text, deltas, early, calls, answer>>
  BY DEF Age!StreamEnds, Age!ModelFails, Age!LastFails, Age!stream
<1>2. \/ at = "model" /\ at' = "parse" /\ offset' = 0
      \/ at \in {"model", "last"} /\ at' = "error" /\ offset' = offset
  BY DEF Age!StreamEnds, Age!ModelFails, Age!LastFails, Age!stream
<1>3. Age!TypeOK'
  BY <1>1, <1>2 DEF Age!IInv, Age!TypeOK
<1> QED BY <1>1, <1>2, <1>3 DEF Age!IInv, Age!StreamedIsAnswered, Age!Blank

LEMMA GenerateStep == ASSUME Age!IInv, Age!Generate PROVE Age!IInv'
<1>1. PICK n \in 0 .. MaxText : text' \in [1 .. n -> Age!Marks]
  BY DEF Age!Generate
<1>2. PICK u : u = text'
  OBVIOUS
<1>3. u \in Seq(Age!Marks) /\ Len(u) <= MaxText /\ Len(u) \in Nat
  BY <1>1, <1>2, LoopAssumption
<1>4. ~early /\ at = "model" /\ at' = "parse" /\ UNCHANGED <<streams, step, offset, deltas, early, calls, answer>>
  BY DEF Age!IInv, Age!Generate, Age!stream
<1>5. Age!TypeOK'
  BY <1>2, <1>3, <1>4 DEF Age!IInv, Age!TypeOK
<1> QED BY <1>2, <1>3, <1>4, <1>5 DEF Age!IInv, Age!StreamedIsAnswered, Age!Blank

(* The end of a run: an answer, and deltas that are blank or the answer.   *)
LEMMA AnsweredStep ==
  ASSUME Age!IInv, at' = "answered", at # "error", at # "model", UNCHANGED <<streams, step, offset, early, calls>>,
         NEW d \in Seq(Age!Marks), deltas' = d, early => d # <<>>,
         NEW a \in Seq(Age!Marks), answer' = a,
         NEW u \in Seq(Age!Marks), text' = u, Len(u) <= MaxText,
         Age!Strip(d) \in {<<>>, Age!Strip(a)}
  PROVE  Age!IInv'
<1>1. a # Age!Unanswered
  BY ParsedType
<1>2. offset' = 0 /\ offset = 0 /\ Len(u) \in Nat
  BY DEF Age!IInv
<1>3. Age!TypeOK'
  BY <1>1, <1>2 DEF Age!IInv, Age!TypeOK
<1> QED BY <1>2, <1>3 DEF Age!IInv, Age!StreamedIsAnswered

LEMMA BlankReplyStep == ASSUME Age!IInv, Age!BlankReply PROVE Age!IInv'
<1>1. /\ at = "parse" /\ Age!Blank(text) /\ answer' = text /\ at' = "answered"
      /\ UNCHANGED <<streams, step, text, offset, deltas, early, calls>>
  BY DEF Age!BlankReply, Age!stream
<1>2. text \in Seq(Age!Marks) /\ deltas \in Seq(Age!Marks) /\ Len(text) <= MaxText /\ (early => deltas # <<>>)
  BY DEF Age!IInv, Age!TypeOK
<1>3. ~early
  <2>1. SUFFICES ASSUME Age!HasAnswer(text) PROVE FALSE
    BY <1>1 DEF Age!IInv
  <2>2. PICK i \in 2 .. Len(text) - 1 : text[i] = "wer:"
    BY <2>1 DEF Age!HasAnswer, Age!AnswerMarks
  <2> QED BY <1>1, <1>2, <2>2 DEF Age!Blank
<1>4. Age!Strip(deltas) = <<>>
  BY <1>1, <1>3 DEF Age!IInv, Age!Strip
<1> QED BY <1>1, <1>2, <1>4, AnsweredStep

LEMMA ExecuteToolStep == ASSUME Age!IInv, Age!ExecuteTool PROVE Age!IInv'
<1>1. /\ at = "parse" /\ calls' = calls + 1 /\ UNCHANGED <<streams, offset, deltas, answer>>
      /\ offset = 0 /\ text \in Seq(Age!Marks) /\ deltas \in Seq(Age!Marks)
      /\ calls \in Nat /\ step \in Nat /\ calls < step
  BY DEF Age!ExecuteTool, Age!IInv
<1>2. CASE Age!Parsed(text) = Age!Unanswered
  <2>1. Age!Blank(deltas)
    BY <1>1, <1>2, SentIsParsed DEF Age!IInv
  <2>2. /\ text' = <<>> /\ early' = FALSE
        /\ \/ step < MaxSteps /\ at' = "model" /\ step' = step + 1
           \/ at' = "last" /\ step' = step
    BY <1>2 DEF Age!ExecuteTool, Age!Continue
  <2>3. Age!TypeOK'
    BY <1>1, <2>2, LoopAssumption DEF Age!IInv, Age!TypeOK
  <2> QED BY <1>1, <2>1, <2>2, <2>3 DEF Age!IInv, Age!StreamedIsAnswered, Age!Blank
<1>3. CASE Age!Parsed(text) # Age!Unanswered
  <2>1. at' = "respond" /\ UNCHANGED <<step, text, early>>
    BY <1>3 DEF Age!ExecuteTool
  <2>2. Age!TypeOK'
    BY <1>1, <2>1 DEF Age!IInv, Age!TypeOK
  <2> QED BY <1>1, <2>1, <2>2 DEF Age!IInv, Age!StreamedIsAnswered, Age!Blank
<1> QED BY <1>2, <1>3

LEMMA RespondStep == ASSUME Age!IInv, Age!Respond PROVE Age!IInv'
<1>1. PICK p : p = Age!Parsed(text)
  OBVIOUS
<1>2. /\ at \in {"respond", "parse"} /\ at' = "answered"
      /\ answer' = IF p = Age!Unanswered THEN text ELSE p
      /\ deltas' = IF p = Age!Unanswered \/ early THEN deltas ELSE deltas \o p
      /\ UNCHANGED <<streams, step, text, offset, early, calls>>
  BY <1>1 DEF Age!Respond, Age!Responding
<1>3. /\ text \in Seq(Age!Marks) /\ deltas \in Seq(Age!Marks) /\ Len(text) <= MaxText /\ (early => deltas # <<>>)
      /\ IF early THEN Age!HasAnswer(text) /\ Age!EndAlike(deltas, text, Age!Colon(text)) ELSE Age!Blank(deltas)
  BY <1>2 DEF Age!IInv, Age!TypeOK
<1>4. p = Age!Unanswered \/ p \in Seq(Age!Marks)
  BY <1>1, <1>3, ParsedType
<1>5. CASE Age!Blank(deltas) /\ (early \/ p = Age!Unanswered)
  <2>1. Age!Strip(deltas) = <<>> /\ deltas' = deltas
    BY <1>2, <1>5 DEF Age!Strip
  <2>2. PICK a \in Seq(Age!Marks) : answer' = a
    BY <1>2, <1>3, <1>4
  <2> QED BY <1>2, <1>3, <2>1, <2>2, AnsweredStep
<1>6. CASE early /\ ~Age!Blank(deltas)
  <2>1. p # Age!Unanswered /\ Age!Strip(deltas) = Age!Strip(p)
    BY <1>1, <1>3, <1>6, SentIsParsed
  <2>2. answer' = p /\ deltas' = deltas /\ p \in Seq(Age!Marks)
    BY <1>2, <1>4, <1>6, <2>1
  <2> QED BY <1>2, <1>3, <2>1, <2>2, AnsweredStep
<1>7. CASE ~early /\ p # Age!Unanswered
  <2>1. PICK d : d = deltas \o p
    OBVIOUS
  <2>2. answer' = p /\ deltas' = d /\ p \in Seq(Age!Marks)
    BY <1>2, <1>4, <1>7, <2>1
  <2>3. d \in Seq(Age!Marks) /\ Age!Strip(d) = Age!Strip(p)
    BY <1>3, <1>7, <2>1, <2>2, StripAppended
  <2> QED BY <1>2, <1>3, <1>7, <2>2, <2>3, AnsweredStep
<1> QED BY <1>3, <1>5, <1>6, <1>7

LEMMA LastAnswerStep == ASSUME Age!IInv, Age!LastAnswer PROVE Age!IInv'
<1>1. PICK n \in 0 .. MaxText : text' \in [1 .. n -> Age!Marks]
  BY DEF Age!LastAnswer
<1>2. PICK u, p : u = text' /\ p = Age!Parsed(u)
  OBVIOUS
<1>3. u \in Seq(Age!Marks) /\ Len(u) <= MaxText
  BY <1>1, <1>2, LoopAssumption
<1>4. /\ at = "last" /\ at' = "answered" /\ ~early
      /\ answer' = IF p = Age!Unanswered THEN u ELSE p
      /\ UNCHANGED <<streams, step, offset, deltas, early, calls>>
  BY <1>2 DEF Age!IInv, Age!LastAnswer, Age!stream
<1>5. PICK a \in Seq(Age!Marks) : answer' = a
  BY <1>2, <1>3, <1>4, ParsedType
<1>6. deltas \in Seq(Age!Marks) /\ Age!Strip(deltas) = <<>>
  BY <1>4 DEF Age!IInv, Age!Strip
<1> QED BY <1>2, <1>3, <1>4, <1>5, <1>6, AnsweredStep

LEMMA LoopNextIInv == Age!IInv /\ [Age!Next]_(Age!vars) => Age!IInv'
<1> SUFFICES ASSUME Age!IInv, [Age!Next]_(Age!vars) PROVE Age!IInv'
  OBVIOUS
<1>1. CASE UNCHANGED Age!vars
  BY <1>1 DEF Age!vars, Age!stream, Age!IInv, Age!TypeOK, Age!StreamedIsAnswered, Age!Blank
<1>2. CASE Age!Next
  BY <1>2, StreamTokenStep, StreamEndsStep, GenerateStep, BlankReplyStep, ExecuteToolStep, RespondStep,
     LastAnswerStep DEF Age!Next
<1> QED BY <1>1, <1>2

-----------------------------------------------------------------------------
(* There is a function that takes the results one by one.                  *)
Taken(seen, found, n) == seen = [k \in 0 .. n |-> IF k = 0 THEN <<>> ELSE Search!Keep(seen[k - 1], found[k])]

LEMMA SeenExists ==
  ASSUME NEW found, NEW n \in Nat
  PROVE  \E seen : Taken(seen, found, n)
<1>1. PICK S : S = {m \in Nat : ~ \E seen : Taken(seen, found, m)}
  OBVIOUS
<1>2. SUFFICES ASSUME S # {} PROVE FALSE
  BY <1>1
<1>3. S \subseteq Nat
  BY <1>1
<1>4. PICK m \in S : \A k \in S : m <= k
  BY <1>2, <1>3, Least
<1>5. m \in Nat /\ ~ \E seen : Taken(seen, found, m)
  BY <1>1
<1>6. CASE m = 0
  <2>1. Taken([k \in 0 .. 0 |-> <<>>], found, 0)
    BY DEF Taken
  <2> QED BY <1>5, <1>6, <2>1
<1>7. CASE m # 0
  <2>1. PICK p \in Nat : m = p + 1
    BY <1>5, <1>7
  <2>2. p \notin S
    BY <1>4, <2>1
  <2>3. PICK seen : Taken(seen, found, p)
    BY <1>1, <2>2
  <2>4. PICK next : next = [k \in 0 .. m |-> IF k = m THEN Search!Keep(seen[p], found[m]) ELSE seen[k]]
    OBVIOUS
  <2>5. ASSUME NEW k \in 0 .. m
        PROVE  next[k] = IF k = 0 THEN <<>> ELSE Search!Keep(next[k - 1], found[k])
    <3>1. CASE k = m
      <4>1. k # 0 /\ k - 1 = p /\ p \in 0 .. m /\ p # m
        BY <2>1, <3>1
      <4>2. next[p] = seen[p] /\ next[k] = Search!Keep(seen[p], found[m])
        BY <2>4, <3>1, <4>1
      <4> QED BY <3>1, <4>1, <4>2
    <3>2. CASE k # m
      <4>1. k \in 0 .. p /\ (k # 0 => k - 1 \in 0 .. m /\ k - 1 # m)
        BY <2>1, <3>2
      <4>2. next[k] = seen[k] /\ (k # 0 => next[k - 1] = seen[k - 1])
        BY <2>4, <3>2, <4>1
      <4>3. seen[k] = IF k = 0 THEN <<>> ELSE Search!Keep(seen[k - 1], found[k])
        BY <2>3, <4>1 DEF Taken
      <4> QED BY <4>2, <4>3
    <3> QED BY <3>1, <3>2
  <2>6. Taken(next, found, m)
    <3>1. next = [k \in 0 .. m |-> next[k]]
      BY <2>4
    <3> QED BY <2>5, <3>1 DEF Taken
  <2> QED BY <1>5, <2>6
<1> QED BY <1>6, <1>7

LEMMA DeduplicatedIs ==
  ASSUME NEW found, Len(found) \in Nat
  PROVE  \E seen : Taken(seen, found, Len(found)) /\ Search!Deduplicated(found) = seen[Len(found)]
<1>1. PICK n : n = Len(found)
  OBVIOUS
<1>2. PICK seen : seen = CHOOSE s : Taken(s, found, n)
  OBVIOUS
<1>3. Taken(seen, found, n)
  BY <1>1, <1>2, SeenExists
<1>4. Search!Deduplicated(found) = seen[n]
  BY <1>1, <1>2 DEF Search!Deduplicated, Taken
<1> QED BY <1>1, <1>3, <1>4

(* What holds of the results seen after the first n.                       *)
Best(seen, found, n) ==
  /\ seen = [i \in 1 .. Len(seen) |-> seen[i]] /\ Len(seen) \in Nat
  /\ \A i \in 1 .. Len(seen) : \E p \in 1 .. n : seen[i] = found[p]
  /\ \A i, j \in 1 .. Len(seen) : Search!Address(seen[i].url) = Search!Address(seen[j].url) => i = j
  /\ \A q \in 1 .. n : \E i \in 1 .. Len(seen) :
       seen[i] = found[q] \/ (/\ Search!Address(seen[i].url) = Search!Address(found[q].url)
                              /\ Search!Quality(seen[i]) >= Search!Quality(found[q]))

Comparable(found) ==
  \A p, q \in 1 .. Len(found) :
    p # q /\ Search!Address(found[p].url) = Search!Address(found[q].url) => Search!Quality(found[p]) \in Nat

LEMMA BestKept ==
  ASSUME NEW found, NEW n \in Nat, n + 1 <= Len(found), Len(found) \in Nat, Comparable(found),
         NEW seen, Best(seen, found, n)
  PROVE  Best(Search!Keep(seen, found[n + 1]), found, n + 1)
<1>1. PICK r, z, m : r = found[n + 1] /\ z = Len(seen) /\ m = n + 1
  OBVIOUS
<1>2. /\ z \in Nat /\ seen = [i \in 1 .. z |-> seen[i]] /\ DOMAIN seen = 1 .. z
      /\ \A i \in 1 .. z : \E p \in 1 .. n : seen[i] = found[p]
      /\ \A i, j \in 1 .. z : Search!Address(seen[i].url) = Search!Address(seen[j].url) => i = j
      /\ \A q \in 1 .. n : \E i \in 1 .. z :
           seen[i] = found[q] \/ (/\ Search!Address(seen[i].url) = Search!Address(found[q].url)
                                  /\ Search!Quality(seen[i]) >= Search!Quality(found[q]))
  BY <1>1 DEF Best
<1>3. PICK next : next = Search!Keep(seen, r)
  OBVIOUS
<1>4. CASE Search!SameAs(r, seen) = {}
  <2>1. next = Append(seen, r)
    BY <1>3, <1>4 DEF Search!Keep
  <2>0. PICK y : y = z + 1
    OBVIOUS
  <2>2. /\ Len(next) = y /\ next = [i \in 1 .. y |-> next[i]] /\ y \in Nat
        /\ next[y] = r /\ \A i \in 1 .. z : next[i] = seen[i]
    BY <1>1, <1>2, <2>0, <2>1
  <2>3. \A i \in 1 .. z : Search!Address(seen[i].url) # Search!Address(r.url)
    BY <1>2, <1>4 DEF Search!SameAs
  <2>4. (\A i \in 1 .. y : i = y \/ i \in 1 .. z) /\ y \in 1 .. y /\ (\A i \in 1 .. z : i \in 1 .. y)
    BY <1>2, <2>0
  <2>5. (\A p \in 1 .. m : p = m \/ p \in 1 .. n) /\ m \in 1 .. m /\ (\A p \in 1 .. n : p \in 1 .. m)
    BY <1>1
  <2>6. ASSUME NEW i \in 1 .. y PROVE \E p \in 1 .. m : next[i] = found[p]
    <3>1. CASE i = y
      BY <1>1, <2>2, <2>5, <3>1
    <3>2. CASE i \in 1 .. z
      <4>1. PICK p \in 1 .. n : seen[i] = found[p]
        BY <1>2, <3>2
      <4> QED BY <2>2, <2>5, <3>2, <4>1
    <3> QED BY <2>4, <3>1, <3>2
  <2>7. ASSUME NEW i \in 1 .. y, NEW j \in 1 .. y, Search!Address(next[i].url) = Search!Address(next[j].url)
        PROVE  i = j
    <3>1. CASE i \in 1 .. z /\ j \in 1 .. z
      BY <1>2, <2>2, <2>7, <3>1
    <3>2. CASE i = y /\ j \in 1 .. z
      BY <2>2, <2>3, <2>7, <3>2
    <3>3. CASE i \in 1 .. z /\ j = y
      BY <2>2, <2>3, <2>7, <3>3
    <3> QED BY <2>4, <3>1, <3>2, <3>3
  <2>8. ASSUME NEW q \in 1 .. m
        PROVE  \E i \in 1 .. y :
                 next[i] = found[q] \/ (/\ Search!Address(next[i].url) = Search!Address(found[q].url)
                                        /\ Search!Quality(next[i]) >= Search!Quality(found[q]))
    <3>1. CASE q = m
      BY <1>1, <2>2, <2>4, <3>1
    <3>2. CASE q \in 1 .. n
      <4>1. PICK i \in 1 .. z :
             seen[i] = found[q] \/ (/\ Search!Address(seen[i].url) = Search!Address(found[q].url)
                                    /\ Search!Quality(seen[i]) >= Search!Quality(found[q]))
        BY <1>2, <3>2
      <4>2. i \in 1 .. y /\ next[i] = seen[i]
        BY <2>2, <2>4
      <4> QED BY <4>1, <4>2
    <3> QED BY <2>5, <3>1, <3>2
  <2>9. Best(next, found, m)
    BY <2>2, <2>6, <2>7, <2>8 DEF Best
  <2> QED BY <1>1, <1>3, <2>9
<1>5. CASE Search!SameAs(r, seen) # {}
  <2>1. next = [i \in 1 .. z |-> IF i \in Search!SameAs(r, seen) /\ Search!Quality(r) > Search!Quality(seen[i])
                                 THEN r ELSE seen[i]]
    BY <1>2, <1>3, <1>5 DEF Search!Keep
  <2>2. Len(next) = z /\ next = [i \in 1 .. z |-> next[i]]
    BY <1>2, <2>1
  <2>3. PICK same \in 1 .. z : Search!Address(seen[same].url) = Search!Address(r.url)
    BY <1>2, <1>5 DEF Search!SameAs
  <2>4. \A i \in 1 .. z : i \in Search!SameAs(r, seen) <=> i = same
    BY <1>2, <2>3 DEF Search!SameAs
  <2>5. /\ \A i \in 1 .. z : i # same => next[i] = seen[i]
        /\ next[same] = IF Search!Quality(r) > Search!Quality(seen[same]) THEN r ELSE seen[same]
    BY <2>1, <2>3, <2>4
  <2>6. \A i \in 1 .. z : Search!Address(next[i].url) = Search!Address(seen[i].url)
    BY <2>3, <2>5
  <2>7. \A p \in 1 .. m : p = m \/ p \in 1 .. n
    BY <1>1
  <2>8. \A i \in 1 .. z : \E p \in 1 .. m : next[i] = found[p]
    <3> SUFFICES ASSUME NEW i \in 1 .. z PROVE \E p \in 1 .. m : next[i] = found[p]
      OBVIOUS
    <3>1. m \in 1 .. m /\ \A p \in 1 .. n : p \in 1 .. m
      BY <1>1
    <3>2. PICK p \in 1 .. n : seen[i] = found[p]
      BY <1>2
    <3>3. next[i] \in {r, seen[i]}
      BY <2>5
    <3> QED BY <1>1, <3>1, <3>2, <3>3
  <2>9. \A i, j \in 1 .. z : Search!Address(next[i].url) = Search!Address(next[j].url) => i = j
    BY <1>2, <2>6
  <2>10. PICK p \in 1 .. n : seen[same] = found[p]
    BY <1>2, <2>3
  <2>11. p \in 1 .. Len(found) /\ m \in 1 .. Len(found) /\ p # m
    BY <1>1, <2>10
  <2>12. Search!Quality(r) \in Nat /\ Search!Quality(seen[same]) \in Nat
    BY <1>1, <2>3, <2>10, <2>11 DEF Comparable
  <2>13. next[same] = seen[same] \/ Search!Quality(next[same]) >= Search!Quality(seen[same])
    BY <2>5, <2>12
  <2>14. next[same] = r \/ Search!Quality(next[same]) >= Search!Quality(r)
    BY <2>5, <2>12
  <2>15. ASSUME NEW q \in 1 .. m
         PROVE  \E i \in 1 .. z :
                  next[i] = found[q] \/ (/\ Search!Address(next[i].url) = Search!Address(found[q].url)
                                         /\ Search!Quality(next[i]) >= Search!Quality(found[q]))
    <3>1. CASE q = m
      BY <1>1, <2>3, <2>6, <2>14, <3>1
    <3>2. CASE q \in 1 .. n
      <4>1. PICK i \in 1 .. z :
             seen[i] = found[q] \/ (/\ Search!Address(seen[i].url) = Search!Address(found[q].url)
                                    /\ Search!Quality(seen[i]) >= Search!Quality(found[q]))
        BY <1>2, <3>2
      <4>2. CASE i # same
        BY <2>5, <4>1, <4>2
      <4>3. CASE i = same /\ next[same] = seen[same]
        BY <4>1, <4>3
      <4>4. CASE i = same /\ next[same] # seen[same]
        <5>1. next[same] = r /\ Search!Quality(r) > Search!Quality(seen[same])
          BY <2>5, <4>4
        <5>2. Search!Address(next[same].url) = Search!Address(found[q].url)
          BY <2>6, <4>1, <4>4
        <5>3. CASE seen[same] = found[q]
          BY <2>12, <5>1, <5>2, <5>3
        <5>4. CASE seen[same] # found[q]
          <6>1. p # q /\ q \in 1 .. Len(found)
            BY <1>1, <2>10, <3>2, <5>4
          <6>2. Search!Quality(found[q]) \in Nat
            BY <2>10, <2>11, <4>1, <4>4, <5>4, <6>1 DEF Comparable
          <6>3. Search!Quality(seen[same]) >= Search!Quality(found[q])
            BY <4>1, <4>4, <5>4
          <6> QED BY <2>12, <5>1, <5>2, <6>2, <6>3
        <5> QED BY <5>3, <5>4
      <4> QED BY <4>2, <4>3, <4>4
    <3> QED BY <2>7, <3>1, <3>2
  <2>16. Best(next, found, m)
    BY <1>2, <2>2, <2>8, <2>9, <2>15 DEF Best
  <2> QED BY <1>1, <1>3, <2>16
<1> QED BY <1>1, <1>3, <1>4, <1>5

LEMMA DeduplicatedIsBest ==
  ASSUME NEW found, Len(found) \in Nat, Comparable(found)
  PROVE  Best(Search!Deduplicated(found), found, Len(found))
<1>1. PICK z : z = Len(found)
  OBVIOUS
<1>2. PICK seen : Taken(seen, found, z) /\ Search!Deduplicated(found) = seen[z]
  BY <1>1, DeduplicatedIs
<1>3. PICK S : S = {n \in 0 .. z : ~Best(seen[n], found, n)}
  OBVIOUS
<1>4. SUFFICES ASSUME S # {} PROVE FALSE
  BY <1>1, <1>2, <1>3
<1>5. S \subseteq Nat
  BY <1>1, <1>3
<1>6. PICK m \in S : \A k \in S : m <= k
  BY <1>4, <1>5, Least
<1>7. m \in 0 .. z /\ ~Best(seen[m], found, m) /\ z \in Nat
  BY <1>1, <1>3
<1>8. CASE m = 0
  <2>1. seen[0] = <<>>
    BY <1>2, <1>7 DEF Taken
  <2>2. Best(<<>>, found, 0)
    BY DEF Best
  <2> QED BY <1>7, <1>8, <2>1, <2>2
<1>9. CASE m # 0
  <2>1. PICK n \in Nat : m = n + 1
    BY <1>7, <1>9
  <2>2. n \in 0 .. z /\ n \notin S /\ n + 1 <= z
    BY <1>6, <1>7, <2>1
  <2>3. Best(seen[n], found, n)
    BY <1>3, <2>2
  <2>4. seen[m] = Search!Keep(seen[n], found[n + 1])
    BY <1>2, <1>7, <1>9, <2>1 DEF Taken
  <2>5. Best(Search!Keep(seen[n], found[n + 1]), found, n + 1)
    BY <1>1, <2>2, <2>3, BestKept
  <2> QED BY <1>7, <2>1, <2>4, <2>5
<1> QED BY <1>8, <1>9

-----------------------------------------------------------------------------
LEMMA SearchInitIInv == Search!Init => Search!IInv
<1> SUFFICES ASSUME Search!Init PROVE Search!IInv
  OBVIOUS
<1>1. waiting \subseteq Search!Engines
  BY SearchAssumption DEF Search!Init, Search!Engines
<1>2. raw = <<>> /\ kept = None /\ raised = FALSE
  BY DEF Search!Init
<1>3. Search!TypeOK /\ Search!BestIsKept
  BY <1>1, <1>2 DEF Search!TypeOK, Search!BestIsKept
<1>4. raw \in Seq(Search!Results)
  BY <1>2
<1> QED BY <1>2, <1>3, <1>4 DEF Search!IInv

LEMMA EngineAnswersStep ==
  ASSUME Search!IInv, NEW e \in Search!Engines, Search!EngineAnswers(e) PROVE Search!IInv'
<1>1. waiting # {} /\ waiting' \subseteq Search!Engines /\ kept = None /\ kept' = None /\ raised' \in BOOLEAN
  BY DEF Search!EngineAnswers, Search!IInv, Search!TypeOK
<1>2. PICK found \in Offers[e] \cup {<<>>} : raw' = raw \o found
  BY DEF Search!EngineAnswers
<1>3. found \in Seq(Search!Results)
  <2>1. Offers[e] \subseteq Seq(Search!Results)
    <3>1. e \in DOMAIN Offers
      BY DEF Search!Engines
    <3> QED BY <3>1, SearchAssumption
  <2>2. <<>> \in Seq(Search!Results)
    OBVIOUS
  <2> QED BY <2>1, <2>2
<1>4. raw' \in Seq(Search!Results)
  <2>1. PICK x : x = raw
    OBVIOUS
  <2>2. x \in Seq(Search!Results)
    BY <2>1 DEF Search!IInv
  <2>3. x \o found \in Seq(Search!Results)
    BY <1>3, <2>2
  <2> QED BY <1>2, <2>1, <2>3
<1> QED BY <1>1, <1>4 DEF Search!IInv, Search!TypeOK, Search!BestIsKept

(* Results that can be compared have a quality.                            *)
LEMMA ComparableResults ==
  ASSUME NEW found \in Seq(Search!Results),
         ~ \E i, j \in DOMAIN found : i # j /\ Search!Address(found[i].url) = Search!Address(found[j].url)
                                       /\ found[i].snippet = None
  PROVE  Comparable(found)
<1> SUFFICES ASSUME NEW p \in 1 .. Len(found), NEW q \in 1 .. Len(found), p # q,
                    Search!Address(found[p].url) = Search!Address(found[q].url)
             PROVE  Search!Quality(found[p]) \in Nat
  BY DEF Comparable
<1>1. PICK r : r = found[p]
  OBVIOUS
<1>2. r \in Search!Results /\ r.snippet # None
  BY <1>1
<1>3. r.score \in Nat \cup {None} /\ r.snippet \in Nat
  BY <1>2, SearchAssumption
<1>4. Search!Quality(r) \in Nat
  <2>1. PICK a, b, c, d : /\ a = (IF r.score = None THEN 0 ELSE 10 * r.score)
                         /\ b = (IF r.snippet > 500 THEN 500 ELSE r.snippet)
                         /\ c = (IF r.dated THEN 100 ELSE 0) /\ d = (IF r.titled THEN 50 ELSE 0)
    OBVIOUS
  <2>2. b \in Nat /\ c \in Nat /\ d \in Nat
    BY <1>3, <2>1
  <2>3. a \in Nat
    <3>1. CASE r.score = None
      BY <2>1, <3>1
    <3>2. CASE r.score # None
      BY <1>3, <2>1, <3>2
    <3> QED BY <3>1, <3>2
  <2>4. Search!Quality(r) = a + b + c + d
    BY <2>1 DEF Search!Quality
  <2> QED BY <2>2, <2>3, <2>4
<1> QED BY <1>1, <1>4

LEMMA AggregateStep == ASSUME Search!IInv, Search!Aggregate PROVE Search!IInv'
<1>1. /\ waiting = {} /\ UNCHANGED <<waiting, raw>>
      /\ waiting \subseteq Search!Engines /\ raised' \in BOOLEAN
  BY DEF Search!Aggregate, Search!IInv, Search!TypeOK
<1>2. PICK found : found = raw
  OBVIOUS
<1>3. found \in Seq(Search!Results)
  BY <1>2 DEF Search!IInv
<1>4. CASE kept' = None
  BY <1>1, <1>2, <1>3, <1>4 DEF Search!IInv, Search!TypeOK, Search!BestIsKept
<1>5. CASE kept' # None
  <2>1. PICK show : show = kept'
    OBVIOUS
  <2>2. show = Search!Deduplicated(found) /\ ~Search!Incomparable
    BY <1>2, <1>5, <2>1 DEF Search!Aggregate
  <2>3. Comparable(found)
    BY <1>2, <1>3, <2>2, ComparableResults DEF Search!Incomparable
  <2>4. PICK z : z = Len(found)
    OBVIOUS
  <2>5. Best(show, found, z) /\ z \in Nat
    BY <1>3, <2>2, <2>3, <2>4, DeduplicatedIsBest
  <2>6. PICK y : y = Len(show)
    OBVIOUS
  <2>7. /\ DOMAIN show = 1 .. y /\ DOMAIN found = 1 .. z
        /\ \A i \in 1 .. y : \E p \in 1 .. z : show[i] = found[p]
        /\ \A i, j \in 1 .. y : Search!Address(show[i].url) = Search!Address(show[j].url) => i = j
        /\ \A q \in 1 .. z : \E i \in 1 .. y :
              show[i] = found[q] \/ (/\ Search!Address(show[i].url) = Search!Address(found[q].url)
                                     /\ Search!Quality(show[i]) >= Search!Quality(found[q]))
    BY <1>3, <2>4, <2>5, <2>6 DEF Best
  <2>8. Search!ToSet(show) \subseteq Search!ToSet(found)
    BY <2>7 DEF Search!ToSet
  <2>9. \A i, j \in DOMAIN show : Search!Address(show[i].url) = Search!Address(show[j].url) => i = j
    BY <2>7
  <2>10. ASSUME NEW r \in Search!ToSet(found)
         PROVE  \E k \in Search!ToSet(show) :
                  k = r \/ (Search!Address(k.url) = Search!Address(r.url) /\ Search!Quality(k) >= Search!Quality(r))
    <3>1. PICK q \in 1 .. z : r = found[q]
      BY <2>7 DEF Search!ToSet
    <3>2. PICK i \in 1 .. y :
              show[i] = found[q] \/ (/\ Search!Address(show[i].url) = Search!Address(found[q].url)
                                     /\ Search!Quality(show[i]) >= Search!Quality(found[q]))
      BY <2>7
    <3>3. show[i] \in Search!ToSet(show)
      BY <2>7 DEF Search!ToSet
    <3> QED BY <3>1, <3>2, <3>3
  <2>11. Search!BestIsKept'
    BY <1>1, <1>2, <2>1, <2>9, <2>10 DEF Search!BestIsKept
  <2> QED BY <1>1, <1>2, <1>3, <2>1, <2>8, <2>11 DEF Search!IInv, Search!TypeOK
<1> QED BY <1>4, <1>5

LEMMA SearchNextIInv == Search!IInv /\ [Search!Next]_(Search!vars) => Search!IInv'
<1> SUFFICES ASSUME Search!IInv, [Search!Next]_(Search!vars) PROVE Search!IInv'
  OBVIOUS
<1>1. CASE UNCHANGED Search!vars
  BY <1>1 DEF Search!vars, Search!IInv, Search!TypeOK, Search!BestIsKept
<1>2. CASE Search!Next
  BY <1>2, EngineAnswersStep, AggregateStep DEF Search!Next
<1> QED BY <1>1, <1>2

-----------------------------------------------------------------------------
(* The types of the memories and of the revisions of the core memory.      *)
MemoryRow == [content : Contents, status : Mem!Statuses]
CoreRow == [version : 1 .. MaxRevisions, active : BOOLEAN, after : 0 .. MaxRevisions]

LEMMA MemoryInitTypes == Mem!Init => Mem!ITypeOK
<1> SUFFICES ASSUME Mem!Init PROVE Mem!ITypeOK
  OBVIOUS
<1>1. /\ memories = <<>> /\ core = <<>> /\ Len(core) = 0
      /\ ask = [t \in Threads |-> [at |-> "idle", persistent |-> {}, suggests |-> {}, known |-> {}]]
      /\ revise = [t \in Threads |-> [at |-> "idle", version |-> 0, after |-> 0, rows |-> {}]]
  BY DEF Mem!Init, Mem!NoAsk, Mem!NoRevision
<1>2. ask \in [Threads -> Mem!Asks]
  BY <1>1 DEF Mem!Asks
<1>3. \A t \in Threads : ask[t].at = "idle" /\ revise[t].at = "idle" /\ revise[t].rows = {}
  BY <1>1
<1>4. Mem!TypeOK
  BY <1>1, <1>3 DEF Mem!TypeOK
<1> QED BY <1>1, <1>2, <1>3, <1>4 DEF Mem!ITypeOK

(* A question, or what is done with a memory: no revision is written.      *)
LEMMA MemoryQuietTypes ==
  ASSUME Mem!ITypeOK, UNCHANGED <<core, revise>>,
         memories' \in Seq(MemoryRow), ask' \in [Threads -> Mem!Asks]
  PROVE  Mem!ITypeOK'
<1>1. \A t \in Threads : ask'[t].at \in {"idle", "index", "select", "answer", "pending", "active", "insert"}
  <2>1. ASSUME NEW t \in Threads
        PROVE  ask'[t].at \in {"idle", "index", "select", "answer", "pending", "active", "insert"}
    <3>1. ask'[t] \in Mem!Asks
      BY <2>1
    <3> QED BY <3>1 DEF Mem!Asks
  <2> QED BY <2>1
<1>2. Mem!TypeOK'
  BY <1>1 DEF Mem!ITypeOK, Mem!TypeOK, MemoryRow
<1> QED BY <1>2 DEF Mem!ITypeOK

(* One more memory, a candidate.                                           *)
LEMMA MemoryInserted ==
  ASSUME Mem!ITypeOK, NEW c \in Contents, Mem!Insert(c)
  PROVE  memories' \in Seq(MemoryRow)
<1>1. [content |-> c, status |-> "pending"] \in MemoryRow
  BY DEF MemoryRow, Mem!Statuses
<1>2. memories \in Seq(MemoryRow)
  BY DEF Mem!ITypeOK, Mem!TypeOK, MemoryRow
<1> QED BY <1>1, <1>2 DEF Mem!Insert

LEMMA MemoryCreateTypes == ASSUME Mem!ITypeOK, NEW t \in Threads, Mem!Create(t) PROVE Mem!ITypeOK'
<1>1. PICK c \in Contents : Mem!Insert(c)
  BY DEF Mem!Create
<1>2. UNCHANGED <<core, revise, ask>>
  BY DEF Mem!Create, Mem!OnlyMemories
<1> QED BY <1>1, <1>2, MemoryInserted, MemoryQuietTypes DEF Mem!ITypeOK

LEMMA MemorySetStatusTypes == ASSUME Mem!ITypeOK, NEW t \in Threads, Mem!SetStatus(t) PROVE Mem!ITypeOK'
<1>1. PICK m \in Mem!Stored, s \in Mem!Statuses : memories' = Mem!WithStatus(m, s)
  BY DEF Mem!SetStatus
<1>2. UNCHANGED <<core, revise, ask>>
  BY DEF Mem!SetStatus, Mem!OnlyMemories
<1>3. memories \in Seq(MemoryRow) /\ m \in 1 .. Len(memories)
  BY <1>1 DEF Mem!ITypeOK, Mem!TypeOK, MemoryRow, Mem!Stored
<1>4. PICK x : x = memories[m] /\ x \in MemoryRow
  BY <1>3
<1>5. [x EXCEPT !.status = s] \in MemoryRow
  BY <1>1, <1>4 DEF MemoryRow
<1>6. memories' = [memories EXCEPT ![m] = [x EXCEPT !.status = s]]
  BY <1>1, <1>4 DEF Mem!WithStatus
<1>7. memories' \in Seq(MemoryRow)
  BY <1>3, <1>5, <1>6
<1> QED BY <1>2, <1>7, MemoryQuietTypes DEF Mem!ITypeOK

(* What a question holds.                                                  *)
LEMMA MemoryAsk ==
  ASSUME Mem!ITypeOK, NEW t \in Threads
  PROVE  /\ ask[t] \in Mem!Asks /\ ask[t].suggests \subseteq Contents /\ ask[t].known \subseteq Contents
         /\ ask[t].persistent \subseteq Nat
         /\ ask[t] = [at |-> ask[t].at, persistent |-> ask[t].persistent, suggests |-> ask[t].suggests,
                      known |-> ask[t].known]
<1>1. ask[t] \in Mem!Asks
  BY DEF Mem!ITypeOK
<1> QED BY <1>1 DEF Mem!Asks

LEMMA MemoryAskTypes ==
  ASSUME Mem!ITypeOK, NEW t \in Threads, NEW a \in Mem!Asks, Mem!OnlyAsk, ask' = [ask EXCEPT ![t] = a]
  PROVE  Mem!ITypeOK'
<1>1. ask' \in [Threads -> Mem!Asks]
  BY DEF Mem!ITypeOK
<1>2. UNCHANGED <<core, revise>> /\ memories' \in Seq(MemoryRow)
  BY DEF Mem!OnlyAsk, Mem!ITypeOK, Mem!TypeOK, MemoryRow
<1> QED BY <1>1, <1>2, MemoryQuietTypes

(* A question goes on with one of the things it holds.                     *)
Held(v, g, f, t) ==
  \/ v \subseteq Nat /\ g = [f EXCEPT ![t].persistent = v]
  \/ v \subseteq Contents /\ (g = [f EXCEPT ![t].suggests = v] \/ g = [f EXCEPT ![t].known = v])

LEMMA MemoryHolds ==
  ASSUME NEW f \in [Threads -> Mem!Asks], NEW t \in Threads, NEW v, NEW g, Held(v, g, f, t)
  PROVE  g \in [Threads -> Mem!Asks]
<1>1. PICK a : a = f[t] /\ a \in Mem!Asks
  OBVIOUS
<1>2. v \subseteq Nat => [a EXCEPT !.persistent = v] \in Mem!Asks
  BY <1>1 DEF Mem!Asks
<1>3. v \subseteq Contents => [a EXCEPT !.suggests = v] \in Mem!Asks /\ [a EXCEPT !.known = v] \in Mem!Asks
  BY <1>1 DEF Mem!Asks
<1>4. CASE v \subseteq Nat /\ g = [f EXCEPT ![t].persistent = v]
  BY <1>1, <1>2, <1>4
<1>5. CASE v \subseteq Contents /\ g = [f EXCEPT ![t].suggests = v]
  BY <1>1, <1>3, <1>5
<1>6. CASE v \subseteq Contents /\ g = [f EXCEPT ![t].known = v]
  BY <1>1, <1>3, <1>6
<1> QED BY <1>4, <1>5, <1>6 DEF Held

LEMMA MemoryMoves ==
  ASSUME Mem!ITypeOK, NEW t \in Threads, NEW x \in {"select", "answer", "pending", "active"}, NEW f,
         f = [ask EXCEPT ![t].at = x], NEW v, Held(v, ask', f, t), Mem!OnlyAsk
  PROVE  Mem!ITypeOK'
<1>1. PICK a : a = ask[t] /\ a \in Mem!Asks
  BY DEF Mem!ITypeOK
<1>2. [a EXCEPT !.at = x] \in Mem!Asks
  BY <1>1 DEF Mem!Asks
<1>3. f \in [Threads -> Mem!Asks]
  BY <1>1, <1>2 DEF Mem!ITypeOK
<1>4. ask' \in [Threads -> Mem!Asks]
  BY <1>3, MemoryHolds
<1>5. UNCHANGED <<core, revise>> /\ memories' \in Seq(MemoryRow)
  BY DEF Mem!OnlyAsk, Mem!ITypeOK, Mem!TypeOK, MemoryRow
<1> QED BY <1>4, <1>5, MemoryQuietTypes

(* What a question reads of the memories.                                  *)
LEMMA MemoryRead ==
  ASSUME Mem!ITypeOK, NEW S
  PROVE  Mem!With(S) \subseteq Nat /\ {memories[m].content : m \in Mem!With(S)} \subseteq Contents
<1>1. memories \in Seq(MemoryRow)
  BY DEF Mem!ITypeOK, Mem!TypeOK, MemoryRow
<1>2. \A m \in Mem!With(S) : m \in Nat /\ memories[m] \in MemoryRow
  BY <1>1 DEF Mem!With, Mem!Stored
<1>3. \A m \in Mem!With(S) : memories[m].content \in Contents
  BY <1>2 DEF MemoryRow
<1> QED BY <1>2, <1>3

LEMMA MemoryQuestionTypes ==
  ASSUME Mem!ITypeOK, NEW t \in Threads,
         Mem!ReadCore(t) \/ Mem!ReadIndex(t) \/ Mem!Select(t) \/ Mem!Answer(t)
  PROVE  Mem!ITypeOK'
<1>1. PICK active : active = Mem!With({"active"}) /\ active \subseteq Nat
  BY MemoryRead
<1>2. Mem!NoAsk \in Mem!Asks /\ [Mem!NoAsk EXCEPT !.at = "index"] \in Mem!Asks
  BY DEF Mem!NoAsk, Mem!Asks
<1>3. CASE Mem!ReadCore(t)
  BY <1>2, <1>3, MemoryAskTypes DEF Mem!ReadCore
<1>4. CASE Mem!ReadIndex(t)
  <2>1. PICK f : f = [ask EXCEPT ![t].at = "select"]
    OBVIOUS
  <2>2. ask' = [f EXCEPT ![t].persistent = active] /\ Mem!OnlyAsk
    BY <1>1, <1>4, <2>1 DEF Mem!ReadIndex
  <2>3. Held(active, ask', f, t)
    BY <1>1, <2>2 DEF Held
  <2> QED BY <2>1, <2>2, <2>3, MemoryMoves
<1>5. CASE Mem!Select(t)
  <2>1. PICK chosen \in SUBSET active :
          ask' = [ask EXCEPT ![t].at = "answer", ![t].persistent = @ \cup chosen]
    BY <1>1, <1>5 DEF Mem!Select
  <2>2. PICK f : f = [ask EXCEPT ![t].at = "answer"]
    OBVIOUS
  <2>3. ask' = [f EXCEPT ![t].persistent = @ \cup chosen]
    BY <2>1, <2>2
  <2>4. PICK v : v = f[t].persistent \cup chosen
    OBVIOUS
  <2>5. f[t].persistent = ask[t].persistent
    <3>1. PICK a : a = ask[t] /\ a \in Mem!Asks
      BY MemoryAsk
    <3>2. f[t] = [a EXCEPT !.at = "answer"]
      BY <2>2, <3>1 DEF Mem!ITypeOK
    <3> QED BY <3>1, <3>2 DEF Mem!Asks
  <2>6. Held(v, ask', f, t)
    <3>1. v \subseteq Nat
      BY <1>1, <2>4, <2>5, MemoryAsk
    <3>2. ask' = [f EXCEPT ![t].persistent = v]
      BY <2>3, <2>4
    <3> QED BY <3>1, <3>2 DEF Held
  <2>7. Mem!OnlyAsk
    BY <1>5 DEF Mem!Select
  <2> QED BY <2>2, <2>6, <2>7, MemoryMoves
<1>6. CASE Mem!Answer(t)
  <2>1. Mem!OnlyAsk
    BY <1>6 DEF Mem!Answer
  <2>2. CASE ask' = [ask EXCEPT ![t] = Mem!NoAsk]
    BY <1>2, <2>1, <2>2, MemoryAskTypes
  <2>3. CASE \E c \in Contents : ask' = [ask EXCEPT ![t].at = "pending", ![t].suggests = {c}]
    <3>1. PICK c \in Contents : ask' = [ask EXCEPT ![t].at = "pending", ![t].suggests = {c}]
      BY <2>3
    <3>2. PICK f : f = [ask EXCEPT ![t].at = "pending"]
      OBVIOUS
    <3>3. ask' = [f EXCEPT ![t].suggests = {c}]
      BY <3>1, <3>2
    <3>4. Held({c}, ask', f, t)
      BY <3>3 DEF Held
    <3> QED BY <2>1, <3>2, <3>4, MemoryMoves
  <2> QED BY <1>6, <2>2, <2>3 DEF Mem!Answer
<1> QED BY <1>3, <1>4, <1>5, <1>6

LEMMA MemoryReadPendingTypes == ASSUME Mem!ITypeOK, NEW t \in Threads, Mem!ReadPending(t) PROVE Mem!ITypeOK'
<1>1. PICK k \in SUBSET Contents : k = {memories[m].content : m \in Mem!With({"pending"})}
  BY MemoryRead
<1>2. PICK f : f = [ask EXCEPT ![t].at = "active"]
  OBVIOUS
<1>3. ask' = [f EXCEPT ![t].known = k] /\ Mem!OnlyAsk
  BY <1>1, <1>2 DEF Mem!ReadPending
<1>4. Held(k, ask', f, t)
  BY <1>3 DEF Held
<1> QED BY <1>2, <1>3, <1>4, MemoryMoves

LEMMA MemoryReadActiveTypes == ASSUME Mem!ITypeOK, NEW t \in Threads, Mem!ReadActive(t) PROVE Mem!ITypeOK'
<1>1. PICK a : a = ask[t] /\ a \in Mem!Asks /\ a.known \subseteq Contents
  BY MemoryAsk
<1>2. PICK k \in SUBSET Contents : k = a.known \cup {memories[m].content : m \in Mem!With({"active"})}
  <2>1. {memories[m].content : m \in Mem!With({"active"})} \subseteq Contents
    BY MemoryRead
  <2> QED BY <1>1, <2>1
<1>3. PICK n : n = [a EXCEPT !.at = "insert", !.known = k]
  OBVIOUS
<1>4. n \in Mem!Asks
  <2>1. PICK m : m = [a EXCEPT !.at = "insert"]
    OBVIOUS
  <2>2. m \in Mem!Asks
    BY <1>1, <2>1 DEF Mem!Asks
  <2>3. n = [m EXCEPT !.known = k]
    BY <1>3, <2>1
  <2> QED BY <1>2, <2>2, <2>3 DEF Mem!Asks
<1>5. Mem!NoAsk \in Mem!Asks
  BY DEF Mem!NoAsk, Mem!Asks
<1>6. Mem!OnlyAsk /\ ask' = [ask EXCEPT ![t] = IF a.suggests \subseteq k THEN Mem!NoAsk ELSE n]
  BY <1>1, <1>2, <1>3 DEF Mem!ReadActive
<1>7. ask' = [ask EXCEPT ![t] = Mem!NoAsk] \/ ask' = [ask EXCEPT ![t] = n]
  BY <1>6
<1> QED BY <1>4, <1>5, <1>6, <1>7, MemoryAskTypes

LEMMA MemorySuggestTypes == ASSUME Mem!ITypeOK, NEW t \in Threads, Mem!Suggest(t) PROVE Mem!ITypeOK'
<1>1. PICK c \in ask[t].suggests : Mem!Insert(c)
  BY DEF Mem!Suggest
<1>2. c \in Contents
  BY <1>1, MemoryAsk
<1>3. memories' \in Seq(MemoryRow)
  BY <1>1, <1>2, MemoryInserted
<1>4. Mem!NoAsk \in Mem!Asks
  BY DEF Mem!NoAsk, Mem!Asks
<1>5. ask' \in [Threads -> Mem!Asks] /\ UNCHANGED <<core, revise>>
  BY <1>4 DEF Mem!Suggest, Mem!ITypeOK
<1> QED BY <1>3, <1>5, MemoryQuietTypes

(* A step of a revision: no memory and no question.                        *)
MemoryRevise(w) ==
  /\ w.at \in {"idle", "update", "locks", "insert"}
  /\ w.rows \subseteq 1 .. Len(core)
  /\ w.at # "idle" => /\ w.version \in 1 .. MaxRevisions /\ w.version <= Len(core) + 1
                      /\ w.after \in 0 .. MaxRevisions

LEMMA MemoryRevisionTypes ==
  ASSUME Mem!ITypeOK, UNCHANGED <<memories, ask>>,
         core' \in Seq(CoreRow), \A r \in 1 .. Len(core') : core'[r].version <= Len(core'),
         \A t \in Threads : MemoryRevise(revise[t])'
  PROVE  Mem!ITypeOK'
<1>1. Mem!TypeOK'
  BY DEF Mem!ITypeOK, Mem!TypeOK, CoreRow, MemoryRevise
<1> QED BY <1>1 DEF Mem!ITypeOK, MemoryRevise

LEMMA MemoryRevisions ==
  ASSUME Mem!ITypeOK
  PROVE  /\ core \in Seq(CoreRow) /\ Len(core) \in Nat
         /\ \A r \in 1 .. Len(core) : core[r] \in CoreRow /\ core[r].version <= Len(core) /\ core[r].version \in Nat
         /\ \A t \in Threads : MemoryRevise(revise[t])
<1>1. core \in Seq(CoreRow)
  BY DEF Mem!ITypeOK, Mem!TypeOK, CoreRow
<1>2. Len(core) \in Nat /\ \A r \in 1 .. Len(core) : core[r] \in CoreRow
  BY <1>1
<1>3. \A r \in 1 .. Len(core) : core[r].version \in Nat
  BY <1>2, BoundsAssumption DEF CoreRow
<1> QED BY <1>1, <1>2, <1>3 DEF Mem!ITypeOK, Mem!TypeOK, MemoryRevise

(* A statement that nobody sees.                                           *)
LEMMA MemoryStatementTypes ==
  ASSUME Mem!IInv, Mem!ITypeOK, NEW t \in Threads, NEW w, UNCHANGED <<memories, ask, core>>,
         revise' = [revise EXCEPT ![t] = w], MemoryRevise(w)
  PROVE  Mem!ITypeOK'
<1>1. \A u \in Threads : revise'[u] = IF u = t THEN w ELSE revise[u]
  BY DEF Mem!IInv
<1>2. \A u \in Threads : MemoryRevise(revise[u])'
  BY <1>1, MemoryRevisions DEF MemoryRevise
<1> QED BY <1>2, MemoryRevisions, MemoryRevisionTypes

(* The number of a new revision is at most one more than there are.        *)
LEMMA MemoryNumberTypes == ASSUME Mem!IInv, Mem!ITypeOK, NEW t \in Threads, Mem!Number(t) PROVE Mem!ITypeOK'
<1>1. PICK n \in Nat : n = Len(core)
  BY MemoryRevisions
<1>2. Mem!NextVersion \in 1 .. n + 1
  <2>1. Mem!Versions \subseteq 0 .. n
    BY <1>1, MemoryRevisions DEF Mem!Versions
  <2>2. PICK v \in Mem!Versions : \A w \in Mem!Versions : v >= w
    BY <2>1 DEF Mem!IInv
  <2>3. Mem!Max(Mem!Versions) \in Mem!Versions
    BY <2>2 DEF Mem!Max
  <2>4. PICK m \in 0 .. n : m = Mem!Max(Mem!Versions)
    BY <2>1, <2>3
  <2> QED BY <2>4 DEF Mem!NextVersion
<1>3. n < MaxRevisions /\ UNCHANGED <<memories, ask, core>>
  BY <1>1 DEF Mem!Number, Mem!OnlyRevise
<1>4. PICK v : v = Mem!NextVersion /\ v \in 1 .. MaxRevisions /\ v <= n + 1
  BY <1>1, <1>2, <1>3, BoundsAssumption
<1>5. PICK w : w = [at |-> "update", version |-> v, after |-> n, rows |-> {}]
  OBVIOUS
<1>6. MemoryRevise(w)
  BY <1>1, <1>3, <1>4, <1>5, BoundsAssumption DEF MemoryRevise
<1>7. revise' = [revise EXCEPT ![t] = w]
  BY <1>1, <1>4, <1>5 DEF Mem!Number
<1> QED BY <1>3, <1>6, <1>7, MemoryStatementTypes

LEMMA MemoryUpdateTypes ==
  ASSUME Mem!IInv, Mem!ITypeOK, NEW t \in Threads, Mem!Find(t) \/ Mem!Deactivate(t) \/ Mem!Break(t)
  PROVE  Mem!ITypeOK'
<1>1. PICK n \in Nat : n = Len(core)
  BY MemoryRevisions
<1>2. UNCHANGED <<memories, ask, core>> /\ MemoryRevise(revise[t])
  BY MemoryRevisions DEF Mem!Find, Mem!Deactivate, Mem!Break, Mem!OnlyRevise
<1>3. CASE Mem!Find(t)
  <2>1. PICK w : w = [at |-> "locks", version |-> revise[t].version, after |-> revise[t].after, rows |-> 1 .. n]
    OBVIOUS
  <2>2. revise' = [revise EXCEPT ![t] = w] /\ revise[t].at # "idle"
    BY <1>1, <1>3, <2>1, MemoryFound
  <2>3. MemoryRevise(w)
    BY <1>1, <1>2, <2>1, <2>2 DEF MemoryRevise
  <2> QED BY <1>2, <2>2, <2>3, MemoryStatementTypes
<1>4. CASE Mem!Deactivate(t)
  <2>1. PICK w : w = [at |-> "insert", version |-> revise[t].version, after |-> revise[t].after,
                      rows |-> revise[t].rows]
    OBVIOUS
  <2>2. revise' = [revise EXCEPT ![t] = w] /\ revise[t].at # "idle"
    <3>1. PICK v : v = revise[t] /\ v \in Mem!Revisions
      BY MemorySeen
    <3>2. [v EXCEPT !.at = "insert"] = w
      BY <2>1, <3>1 DEF Mem!Revisions
    <3>3. revise' = [revise EXCEPT ![t] = [v EXCEPT !.at = "insert"]] /\ revise[t].at = "locks"
      BY <1>4, <3>1 DEF Mem!Deactivate
    <3> QED BY <3>2, <3>3
  <2>3. MemoryRevise(w)
    BY <1>2, <2>1, <2>2 DEF MemoryRevise
  <2> QED BY <1>2, <2>2, <2>3, MemoryStatementTypes
<1>5. CASE Mem!Break(t)
  <2>1. MemoryRevise(Mem!NoRevision)
    BY DEF MemoryRevise, Mem!NoRevision
  <2> QED BY <1>2, <1>5, <2>1, MemoryStatementTypes DEF Mem!Break
<1> QED BY <1>3, <1>4, <1>5

LEMMA MemoryActivateTypes == ASSUME Mem!IInv, Mem!ITypeOK, NEW t \in Threads, Mem!Activate(t) PROVE Mem!ITypeOK'
<1>1. PICK n : n = Len(core)
  OBVIOUS
<1>2. /\ n \in Nat /\ core' \in Seq(Mem!Revision) /\ Len(core') = n + 1
      /\ core'[n + 1] = [version |-> revise[t].version, active |-> TRUE, after |-> revise[t].after]
      /\ \A r \in 1 .. n : core'[r].version = core[r].version /\ core'[r].after = core[r].after
  BY <1>1, MemoryCommit
<1>3. MemoryRevise(revise[t]) /\ revise[t].at = "insert" /\ UNCHANGED <<memories, ask>>
  BY MemoryRevisions DEF Mem!Activate, Mem!OnlyRevise
<1>4. ASSUME NEW r \in 1 .. n + 1 PROVE core'[r] \in CoreRow /\ core'[r].version <= n + 1
  <2>1. core'[r] \in Mem!Revision
    BY <1>2
  <2>2. core'[r].version \in 1 .. MaxRevisions /\ core'[r].after \in 0 .. MaxRevisions /\ core'[r].version <= n + 1
    <3>1. CASE r = n + 1
      BY <1>1, <1>2, <1>3, <3>1 DEF MemoryRevise
    <3>2. CASE r \in 1 .. n
      <4>1. core[r] \in CoreRow /\ core[r].version <= n /\ core[r].version \in Nat
        BY <1>1, <3>2, MemoryRevisions
      <4> QED BY <1>2, <3>2, <4>1 DEF CoreRow
    <3> QED BY <1>2, <3>1, <3>2
  <2> QED BY <2>1, <2>2 DEF Mem!Revision, CoreRow
<1>5. core' \in Seq(CoreRow)
  <2>1. core' \in [1 .. n + 1 -> CoreRow]
    <3>1. DOMAIN core' = 1 .. n + 1 /\ core' = [r \in 1 .. n + 1 |-> core'[r]]
      BY <1>2
    <3> QED BY <1>4, <3>1
  <2> QED BY <1>2, <2>1
<1>6. ASSUME NEW u \in Threads PROVE MemoryRevise(revise[u])'
  <2>1. MemoryRevise(revise[u])
    BY MemoryRevisions
  <2>2. CASE u = t
    <3>1. revise'[u] = Mem!NoRevision
      BY <2>2 DEF Mem!Activate, Mem!IInv
    <3> QED BY <3>1 DEF MemoryRevise, Mem!NoRevision
  <2>3. CASE u # t
    <3>1. revise'[u] = revise[u]
      BY <2>3 DEF Mem!Activate, Mem!IInv
    <3>2. 1 .. n \subseteq 1 .. n + 1
      BY <1>2
    <3>3. revise[u].at # "idle" => revise[u].version <= n + 2
      BY <1>1, <1>2, <2>1, BoundsAssumption DEF MemoryRevise
    <3> QED BY <1>1, <1>2, <2>1, <3>1, <3>2, <3>3 DEF MemoryRevise
  <2> QED BY <2>2, <2>3
<1> QED BY <1>2, <1>3, <1>4, <1>5, <1>6, MemoryRevisionTypes

LEMMA MemoryNextTypes ==
  ASSUME Mem!IInv, Mem!ITypeOK, [Mem!Next]_(Mem!vars)
  PROVE  Mem!ITypeOK'
<1>1. CASE UNCHANGED Mem!vars
  BY <1>1 DEF Mem!vars, Mem!ITypeOK, Mem!TypeOK
<1>2. ASSUME NEW t \in Threads,
             \/ Mem!Create(t) \/ Mem!SetStatus(t) \/ Mem!ReadCore(t) \/ Mem!ReadIndex(t) \/ Mem!Select(t)
             \/ Mem!Answer(t) \/ Mem!ReadPending(t) \/ Mem!ReadActive(t) \/ Mem!Suggest(t)
      PROVE  Mem!ITypeOK'
  BY <1>2, MemoryCreateTypes, MemorySetStatusTypes, MemoryQuestionTypes, MemoryReadPendingTypes,
     MemoryReadActiveTypes, MemorySuggestTypes
<1>3. ASSUME NEW t \in Threads, Mem!Number(t) \/ Mem!Find(t) \/ Mem!Deactivate(t) \/ Mem!Activate(t) \/ Mem!Break(t)
      PROVE  Mem!ITypeOK'
  BY <1>3, MemoryNumberTypes, MemoryUpdateTypes, MemoryActivateTypes
<1> QED BY <1>1, <1>2, <1>3 DEF Mem!Next

-----------------------------------------------------------------------------
(* Where a thread that works at a fact may be.                             *)
FactAts == {"idle", "save", "compare", "insert", "read", "weigh", "write"}

LEMMA FactInitTypes == Fac!Init => Fac!ITypeOK
<1> SUFFICES ASSUME Fac!Init PROVE Fac!ITypeOK
  OBVIOUS
<1>1. facts = <<>> /\ evidence = <<>> /\ Len(facts) = 0 /\ Len(evidence) = 0 /\ Fac!Known = {} /\ posts = 0
  BY DEF Fac!Init, Fac!Known
<1>2. \A t \in Threads : work[t].at = "idle"
  BY DEF Fac!Init, Fac!Idle
<1> QED BY <1>1, <1>2, BoundsAssumption DEF Fac!ITypeOK

(* The evidence is a sequence for every fact.                              *)
LEMMA FactEvidence ==
  ASSUME Fac!IInv, Fac!ITypeOK
  PROVE  /\ Len(facts) \in Nat /\ Len(facts) <= MaxFacts /\ Fac!Known = 1 .. Len(facts)
         /\ evidence \in Seq({evidence[f] : f \in Fac!Known}) /\ Len(evidence) = Len(facts)
         /\ \A f \in Fac!Known : evidence[f] \in Seq(Fac!Accepted(f))
  BY DEF Fac!IInv, Fac!ITypeOK, Fac!Known

LEMMA FactTypesOK ==
  ASSUME Fac!IInv, Fac!ITypeOK
  PROVE  Fac!TypeOK
<1>1. ASSUME NEW f \in Fac!Known, NEW e \in Fac!Refs(f) PROVE ~Fac!Refused(e)
  <2>1. evidence[f] \in Seq(Fac!Accepted(f))
    BY FactEvidence
  <2>2. PICK i \in 1 .. Len(evidence[f]) : e = evidence[f][i]
    BY <1>1 DEF Fac!Refs
  <2>3. e \in Fac!Accepted(f)
    BY <2>1, <2>2
  <2> QED BY <2>3 DEF Fac!Accepted
<1>2. ASSUME NEW t \in Threads PROVE work[t].fact \in 0 .. MaxFacts /\ work[t].row \in Fac!Rows
  <2>1. work[t].fact \in {0} \cup (1 .. Len(facts)) /\ work[t].row \in Fac!Rows
    BY FactJob, FactEvidence
  <2> QED BY <2>1, FactEvidence, BoundsAssumption
<1> QED BY <1>1, <1>2 DEF Fac!IInv, Fac!ITypeOK, Fac!TypeOK

(* The other threads stay where they are.                                  *)
LEMMA FactPlaces ==
  ASSUME Fac!IInv, Fac!ITypeOK, NEW t \in Threads, NEW w, Fac!Become(t, w), w.at \in FactAts
  PROVE  \A u \in Threads : work'[u].at \in FactAts
<1> SUFFICES ASSUME NEW u \in Threads PROVE work'[u].at \in FactAts
  OBVIOUS
<1>1. PICK i : /\ i = work[u] /\ i.at \in FactAts
               /\ i = [at |-> i.at, fact |-> i.fact, row |-> i.row, todo |-> i.todo, alone |-> i.alone]
  BY FactJob DEF Fac!ITypeOK, FactAts
<1>2. PICK j : j = [i EXCEPT !.alone = FALSE]
  OBVIOUS
<1>3. j.at = i.at
  BY <1>1, <1>2
<1>4. work'[u] = w \/ work'[u] = j \/ work'[u] = i
  BY <1>1, <1>2 DEF Fac!Become
<1> QED BY <1>1, <1>3, <1>4

(* A step that writes neither facts nor evidence.                          *)
LEMMA FactQuietTypes ==
  ASSUME Fac!IInv, Fac!ITypeOK, NEW t \in Threads, NEW w, Fac!Become(t, w), w.at \in FactAts,
         UNCHANGED <<facts, evidence>>, posts' \in 0 .. MaxPosts
  PROVE  Fac!ITypeOK'
<1>1. \A u \in Threads : work'[u].at \in FactAts
  BY FactPlaces
<1>2. Fac!Known' = Fac!Known /\ \A f : Fac!Accepted(f)' = Fac!Accepted(f)
  BY DEF Fac!Known, Fac!Accepted, Fac!Refs
<1> QED BY <1>1, <1>2 DEF Fac!ITypeOK, FactAts

LEMMA FactPosts ==
  ASSUME Fac!ITypeOK, NEW t \in Threads
  PROVE  /\ Fac!Takes(t) => posts' \in 0 .. MaxPosts
         /\ UNCHANGED posts => posts' \in 0 .. MaxPosts
  BY BoundsAssumption DEF Fac!ITypeOK, Fac!Takes

LEMMA FactRequestTypes ==
  ASSUME Fac!IInv, Fac!ITypeOK, NEW t \in Threads,
         Fac!Create(t) \/ Fac!Update(t) \/ Fac!Extract(t) \/ Fac!Attach(t)
  PROVE  Fac!ITypeOK'
<1>1. Fac!Takes(t) /\ UNCHANGED <<facts, evidence>>
  BY DEF Fac!Create, Fac!Update, Fac!Extract, Fac!Attach, Fac!OnlyWork
<1>2. \E f, r, q : \/ Fac!Become(t, [Fac!Idle EXCEPT !.at = "save", !.row = r, !.todo = q])
                   \/ Fac!Become(t, [Fac!Idle EXCEPT !.at = "save", !.fact = f, !.row = r])
                   \/ Fac!Become(t, [Fac!Idle EXCEPT !.at = "save", !.fact = f, !.row = r, !.todo = q])
                   \/ Fac!Become(t, [Fac!Idle EXCEPT !.at = "insert", !.fact = f, !.todo = q])
  <2>1. CASE Fac!Create(t)
    BY <2>1 DEF Fac!Create
  <2>2. CASE Fac!Update(t)
    BY <2>2 DEF Fac!Update
  <2>3. CASE Fac!Extract(t)
    BY <2>3 DEF Fac!Extract
  <2>4. CASE Fac!Attach(t)
    BY <2>4 DEF Fac!Attach
  <2> QED BY <2>1, <2>2, <2>3, <2>4
<1>3. PICK w : Fac!Become(t, w) /\ w.at \in {"save", "insert"}
  <2>1. PICK f, r, q : \/ Fac!Become(t, [Fac!Idle EXCEPT !.at = "save", !.row = r, !.todo = q])
                       \/ Fac!Become(t, [Fac!Idle EXCEPT !.at = "save", !.fact = f, !.row = r])
                       \/ Fac!Become(t, [Fac!Idle EXCEPT !.at = "save", !.fact = f, !.row = r, !.todo = q])
                       \/ Fac!Become(t, [Fac!Idle EXCEPT !.at = "insert", !.fact = f, !.todo = q])
    BY <1>2
  <2>2. PICK a : a = [Fac!Idle EXCEPT !.at = "save", !.row = r, !.todo = q]
    OBVIOUS
  <2>3. PICK b : b = [Fac!Idle EXCEPT !.at = "save", !.fact = f, !.row = r]
    OBVIOUS
  <2>4. PICK c : c = [Fac!Idle EXCEPT !.at = "save", !.fact = f, !.row = r, !.todo = q]
    OBVIOUS
  <2>5. PICK d : d = [Fac!Idle EXCEPT !.at = "insert", !.fact = f, !.todo = q]
    OBVIOUS
  <2>6. a.at = "save" /\ b.at = "save" /\ c.at = "save" /\ d.at = "insert"
    BY <2>2, <2>3, <2>4, <2>5 DEF Fac!Idle
  <2>7. Fac!Become(t, a) \/ Fac!Become(t, b) \/ Fac!Become(t, c) \/ Fac!Become(t, d)
    BY <2>1, <2>2, <2>3, <2>4, <2>5
  <2> QED BY <2>6, <2>7
<1> QED BY <1>1, <1>3, FactPosts, FactQuietTypes DEF FactAts

(* The next thing a thread does, where it writes nothing.                  *)
LEMMA FactGoesOnTypes ==
  ASSUME Fac!IInv, Fac!ITypeOK, NEW t \in Threads,
         Fac!Compare(t) \/ Fac!Refuse(t) \/ Fac!Read(t) \/ Fac!Weigh(t) \/ Fac!Break(t)
  PROVE  Fac!ITypeOK'
<1>1. UNCHANGED <<facts, evidence, posts>>
  BY DEF Fac!Compare, Fac!Refuse, Fac!Read, Fac!Weigh, Fac!Break, Fac!Works, Fac!OnlyWork
<1>2. PICK i : /\ i = work[t]
               /\ i = [at |-> i.at, fact |-> i.fact, row |-> i.row, todo |-> i.todo, alone |-> i.alone]
  BY FactJob
<1>3. \E r, q : \/ Fac!Become(t, Fac!Idle)
                \/ Fac!Become(t, [i EXCEPT !.at = "insert", !.todo = q])
                \/ Fac!Become(t, [i EXCEPT !.at = "weigh", !.row = r])
                \/ Fac!Become(t, [i EXCEPT !.at = "write", !.row.verification = r])
  <2>1. CASE Fac!Compare(t)
    <3>1. PICK q : Fac!Become(t, IF q = <<>> THEN Fac!Idle ELSE [i EXCEPT !.at = "insert", !.todo = q])
      BY <1>2, <2>1 DEF Fac!Compare
    <3>2. Fac!Become(t, Fac!Idle) \/ Fac!Become(t, [i EXCEPT !.at = "insert", !.todo = q])
      BY <3>1
    <3> QED BY <3>2
  <2>2. CASE Fac!Refuse(t) \/ Fac!Break(t)
    BY <2>2 DEF Fac!Refuse, Fac!Break
  <2>3. CASE Fac!Read(t)
    BY <1>2, <2>3 DEF Fac!Read
  <2>4. CASE Fac!Weigh(t)
    BY <1>2, <2>4 DEF Fac!Weigh
  <2> QED BY <2>1, <2>2, <2>3, <2>4
<1>4. \A r, q : /\ Fac!Idle.at = "idle"
                /\ [i EXCEPT !.at = "insert", !.todo = q].at = "insert"
                /\ [i EXCEPT !.at = "weigh", !.row = r].at = "weigh"
                /\ [i EXCEPT !.at = "write", !.row.verification = r].at = "write"
  BY <1>2 DEF Fac!Idle
<1>5. PICK w : Fac!Become(t, w) /\ w.at \in FactAts
  BY <1>3, <1>4 DEF FactAts
<1> QED BY <1>1, <1>5, FactPosts, FactQuietTypes

(* A row is written, and a new fact has no evidence yet.                   *)
LEMMA FactSaveTypes == ASSUME Fac!IInv, Fac!ITypeOK, NEW t \in Threads, Fac!Save(t) PROVE Fac!ITypeOK'
<1>1. PICK i : /\ i = work[t] /\ i.row \in Fac!Rows
               /\ i = [at |-> i.at, fact |-> i.fact, row |-> i.row, todo |-> i.todo, alone |-> i.alone]
               /\ i.fact \in {0} \cup Fac!Known
  BY FactJob
<1>2. PICK n \in Nat : n = Len(facts) /\ Fac!Known = 1 .. n
  BY FactEvidence
<1>3. PICK f : f = IF i.fact = 0 THEN n + 1 ELSE i.fact
  OBVIOUS
<1>4. /\ f <= MaxFacts /\ UNCHANGED posts
      /\ facts' = IF f \in Fac!Known THEN [facts EXCEPT ![f] = i.row] ELSE Append(facts, i.row)
      /\ evidence' = IF f \in Fac!Known THEN evidence ELSE Append(evidence, <<>>)
      /\ Fac!Become(t, IF i.todo = <<>> THEN Fac!Idle
                       ELSE [i EXCEPT !.at = "compare", !.fact = f, !.alone = FALSE])
  BY <1>1, <1>2, <1>3 DEF Fac!Save, Fac!Works
<1>5. PICK w : Fac!Become(t, w) /\ w.at \in FactAts
  <2>1. PICK z : z = [i EXCEPT !.at = "compare", !.fact = f, !.alone = FALSE]
    OBVIOUS
  <2>2. z.at = "compare" /\ Fac!Idle.at = "idle"
    BY <1>1, <2>1 DEF Fac!Idle
  <2>3. Fac!Become(t, Fac!Idle) \/ Fac!Become(t, z)
    BY <1>4, <2>1
  <2> QED BY <2>2, <2>3 DEF FactAts
<1>6. \A u \in Threads : work'[u].at \in FactAts
  BY <1>5, FactPlaces
<1>7. posts' \in 0 .. MaxPosts
  BY <1>4, FactPosts
<1>8. PICK m : m = evidence'
  OBVIOUS
<1>9. CASE f \in Fac!Known
  <2>1. facts' = [facts EXCEPT ![f] = i.row] /\ m = evidence
    BY <1>4, <1>8, <1>9
  <2>2. Len(facts') = n
    BY <1>2, <2>1 DEF Fac!IInv
  <2>3. Fac!Known' = Fac!Known
    BY <1>2, <2>2 DEF Fac!Known
  <2>4. \A g : Fac!Accepted(g)' = Fac!Accepted(g)
    BY <1>8, <2>1 DEF Fac!Accepted, Fac!Refs
  <2> QED BY <1>2, <1>6, <1>7, <1>8, <2>1, <2>2, <2>3, <2>4, FactEvidence DEF Fac!ITypeOK, FactAts
<1>10. CASE f \notin Fac!Known
  <2>1. facts' = Append(facts, i.row) /\ m = Append(evidence, <<>>) /\ f = n + 1
    BY <1>1, <1>2, <1>3, <1>4, <1>8, <1>10
  <2>2. Len(facts') = n + 1 /\ n + 1 <= MaxFacts
    BY <1>1, <1>2, <1>4, <2>1 DEF Fac!IInv
  <2>3. Fac!Known' = 1 .. n + 1
    BY <2>2 DEF Fac!Known
  <2>4. PICK all : all = {evidence[g] : g \in 1 .. n} \cup {<<>>}
    OBVIOUS
  <2>5. evidence \in Seq(all) /\ Len(evidence) = n
    BY <1>2, <2>4, FactEvidence
  <2>6. m \in Seq(all) /\ Len(m) = n + 1 /\ (\A g \in 1 .. n : m[g] = evidence[g]) /\ m[n + 1] = <<>>
    BY <1>2, <2>1, <2>4, <2>5
  <2>7. m \in Seq({m[g] : g \in 1 .. n + 1})
    <3>1. m = [g \in 1 .. n + 1 |-> m[g]]
      BY <1>2, <2>6
    <3>2. m \in [1 .. n + 1 -> {m[g] : g \in 1 .. n + 1}]
      BY <3>1
    <3> QED BY <1>2, <3>2
  <2>8. ASSUME NEW g \in 1 .. n + 1 PROVE m[g] \in Seq(Fac!Accepted(g)')
    <3>1. CASE g \in 1 .. n
      <4>1. m[g] = evidence[g] /\ evidence[g] \in Seq(Fac!Accepted(g))
        BY <1>2, <2>6, <3>1, FactEvidence
      <4>2. Fac!Accepted(g)' = Fac!Accepted(g)
        BY <1>8, <4>1 DEF Fac!Accepted, Fac!Refs
      <4> QED BY <4>1, <4>2
    <3>2. CASE g = n + 1
      <4>1. m[g] = <<>>
        BY <2>6, <3>2
      <4>2. \A S : <<>> \in Seq(S)
        OBVIOUS
      <4> QED BY <4>1, <4>2
    <3> QED BY <1>2, <3>1, <3>2
  <2> QED BY <1>6, <1>7, <1>8, <2>2, <2>3, <2>6, <2>7, <2>8 DEF Fac!ITypeOK, FactAts
<1> QED BY <1>9, <1>10

(* One more piece of evidence, of a kind of source that may have its role. *)
LEMMA FactInsertTypes == ASSUME Fac!IInv, Fac!ITypeOK, NEW t \in Threads, Fac!Insert(t) PROVE Fac!ITypeOK'
<1>1. PICK i, f : /\ i = work[t] /\ f = i.fact /\ f \in Fac!Known
                  /\ i = [at |-> i.at, fact |-> i.fact, row |-> i.row, todo |-> i.todo, alone |-> i.alone]
  BY FactJob DEF Fac!Insert, Fac!Works
<1>2. PICK n \in Nat : n = Len(facts) /\ Fac!Known = 1 .. n
  BY FactEvidence
<1>3. PICK e : e = Head(i.todo)
  OBVIOUS
<1>4. /\ evidence' = [evidence EXCEPT ![f] = Append(@, e)] /\ ~Fac!Refused(e) /\ UNCHANGED <<facts, posts>>
      /\ Fac!Become(t, [i EXCEPT !.at = "read", !.todo = Tail(@), !.alone = Fac!Alone(t, f)])
  BY <1>1, <1>3 DEF Fac!Insert, Fac!Works
<1>5. PICK w : w = [i EXCEPT !.at = "read", !.todo = Tail(@), !.alone = Fac!Alone(t, f)]
  OBVIOUS
<1>6. w.at = "read"
  BY <1>1, <1>5
<1>7. \A u \in Threads : work'[u].at \in FactAts
  <2>1. Fac!Become(t, w) /\ w.at \in FactAts
    BY <1>4, <1>5, <1>6 DEF FactAts
  <2> QED BY <2>1, FactPlaces
<1>8. Fac!Known' = Fac!Known
  BY <1>4 DEF Fac!Known
<1>9. PICK s : s = Append(evidence[f], e)
  OBVIOUS
<1>10. PICK m : m = evidence' /\ m = [evidence EXCEPT ![f] = s]
  BY <1>4, <1>9
<1>11. evidence \in Seq({evidence[g] : g \in 1 .. n}) /\ Len(evidence) = n
  BY <1>2, FactEvidence
<1>12. /\ DOMAIN m = 1 .. n /\ m[f] = s /\ \A g \in 1 .. n : g # f => m[g] = evidence[g]
       /\ m = [g \in 1 .. n |-> m[g]]
  <2>1. /\ f \in 1 .. n /\ DOMAIN evidence = 1 .. n
    BY <1>1, <1>2, <1>11
  <2>2. DOMAIN m = 1 .. n /\ m[f] = s /\ \A g \in 1 .. n : g # f => m[g] = evidence[g]
    BY <1>10, <2>1
  <2>3. m = [g \in DOMAIN evidence |-> IF g = f THEN s ELSE evidence[g]]
    BY <1>10
  <2>4. m = [g \in 1 .. n |-> m[g]]
    BY <2>1, <2>3
  <2> QED BY <2>2, <2>4
<1>13. m \in Seq({m[g] : g \in 1 .. n}) /\ Len(m) = n
  <2>1. m \in [1 .. n -> {m[g] : g \in 1 .. n}]
    BY <1>12
  <2> QED BY <1>2, <2>1
<1>14. ASSUME NEW g \in 1 .. n PROVE m[g] \in Seq(Fac!Accepted(g)')
  <2>1. evidence[g] \in Seq(Fac!Accepted(g))
    BY <1>2, FactEvidence
  <2>2. CASE g # f
    <3>1. Fac!Accepted(g)' = Fac!Accepted(g)
      BY <1>10, <1>12, <2>2 DEF Fac!Accepted, Fac!Refs
    <3> QED BY <1>12, <2>1, <2>2, <3>1
  <2>3. CASE g = f
    <3>1. PICK k \in Nat : k = Len(evidence[f])
      BY <2>1, <2>3
    <3>2. evidence[f] \in Seq(Fac!Accepted(f) \cup {e})
      BY <2>1, <2>3
    <3>3. s \in Seq(Fac!Accepted(f) \cup {e}) /\ Len(s) = k + 1
      BY <1>9, <3>1, <3>2
    <3>4. \A j \in 1 .. k + 1 : s[j] \in Fac!Accepted(f) \cup {e}
      BY <3>1, <3>3
    <3>5. \A j \in 1 .. k + 1 : s[j] \in Fac!Accepted(f)'
      <4>1. \A x \in Fac!Accepted(f) \cup {e} : ~Fac!Refused(x)
        BY <1>4 DEF Fac!Accepted
      <4>2. Fac!Refs(f)' = {s[j] : j \in 1 .. k + 1}
        BY <1>10, <1>12, <2>3, <3>3 DEF Fac!Refs
      <4> QED BY <3>4, <4>1, <4>2 DEF Fac!Accepted
    <3>6. s \in Seq(Fac!Accepted(f)')
      <4>1. s = [j \in 1 .. k + 1 |-> s[j]]
        BY <3>1, <3>3
      <4>2. s \in [1 .. k + 1 -> Fac!Accepted(f)']
        BY <3>5, <4>1
      <4> QED BY <3>1, <4>2
    <3> QED BY <1>12, <2>3, <3>6
  <2> QED BY <2>2, <2>3
<1>15. posts' \in 0 .. MaxPosts
  BY <1>4, FactPosts
<1>16. Len(facts') = n /\ n <= MaxFacts
  BY <1>2, <1>4, FactEvidence
<1>17. evidence' \in Seq({evidence'[g] : g \in Fac!Known'}) /\ Len(evidence') = n
  BY <1>2, <1>8, <1>10, <1>13
<1>18. \A g \in Fac!Known' : evidence'[g] \in Seq(Fac!Accepted(g)')
  BY <1>2, <1>8, <1>10, <1>14
<1> QED BY <1>7, <1>15, <1>16, <1>17, <1>18 DEF Fac!ITypeOK, FactAts

LEMMA FactWriteBackTypes == ASSUME Fac!IInv, Fac!ITypeOK, NEW t \in Threads, Fac!WriteBack(t) PROVE Fac!ITypeOK'
<1>1. PICK i : /\ i = work[t]
               /\ i = [at |-> i.at, fact |-> i.fact, row |-> i.row, todo |-> i.todo, alone |-> i.alone]
  BY FactJob
<1>2. /\ facts' = [facts EXCEPT ![i.fact] = i.row] /\ UNCHANGED <<evidence, posts>>
      /\ Fac!Become(t, IF i.todo = <<>> THEN Fac!Idle ELSE [i EXCEPT !.at = "insert"])
  BY <1>1 DEF Fac!WriteBack, Fac!Works
<1>3. PICK w : Fac!Become(t, w) /\ w.at \in FactAts
  <2>1. PICK z : z = [i EXCEPT !.at = "insert"]
    OBVIOUS
  <2>2. z.at = "insert" /\ Fac!Idle.at = "idle"
    BY <1>1, <2>1 DEF Fac!Idle
  <2>3. Fac!Become(t, Fac!Idle) \/ Fac!Become(t, z)
    BY <1>2, <2>1
  <2> QED BY <2>2, <2>3 DEF FactAts
<1>4. \A u \in Threads : work'[u].at \in FactAts
  BY <1>3, FactPlaces
<1>5. Len(facts') = Len(facts) /\ Fac!Known' = Fac!Known
  <2>1. facts \in Seq(Fac!Rows)
    BY DEF Fac!IInv
  <2>2. Len(facts') = Len(facts)
    BY <1>2, <2>1
  <2> QED BY <2>2 DEF Fac!Known
<1>6. \A f : Fac!Accepted(f)' = Fac!Accepted(f)
  BY <1>2 DEF Fac!Accepted, Fac!Refs
<1>7. posts' \in 0 .. MaxPosts
  BY <1>2, FactPosts
<1> QED BY <1>2, <1>4, <1>5, <1>6, <1>7 DEF Fac!ITypeOK, FactAts

LEMMA FactNextTypes ==
  ASSUME Fac!IInv, Fac!ITypeOK, [Fac!Next]_(Fac!vars)
  PROVE  Fac!ITypeOK'
<1>1. CASE UNCHANGED Fac!vars
  <2>1. Fac!Known' = Fac!Known /\ \A f : Fac!Accepted(f)' = Fac!Accepted(f)
    BY <1>1 DEF Fac!vars, Fac!Known, Fac!Accepted, Fac!Refs
  <2> QED BY <1>1, <2>1 DEF Fac!vars, Fac!ITypeOK
<1>2. ASSUME NEW t \in Threads,
             \/ Fac!Create(t) \/ Fac!Update(t) \/ Fac!Extract(t) \/ Fac!Attach(t)
             \/ Fac!Compare(t) \/ Fac!Refuse(t) \/ Fac!Read(t) \/ Fac!Weigh(t) \/ Fac!Break(t)
      PROVE  Fac!ITypeOK'
  BY <1>2, FactRequestTypes, FactGoesOnTypes
<1>3. ASSUME NEW t \in Threads, Fac!Save(t) \/ Fac!Insert(t) \/ Fac!WriteBack(t) PROVE Fac!ITypeOK'
  BY <1>3, FactSaveTypes, FactInsertTypes, FactWriteBackTypes
<1> QED BY <1>1, <1>2, <1>3 DEF Fac!Next

-----------------------------------------------------------------------------
(* The rows of the registry, and where a thread that works at it may be.   *)
RegistryOK ==
  /\ competitors \in Seq(Cmp!CompetitorRows) /\ Len(competitors) <= MaxCompetitors
  /\ \A c, d \in Cmp!Live : competitors[c].name = competitors[d].name => c = d
  /\ products \in Seq([of : Cmp!Ids, there : BOOLEAN])
  /\ \A p \in Cmp!Offered : products[p].of \in Cmp!Live
  /\ links \subseteq FactNames \X Cmp!Live /\ productLinks \subseteq FactNames \X Cmp!Offered
  /\ texts \in [FactNames -> FactTexts] /\ stated \in [FactNames -> SUBSET FactTexts]
  /\ byName \subseteq FactNames \X Cmp!Live \X FactTexts /\ \A l \in byName : <<l[1], l[2]>> \in links
  /\ claims \in Seq(Cmp!Claims)
LinkingAts == {"idle", "saveCompetitor", "product", "one", "saveFact", "facts", "fact", "links", "checkClaim",
               "saveClaim"}

LEMMA CompetitorTypes ==
  Cmp!ITypeOK <=> RegistryOK /\ \A t \in Threads : linking[t].at \in LinkingAts /\ Cmp!JobOK(linking[t])
  BY DEF Cmp!ITypeOK, Cmp!TypeOK, RegistryOK, LinkingAts, Cmp!Claims

LEMMA CompetitorIdleOK == Cmp!Idle.at \in LinkingAts /\ Cmp!JobOK(Cmp!Idle)
<1>1. Cmp!NoClaim \in Cmp!Claims
  BY DEF Cmp!NoClaim, Cmp!Claims
<1>2. PICK k : k = Cmp!NoClaim
  OBVIOUS
<1>3. PICK w : /\ w = Cmp!Idle
               /\ w = [at |-> "idle", id |-> 0, row |-> Cmp!NoCompetitor, claim |-> k, listed |-> <<>>,
                       linked |-> {}, had |-> {}, rest |-> {}, todo |-> {}, before |-> {}, found |-> {},
                       texts |-> <<>>]
  BY <1>2 DEF Cmp!Idle
<1>4. Cmp!JobOK(w) /\ w.at = "idle"
  BY <1>1, <1>2, <1>3 DEF Cmp!JobOK
<1> QED BY <1>3, <1>4 DEF LinkingAts

LEMMA CompetitorInitTypes == Cmp!Init => Cmp!ITypeOK
<1> SUFFICES ASSUME Cmp!Init PROVE Cmp!ITypeOK
  OBVIOUS
<1>1. /\ competitors = <<>> /\ products = <<>> /\ links = {} /\ productLinks = {} /\ claims = <<>> /\ byName = {}
      /\ linking = [t \in Threads |-> Cmp!Idle]
  BY DEF Cmp!Init
<1>2. Cmp!Live = {} /\ Cmp!Offered = {} /\ Len(competitors) = 0
  BY <1>1 DEF Cmp!Live, Cmp!Offered, Cmp!Ids
<1>3. RegistryOK
  BY <1>1, <1>2, BoundsAssumption DEF RegistryOK, Cmp!Init
<1> QED BY <1>1, <1>3, CompetitorIdleOK, CompetitorTypes

(* What is known of the rows, one by one.                                  *)
LEMMA RegistryRows ==
  ASSUME RegistryOK
  PROVE  /\ Len(competitors) \in Nat /\ Cmp!Ids = 1 .. Len(competitors) /\ Len(products) \in Nat
         /\ Cmp!Live \subseteq Cmp!Ids /\ Cmp!Ids \subseteq Nat /\ Cmp!Offered \subseteq Nat
         /\ \A c \in Cmp!Ids : competitors[c] \in Cmp!CompetitorRows
         /\ \A p \in 1 .. Len(products) : products[p] \in [of : Cmp!Ids, there : BOOLEAN]
<1>1. PICK n \in Nat : n = Len(competitors)
  BY DEF RegistryOK
<1>2. PICK m \in Nat : m = Len(products)
  BY DEF RegistryOK
<1>3. Cmp!Ids = 1 .. n /\ Cmp!Live \subseteq 1 .. n /\ Cmp!Offered \subseteq 1 .. m
  BY <1>1, <1>2 DEF Cmp!Ids, Cmp!Live, Cmp!Offered
<1>4. \A c \in 1 .. n : competitors[c] \in Cmp!CompetitorRows
  BY <1>1 DEF RegistryOK
<1>5. \A p \in 1 .. m : products[p] \in [of : Cmp!Ids, there : BOOLEAN]
  <2>1. PICK R : R = [of : Cmp!Ids, there : BOOLEAN]
    OBVIOUS
  <2>2. products \in Seq(R)
    BY <2>1 DEF RegistryOK
  <2>3. \A p \in 1 .. m : products[p] \in R
    BY <1>2, <2>2
  <2> QED BY <2>1, <2>3
<1> QED BY <1>1, <1>2, <1>3, <1>4, <1>5

(* A thread goes on, and what the others will write stays what it was.     *)
LEMMA CompetitorMoves ==
  ASSUME Cmp!IInv, Cmp!ITypeOK, NEW t \in Threads, NEW w, linking' = [linking EXCEPT ![t] = w],
         w.at \in LinkingAts, Cmp!JobOK(w), Cmp!Ids \subseteq Cmp!Ids', RegistryOK'
  PROVE  Cmp!ITypeOK'
<1>1. ASSUME NEW i, Cmp!JobOK(i) PROVE Cmp!JobOK(i)'
  <2>1. \A k : k \in Cmp!Claims => k \in Cmp!Claims'
    BY DEF Cmp!Claims
  <2> QED BY <1>1, <2>1 DEF Cmp!JobOK
<1>2. ASSUME NEW u \in Threads PROVE linking'[u].at \in LinkingAts /\ Cmp!JobOK(linking[u])'
  <2>1. PICK i : i = linking'[u]
    OBVIOUS
  <2>2. i = w \/ i = linking[u]
    BY <2>1 DEF Cmp!IInv
  <2>3. i.at \in LinkingAts /\ Cmp!JobOK(i)
    BY <2>2, CompetitorTypes
  <2>4. Cmp!JobOK(i)'
    BY <1>1, <2>3
  <2> QED BY <2>1, <2>3, <2>4 DEF Cmp!JobOK
<1> QED BY <1>2 DEF Cmp!ITypeOK, Cmp!TypeOK, RegistryOK, LinkingAts, Cmp!Claims

LEMMA CompetitorStays ==
  ASSUME Cmp!IInv, Cmp!ITypeOK, UNCHANGED linking, Cmp!Ids \subseteq Cmp!Ids', RegistryOK'
  PROVE  Cmp!ITypeOK'
<1>1. ASSUME NEW u \in Threads PROVE linking'[u].at \in LinkingAts /\ Cmp!JobOK(linking[u])'
  <2>1. linking[u].at \in LinkingAts /\ Cmp!JobOK(linking[u])
    BY CompetitorTypes
  <2>2. \A k : k \in Cmp!Claims => k \in Cmp!Claims'
    BY DEF Cmp!Claims
  <2> QED BY <2>1, <2>2 DEF Cmp!JobOK
<1> QED BY <1>1 DEF Cmp!ITypeOK, Cmp!TypeOK, RegistryOK, LinkingAts, Cmp!Claims

(* A step that writes no row.                                              *)
LEMMA CompetitorQuietTypes ==
  ASSUME Cmp!IInv, Cmp!ITypeOK, NEW t \in Threads, NEW w, Cmp!Become(t, w),
         UNCHANGED <<competitors, products, links, productLinks, texts, stated, byName, claims>>,
         w.at \in LinkingAts, Cmp!JobOK(w)
  PROVE  Cmp!ITypeOK'
<1>1. RegistryOK' /\ Cmp!Ids' = Cmp!Ids
  BY CompetitorTypes DEF RegistryOK, Cmp!Ids, Cmp!Live, Cmp!Offered, Cmp!Claims
<1> QED BY <1>1, CompetitorMoves DEF Cmp!Become

(* save_competitor: names stay unique, and no row that was there is gone.  *)
LEMMA CompetitorUpsertTypes ==
  ASSUME Cmp!IInv, RegistryOK, NEW id, NEW r \in Cmp!CompetitorRows, r.there, Cmp!Upsert(id, r),
         Len(competitors') <= MaxCompetitors, UNCHANGED <<products, links, productLinks, texts, stated, byName, claims>>
  PROVE  RegistryOK' /\ Cmp!Ids \subseteq Cmp!Ids'
<1>1. PICK now, n, same : /\ now = competitors' /\ n = Len(competitors)
                          /\ same = {c \in Cmp!Live : competitors[c].name = r.name}
  OBVIOUS
<1>2. n \in Nat /\ Cmp!Ids = 1 .. n /\ competitors \in Seq(Cmp!CompetitorRows)
  BY <1>1, RegistryRows DEF RegistryOK
<1>3. now = IF same = {} THEN Append(competitors, r)
            ELSE [c \in 1 .. n |-> IF c \in same THEN r ELSE competitors[c]]
  BY <1>1, <1>2 DEF Cmp!Upsert
<1>4. now \in Seq(Cmp!CompetitorRows) /\ n <= Len(now)
  BY <1>1, CompetitorUpsert
<1>5. PICK m \in Nat : m = Len(now) /\ Cmp!Ids' = 1 .. m /\ n <= m
  BY <1>1, <1>4 DEF Cmp!Ids
<1>6. Cmp!Live \subseteq Cmp!Live' /\ \A c, d \in Cmp!Live' : now[c].name = now[d].name => c = d
  <2>1. CASE same = {}
    <3>1. /\ now = Append(competitors, r) /\ m = n + 1
          /\ now[n + 1] = r /\ \A c \in 1 .. n : now[c] = competitors[c]
      <4>1. now = Append(competitors, r)
        BY <1>3, <2>1
      <4> QED BY <1>1, <1>2, <1>5, <4>1
    <3>2. Cmp!Live' = Cmp!Live \cup {n + 1}
      BY <1>1, <1>2, <1>5, <3>1 DEF Cmp!Live
    <3>3. \A c \in Cmp!Live : now[c] = competitors[c] /\ competitors[c].name # r.name
      BY <1>1, <1>2, <2>1, <3>1 DEF Cmp!Live
    <3>4. \A c \in Cmp!Live : now[c].name # r.name
      BY <3>3
    <3>5. \A c, d \in Cmp!Live : now[c].name = now[d].name => c = d
      BY <3>3 DEF RegistryOK
    <3>6. ASSUME NEW c \in Cmp!Live \cup {n + 1}, NEW d \in Cmp!Live \cup {n + 1}, now[c].name = now[d].name
          PROVE  c = d
      <4>1. CASE c \in Cmp!Live /\ d \in Cmp!Live
        BY <3>5, <3>6, <4>1
      <4>2. CASE c = n + 1
        BY <3>1, <3>4, <3>6, <4>2
      <4>3. CASE d = n + 1
        BY <3>1, <3>4, <3>6, <4>3
      <4> QED BY <4>1, <4>2, <4>3
    <3> QED BY <3>2, <3>6
  <2>2. CASE same # {}
    <3>1. now = [c \in 1 .. n |-> IF c \in same THEN r ELSE competitors[c]]
      BY <1>3, <2>2
    <3>2. m = n
      BY <1>2, <1>5, <3>1
    <3>3. \A c \in 1 .. n : /\ now[c].there = competitors[c].there /\ now[c].name = competitors[c].name
      BY <1>1, <1>2, <3>1 DEF Cmp!Live, Cmp!CompetitorRows
    <3>4. Cmp!Live' = Cmp!Live
      BY <1>1, <1>2, <1>5, <3>2, <3>3 DEF Cmp!Live
    <3>5. \A c \in Cmp!Live : now[c].name = competitors[c].name
      BY <1>2, <3>3 DEF Cmp!Live
    <3> QED BY <3>4, <3>5 DEF RegistryOK
  <2> QED BY <2>1, <2>2
<1>7. Cmp!Ids \subseteq Cmp!Ids'
  BY <1>2, <1>5
<1>8. products \in Seq([of : Cmp!Ids', there : BOOLEAN]) /\ claims \in Seq(Cmp!Claims')
  <2>1. [of : Cmp!Ids, there : BOOLEAN] \subseteq [of : Cmp!Ids', there : BOOLEAN]
    BY <1>7
  <2>2. Cmp!Claims \subseteq Cmp!Claims'
    BY <1>7 DEF Cmp!Claims
  <2>3. \A S, T, s : S \subseteq T /\ s \in Seq(S) => s \in Seq(T)
    OBVIOUS
  <2> QED BY <2>1, <2>2, <2>3 DEF RegistryOK
<1>9. Cmp!Offered' = Cmp!Offered
  BY DEF Cmp!Offered
<1> QED BY <1>1, <1>4, <1>6, <1>7, <1>8, <1>9 DEF RegistryOK

LEMMA CompetitorCreateTypes ==
  ASSUME Cmp!IInv, Cmp!ITypeOK, NEW t \in Threads, Cmp!CreateCompetitor(t) PROVE Cmp!ITypeOK'
<1>1. PICK n \in Names, a \in SUBSET Aliases : Cmp!Upsert(0, [Cmp!NoCompetitor EXCEPT !.name = n, !.aliases = a])
  BY DEF Cmp!CreateCompetitor
<1>2. PICK r : r = [Cmp!NoCompetitor EXCEPT !.name = n, !.aliases = a]
  OBVIOUS
<1>3. r = [name |-> n, aliases |-> a, status |-> "active", there |-> TRUE]
  BY <1>2 DEF Cmp!NoCompetitor
<1>4. r \in Cmp!CompetitorRows /\ r.there
  BY <1>3 DEF Cmp!CompetitorRows
<1>5. Len(competitors') <= MaxCompetitors /\ UNCHANGED <<products, links, productLinks, texts, stated, byName, claims, linking>>
  BY DEF Cmp!CreateCompetitor, Cmp!Links, Cmp!Wording
<1>6. Cmp!Upsert(0, r)
  BY <1>1, <1>2
<1> QED BY <1>4, <1>5, <1>6, CompetitorTypes, CompetitorUpsertTypes, CompetitorStays

LEMMA CompetitorSaveTypes ==
  ASSUME Cmp!IInv, Cmp!ITypeOK, NEW t \in Threads, Cmp!SaveCompetitor(t) PROVE Cmp!ITypeOK'
<1>1. linking[t].row \in Cmp!CompetitorRows /\ linking[t].row.there /\ Cmp!Upsert(linking[t].id, linking[t].row)
  <2>1. Cmp!WorkOK(linking[t]) /\ Cmp!JobOK(linking[t]) /\ linking[t].at = "saveCompetitor"
    BY CompetitorTypes DEF Cmp!SaveCompetitor, Cmp!Works, Cmp!IInv
  <2> QED BY <2>1 DEF Cmp!SaveCompetitor, Cmp!WorkOK, Cmp!JobOK
<1>2. /\ linking' = [linking EXCEPT ![t] = Cmp!Idle] /\ Len(competitors') <= MaxCompetitors
      /\ UNCHANGED <<products, links, productLinks, texts, stated, byName, claims>>
  BY DEF Cmp!SaveCompetitor, Cmp!Become, Cmp!Links, Cmp!Wording
<1>3. RegistryOK' /\ Cmp!Ids \subseteq Cmp!Ids'
  BY <1>1, <1>2, CompetitorTypes, CompetitorUpsertTypes
<1> QED BY <1>2, <1>3, CompetitorIdleOK, CompetitorMoves

LEMMA CompetitorReadTypes ==
  ASSUME Cmp!IInv, Cmp!ITypeOK, NEW t \in Threads, Cmp!ReadCompetitor(t) PROVE Cmp!ITypeOK'
<1>1. PICK c \in Cmp!Live, n \in Names, a \in SUBSET Aliases, s \in {"active", "inactive"} :
        Cmp!Become(t, [Cmp!Idle EXCEPT !.at = "saveCompetitor", !.id = c,
                         !.row = [name |-> n, aliases |-> a, status |-> s, there |-> TRUE]])
  BY DEF Cmp!ReadCompetitor
<1>2. PICK r : r = [name |-> n, aliases |-> a, status |-> s, there |-> TRUE]
  OBVIOUS
<1>3. PICK w : w = [Cmp!Idle EXCEPT !.at = "saveCompetitor", !.id = c, !.row = r]
  OBVIOUS
<1>4. w = [at |-> "saveCompetitor", id |-> c, row |-> r, claim |-> Cmp!NoClaim, listed |-> <<>>, linked |-> {},
           had |-> {}, rest |-> {}, todo |-> {}, before |-> {}, found |-> {}, texts |-> <<>>]
  BY <1>3 DEF Cmp!Idle
<1>5. Cmp!NoClaim \in Cmp!Claims
  BY DEF Cmp!NoClaim, Cmp!Claims
<1>6. PICK k : k = Cmp!NoClaim
  OBVIOUS
<1>7. /\ w.at = "saveCompetitor" /\ w.row = r /\ r.there /\ w.claim = k
      /\ w.rest = {} /\ w.todo = {} /\ w.before = {} /\ w.found = {}
  BY <1>2, <1>4, <1>6
<1>8. Cmp!JobOK(w) /\ w.at \in LinkingAts
  BY <1>5, <1>6, <1>7 DEF Cmp!JobOK, LinkingAts
<1>9. Cmp!Become(t, w)
  BY <1>1, <1>2, <1>3
<1>10. UNCHANGED <<competitors, products, links, productLinks, texts, stated, byName, claims>>
  BY DEF Cmp!ReadCompetitor, Cmp!Registry, Cmp!Links, Cmp!Wording
<1> QED BY <1>8, <1>9, <1>10, CompetitorQuietTypes

(* A competitor is deleted with its products and all links to them.        *)
LEMMA CompetitorDeleteTypes ==
  ASSUME Cmp!IInv, Cmp!ITypeOK, NEW t \in Threads, Cmp!DeleteCompetitor(t) PROVE Cmp!ITypeOK'
<1>1. RegistryOK
  BY CompetitorTypes
<1>2. PICK c \in Cmp!Live :
        /\ competitors' = [competitors EXCEPT ![c].there = FALSE]
        /\ products' = [p \in 1 .. Len(products) |-> [products[p] EXCEPT !.there = @ /\ products[p].of # c]]
        /\ links' = {l \in links : l[2] # c} /\ byName' = {l \in byName : l[2] # c}
        /\ productLinks' = {l \in productLinks : l[2] \notin Cmp!OfCompetitor(c)}
        /\ UNCHANGED <<claims, linking, texts, stated>>
  BY DEF Cmp!DeleteCompetitor, Cmp!Wording
<1>3. PICK n, m : n = Len(competitors) /\ m = Len(products)
  OBVIOUS
<1>4. n \in Nat /\ m \in Nat /\ Cmp!Ids = 1 .. n /\ c \in 1 .. n
  BY <1>1, <1>3, RegistryRows
<1>5. PICK k : k = competitors[c] /\ k \in Cmp!CompetitorRows
  BY <1>1, <1>4, RegistryRows
<1>6. PICK r : r = [k EXCEPT !.there = FALSE]
  OBVIOUS
<1>7. r \in Cmp!CompetitorRows /\ ~r.there /\ r.name = k.name
  BY <1>5, <1>6 DEF Cmp!CompetitorRows
<1>8. PICK now : now = competitors' /\ now = [competitors EXCEPT ![c] = r]
  BY <1>2, <1>5, <1>6
<1>9. /\ now \in Seq(Cmp!CompetitorRows) /\ Len(now) = n /\ now[c] = r
      /\ \A d \in 1 .. n : d # c => now[d] = competitors[d]
  BY <1>1, <1>3, <1>4, <1>7, <1>8 DEF RegistryOK
<1>10. Cmp!Ids' = Cmp!Ids /\ Cmp!Live' = Cmp!Live \ {c}
  BY <1>4, <1>7, <1>8, <1>9 DEF Cmp!Ids, Cmp!Live
<1>11. \A d, e \in Cmp!Live' : now[d].name = now[e].name => d = e
  <2>1. \A d \in Cmp!Live' : d \in Cmp!Live /\ now[d] = competitors[d]
    BY <1>4, <1>9, <1>10 DEF Cmp!Live
  <2> QED BY <1>1, <2>1 DEF RegistryOK
<1>12. PICK R : R = [of : Cmp!Ids, there : BOOLEAN]
  OBVIOUS
<1>13. PICK q : q = products' /\ q = [p \in 1 .. m |-> [products[p] EXCEPT !.there = @ /\ products[p].of # c]]
  BY <1>2, <1>3
<1>14. ASSUME NEW p \in 1 .. m
       PROVE  q[p] \in R /\ q[p].of = products[p].of /\ (q[p].there <=> products[p].there /\ products[p].of # c)
  <2>1. PICK x : x = products[p] /\ x \in R
    BY <1>1, <1>3, <1>12, RegistryRows
  <2>2. PICK b \in BOOLEAN : b <=> x.there /\ x.of # c
    OBVIOUS
  <2>3. x.there \in BOOLEAN
    BY <1>12, <2>1
  <2>4. q[p] = [x EXCEPT !.there = b]
    <3>1. q[p] = [x EXCEPT !.there = x.there /\ x.of # c]
      BY <1>13, <2>1
    <3>2. b = (x.there /\ x.of # c)
      BY <2>2, <2>3
    <3> QED BY <3>1, <3>2
  <2> QED BY <1>12, <2>1, <2>2, <2>4
<1>15. q \in Seq(R) /\ Len(q) = m
  <2>1. q = [p \in 1 .. m |-> q[p]]
    BY <1>13
  <2>2. q \in [1 .. m -> R]
    BY <1>14, <2>1
  <2> QED BY <1>4, <2>2
<1>16. Cmp!Offered' = Cmp!Offered \ Cmp!OfCompetitor(c)
  BY <1>3, <1>13, <1>14, <1>15 DEF Cmp!Offered, Cmp!OfCompetitor
<1>17. \A p \in Cmp!Offered' : q[p].of \in Cmp!Live'
  <2>1. \A p \in Cmp!Offered' : p \in Cmp!Offered /\ products[p].of # c /\ q[p].of = products[p].of
    BY <1>3, <1>14, <1>16 DEF Cmp!Offered, Cmp!OfCompetitor
  <2> QED BY <1>1, <1>10, <2>1 DEF RegistryOK
<1>18. /\ links' \subseteq FactNames \X Cmp!Live'
       /\ byName' \subseteq FactNames \X Cmp!Live' \X FactTexts /\ \A l \in byName' : <<l[1], l[2]>> \in links'
  BY <1>1, <1>2, <1>10 DEF RegistryOK
<1>19. productLinks' \subseteq FactNames \X Cmp!Offered'
  BY <1>1, <1>2, <1>16 DEF RegistryOK
<1>20. claims' \in Seq(Cmp!Claims')
  <2>1. Cmp!Claims' = Cmp!Claims
    BY <1>10 DEF Cmp!Claims
  <2> QED BY <1>1, <1>2, <2>1 DEF RegistryOK
<1>21. Len(competitors') <= MaxCompetitors /\ competitors' \in Seq(Cmp!CompetitorRows)
  BY <1>1, <1>3, <1>8, <1>9 DEF RegistryOK
<1>22. products' \in Seq([of : Cmp!Ids', there : BOOLEAN])
  BY <1>10, <1>12, <1>13, <1>15
<1>23. RegistryOK'
  BY <1>1, <1>2, <1>8, <1>11, <1>13, <1>17, <1>18, <1>19, <1>20, <1>21, <1>22 DEF RegistryOK
<1> QED BY <1>2, <1>10, <1>23, CompetitorStays

(* A product of a competitor that is there, or none.                       *)
LEMMA CompetitorAddProductTypes ==
  ASSUME Cmp!IInv, Cmp!ITypeOK, NEW t \in Threads, Cmp!AddProduct(t) PROVE Cmp!ITypeOK'
<1>1. RegistryOK
  BY CompetitorTypes
<1>2. PICK id, new : id = linking[t].id /\ new = [of |-> id, there |-> TRUE]
  OBVIOUS
<1>3. /\ products' = IF id \in Cmp!Live THEN Append(products, new) ELSE products
      /\ linking' = [linking EXCEPT ![t] = Cmp!Idle] /\ UNCHANGED <<competitors, links, productLinks, texts, stated, byName, claims>>
  BY <1>2 DEF Cmp!AddProduct, Cmp!Become, Cmp!Links, Cmp!Wording
<1>4. Cmp!Ids' = Cmp!Ids /\ Cmp!Live' = Cmp!Live /\ Cmp!Claims' = Cmp!Claims
  BY <1>3 DEF Cmp!Ids, Cmp!Live, Cmp!Claims
<1>5. CASE id \notin Cmp!Live
  <2>1. products' = products
    BY <1>3, <1>5
  <2>2. RegistryOK'
    BY <1>1, <1>3, <1>4, <2>1 DEF RegistryOK, Cmp!Offered
  <2> QED BY <1>3, <1>4, <2>2, CompetitorIdleOK, CompetitorMoves
<1>6. CASE id \in Cmp!Live
  <2>1. PICK R : R = [of : Cmp!Ids, there : BOOLEAN]
    OBVIOUS
  <2>2. new \in R /\ products \in Seq(R)
    BY <1>1, <1>2, <1>6, <2>1, RegistryRows DEF RegistryOK
  <2>3. PICK m \in Nat : m = Len(products)
    BY <2>2
  <2>4. PICK q : q = products' /\ q = Append(products, new)
    BY <1>3, <1>6
  <2>5. q \in Seq(R) /\ Len(q) = m + 1 /\ q[m + 1] = new /\ \A p \in 1 .. m : q[p] = products[p]
    BY <2>2, <2>3, <2>4
  <2>6. Cmp!Offered' = Cmp!Offered \cup {m + 1}
    BY <1>2, <2>3, <2>4, <2>5 DEF Cmp!Offered
  <2>7. \A p \in Cmp!Offered' : q[p].of \in Cmp!Live
    <3>1. \A p \in Cmp!Offered : q[p] = products[p]
      BY <2>3, <2>5 DEF Cmp!Offered
    <3> QED BY <1>1, <1>2, <1>6, <2>5, <2>6, <3>1 DEF RegistryOK
  <2>8. productLinks' \subseteq FactNames \X Cmp!Offered'
    BY <1>1, <1>3, <2>6 DEF RegistryOK
  <2>9. products' \in Seq([of : Cmp!Ids', there : BOOLEAN])
    BY <1>4, <2>1, <2>4, <2>5
  <2>10. RegistryOK'
    BY <1>1, <1>3, <1>4, <2>4, <2>7, <2>8, <2>9 DEF RegistryOK
  <2> QED BY <1>3, <1>4, <2>10, CompetitorIdleOK, CompetitorMoves
<1> QED BY <1>5, <1>6

LEMMA CompetitorDeleteProductTypes ==
  ASSUME Cmp!IInv, Cmp!ITypeOK, NEW t \in Threads, Cmp!DeleteProduct(t) PROVE Cmp!ITypeOK'
<1>1. RegistryOK
  BY CompetitorTypes
<1>2. PICK p \in Cmp!Offered :
        /\ products' = [products EXCEPT ![p].there = FALSE]
        /\ productLinks' = {l \in productLinks : l[2] # p}
        /\ UNCHANGED <<competitors, links, texts, stated, byName, claims, linking>>
  BY DEF Cmp!DeleteProduct, Cmp!Wording
<1>3. Cmp!Ids' = Cmp!Ids /\ Cmp!Live' = Cmp!Live /\ Cmp!Claims' = Cmp!Claims
  BY <1>2 DEF Cmp!Ids, Cmp!Live, Cmp!Claims
<1>4. PICK R : R = [of : Cmp!Ids, there : BOOLEAN]
  OBVIOUS
<1>5. PICK m \in Nat : m = Len(products)
  BY <1>1, RegistryRows
<1>6. products \in Seq(R) /\ p \in 1 .. m
  BY <1>1, <1>4, <1>5 DEF RegistryOK, Cmp!Offered
<1>7. PICK x : x = products[p] /\ x \in R
  BY <1>5, <1>6
<1>8. PICK y : y = [x EXCEPT !.there = FALSE]
  OBVIOUS
<1>9. y \in R /\ ~y.there /\ y.of = x.of
  BY <1>4, <1>7, <1>8
<1>10. PICK q : q = products' /\ q = [products EXCEPT ![p] = y]
  BY <1>2, <1>7, <1>8
<1>11. q \in Seq(R) /\ Len(q) = m /\ q[p] = y /\ \A o \in 1 .. m : o # p => q[o] = products[o]
  BY <1>5, <1>6, <1>9, <1>10
<1>12. Cmp!Offered' = Cmp!Offered \ {p}
  BY <1>5, <1>9, <1>10, <1>11 DEF Cmp!Offered
<1>13. \A o \in Cmp!Offered' : q[o].of \in Cmp!Live
  <2>1. \A o \in Cmp!Offered' : o \in Cmp!Offered /\ q[o] = products[o]
    BY <1>5, <1>11, <1>12 DEF Cmp!Offered
  <2> QED BY <1>1, <2>1 DEF RegistryOK
<1>14. productLinks' \subseteq FactNames \X Cmp!Offered'
  BY <1>1, <1>2, <1>12 DEF RegistryOK
<1>15. products' \in Seq([of : Cmp!Ids', there : BOOLEAN])
  BY <1>3, <1>4, <1>10, <1>11
<1>16. RegistryOK'
  BY <1>1, <1>2, <1>3, <1>10, <1>13, <1>14, <1>15 DEF RegistryOK
<1> QED BY <1>2, <1>3, <1>16, CompetitorStays

(* What a thread begins with, and what it goes on with.                    *)
LEMMA CompetitorBegins ==
  ASSUME NEW p \in LinkingAts \ {"saveCompetitor", "saveFact"}, NEW id, NEW k \in Cmp!Claims, NEW s,
         NEW q \in SUBSET (FactNames \X Nat), NEW w,
         w = [at |-> p, id |-> id, row |-> Cmp!NoCompetitor, claim |-> k, listed |-> s, linked |-> {},
              had |-> {}, rest |-> {}, todo |-> q, before |-> {}, found |-> {}, texts |-> <<>>]
  PROVE  w.at \in LinkingAts /\ Cmp!JobOK(w)
  BY DEF Cmp!JobOK

LEMMA CompetitorJobTypes ==
  ASSUME Cmp!IInv, Cmp!ITypeOK, NEW t \in Threads, NEW i, i = linking[t]
  PROVE  /\ i = [at |-> i.at, id |-> i.id, row |-> i.row, claim |-> i.claim, listed |-> i.listed,
                 linked |-> i.linked, had |-> i.had, rest |-> i.rest, todo |-> i.todo, before |-> i.before,
                 found |-> i.found, texts |-> i.texts]
         /\ i.claim \in Cmp!Claims /\ i.rest \in SUBSET FactNames /\ i.todo \in SUBSET (FactNames \X Nat)
         /\ i.before \in SUBSET (FactNames \X Nat) /\ i.found \in SUBSET (FactNames \X Nat)
<1>1. Cmp!JobOK(i)
  BY CompetitorTypes
<1> QED BY <1>1, CompetitorJob DEF Cmp!JobOK

LEMMA CompetitorContinues ==
  ASSUME NEW i, i.claim \in Cmp!Claims, NEW p \in LinkingAts \ {"saveCompetitor", "saveFact"}, NEW a, NEW b,
         NEW c \in SUBSET FactNames, NEW d \in SUBSET (FactNames \X Nat), NEW e \in SUBSET (FactNames \X Nat),
         NEW f \in SUBSET (FactNames \X Nat), NEW w,
         w = [at |-> p, id |-> i.id, row |-> i.row, claim |-> i.claim, listed |-> i.listed,
              linked |-> a, had |-> b, rest |-> c, todo |-> d, before |-> e, found |-> f, texts |-> i.texts]
  PROVE  w.at \in LinkingAts /\ Cmp!JobOK(w)
  BY DEF Cmp!JobOK

LEMMA LinkingPasses ==
  {"facts", "fact", "links", "saveClaim", "product", "one", "checkClaim"}
    \subseteq LinkingAts \ {"saveCompetitor", "saveFact"}
  BY DEF LinkingAts

(* A thread that stops, with no row written.                               *)
LEMMA CompetitorEndsTypes ==
  ASSUME Cmp!IInv, Cmp!ITypeOK, NEW t \in Threads, Cmp!Become(t, Cmp!Idle),
         UNCHANGED <<competitors, products, links, productLinks, texts, stated, byName, claims>>
  PROVE  Cmp!ITypeOK'
  BY CompetitorIdleOK, CompetitorQuietTypes

(* Links are written, of facts there are to what is there.                 *)
LEMMA CompetitorLinksTypes ==
  ASSUME Cmp!IInv, Cmp!ITypeOK, NEW t \in Threads, NEW w, w.at \in LinkingAts, Cmp!JobOK(w),
         UNCHANGED linking \/ linking' = [linking EXCEPT ![t] = w],
         UNCHANGED <<competitors, products, texts, stated, claims>>,
         links' \subseteq FactNames \X Cmp!Live, productLinks' \subseteq FactNames \X Cmp!Offered,
         byName' \subseteq FactNames \X Cmp!Live \X FactTexts, \A l \in byName' : <<l[1], l[2]>> \in links'
  PROVE  Cmp!ITypeOK'
<1>1. RegistryOK' /\ Cmp!Ids' = Cmp!Ids
  BY CompetitorTypes DEF RegistryOK, Cmp!Ids, Cmp!Live, Cmp!Offered, Cmp!Claims
<1>2. CASE UNCHANGED linking
  BY <1>1, <1>2, CompetitorStays
<1>3. CASE linking' = [linking EXCEPT ![t] = w]
  BY <1>1, <1>3, CompetitorMoves
<1> QED BY <1>2, <1>3

LEMMA CompetitorCheckTypes ==
  ASSUME Cmp!IInv, Cmp!ITypeOK, NEW t \in Threads, Cmp!CheckCompetitor(t) \/ Cmp!CheckLink(t) PROVE Cmp!ITypeOK'
<1>1. UNCHANGED <<competitors, products, links, productLinks, texts, stated, byName, claims>>
  BY DEF Cmp!CheckCompetitor, Cmp!CheckLink, Cmp!Registry, Cmp!Links, Cmp!Wording
<1>2. Cmp!NoClaim \in Cmp!Claims
  BY DEF Cmp!NoClaim, Cmp!Claims
<1>3. CASE Cmp!CheckCompetitor(t)
  <2>1. PICK c : Cmp!Become(t, [Cmp!Idle EXCEPT !.at = "product", !.id = c])
    BY <1>3 DEF Cmp!CheckCompetitor
  <2>2. PICK w : w = [Cmp!Idle EXCEPT !.at = "product", !.id = c]
    OBVIOUS
  <2>3. w = [at |-> "product", id |-> c, row |-> Cmp!NoCompetitor, claim |-> Cmp!NoClaim, listed |-> <<>>,
             linked |-> {}, had |-> {}, rest |-> {}, todo |-> {}, before |-> {}, found |-> {}, texts |-> <<>>]
    BY <2>2 DEF Cmp!Idle
  <2>4. w.at \in LinkingAts /\ Cmp!JobOK(w)
    BY <1>2, <2>3, LinkingPasses, CompetitorBegins
  <2> QED BY <1>1, <2>1, <2>2, <2>4, CompetitorQuietTypes
<1>4. CASE Cmp!CheckLink(t)
  <2>1. PICK f \in FactNames, c \in Cmp!Live : Cmp!Become(t, [Cmp!Idle EXCEPT !.at = "one", !.todo = {<<f, c>>}])
    BY <1>4 DEF Cmp!CheckLink
  <2>2. PICK q : q = {<<f, c>>}
    OBVIOUS
  <2>3. q \in SUBSET (FactNames \X Nat)
    BY <2>2, CompetitorTypes, RegistryRows
  <2>4. PICK w : w = [Cmp!Idle EXCEPT !.at = "one", !.todo = q]
    OBVIOUS
  <2>5. w = [at |-> "one", id |-> 0, row |-> Cmp!NoCompetitor, claim |-> Cmp!NoClaim, listed |-> <<>>,
             linked |-> {}, had |-> {}, rest |-> {}, todo |-> q, before |-> {}, found |-> {}, texts |-> <<>>]
    BY <2>4 DEF Cmp!Idle
  <2>6. w.at \in LinkingAts /\ Cmp!JobOK(w)
    BY <1>2, <2>3, <2>5, LinkingPasses, CompetitorBegins
  <2>7. Cmp!Become(t, w)
    BY <2>1, <2>2, <2>4
  <2> QED BY <1>1, <2>6, <2>7, CompetitorQuietTypes
<1> QED BY <1>3, <1>4

LEMMA CompetitorLinkTypes ==
  ASSUME Cmp!IInv, Cmp!ITypeOK, NEW t \in Threads, Cmp!LinkFact(t) \/ Cmp!LinkProduct(t) PROVE Cmp!ITypeOK'
<1>1. RegistryOK /\ Cmp!Idle.at \in LinkingAts /\ Cmp!JobOK(Cmp!Idle)
  BY CompetitorTypes, CompetitorIdleOK
<1>2. CASE Cmp!LinkFact(t)
  <2>1. PICK q : q = linking[t].todo /\ q \in SUBSET (FactNames \X Nat)
    BY CompetitorJobTypes
  <2>2. /\ links' = links \cup {l \in q : l[2] \in Cmp!Live} /\ linking' = [linking EXCEPT ![t] = Cmp!Idle]
        /\ UNCHANGED <<competitors, products, productLinks, texts, stated, byName, claims>>
    BY <1>2, <2>1 DEF Cmp!LinkFact, Cmp!Become, Cmp!Registry, Cmp!Wording
  <2>3. /\ links' \subseteq FactNames \X Cmp!Live /\ productLinks' \subseteq FactNames \X Cmp!Offered
        /\ byName' \subseteq FactNames \X Cmp!Live \X FactTexts /\ \A k \in byName' : <<k[1], k[2]>> \in links'
    BY <1>1, <2>1, <2>2 DEF RegistryOK
  <2> QED BY <1>1, <2>2, <2>3, CompetitorLinksTypes
<1>3. CASE Cmp!LinkProduct(t)
  <2>1. PICK f \in FactNames, p \in Cmp!Offered : productLinks' = productLinks \cup {<<f, p>>}
    BY <1>3 DEF Cmp!LinkProduct
  <2>2. UNCHANGED <<competitors, products, links, texts, stated, byName, claims, linking>>
    BY <1>3 DEF Cmp!LinkProduct, Cmp!Registry, Cmp!Wording
  <2>3. /\ links' \subseteq FactNames \X Cmp!Live /\ productLinks' \subseteq FactNames \X Cmp!Offered
        /\ byName' \subseteq FactNames \X Cmp!Live \X FactTexts /\ \A k \in byName' : <<k[1], k[2]>> \in links'
    BY <1>1, <2>1, <2>2 DEF RegistryOK
  <2> QED BY <1>1, <2>2, <2>3, CompetitorLinksTypes
<1> QED BY <1>2, <1>3

LEMMA CompetitorListTypes ==
  ASSUME Cmp!IInv, Cmp!ITypeOK, NEW t \in Threads, Cmp!ListCompetitors(t) PROVE Cmp!ITypeOK'
<1>1. PICK w : w = [Cmp!Idle EXCEPT !.at = "facts", !.listed = competitors]
  OBVIOUS
<1>2. w = [at |-> "facts", id |-> 0, row |-> Cmp!NoCompetitor, claim |-> Cmp!NoClaim, listed |-> competitors,
           linked |-> {}, had |-> {}, rest |-> {}, todo |-> {}, before |-> {}, found |-> {}, texts |-> <<>>]
  BY <1>1 DEF Cmp!Idle
<1>3. Cmp!NoClaim \in Cmp!Claims
  BY DEF Cmp!NoClaim, Cmp!Claims
<1>4. w.at \in LinkingAts /\ Cmp!JobOK(w)
  BY <1>2, <1>3, LinkingPasses, CompetitorBegins
<1>5. Cmp!Become(t, w) /\ UNCHANGED <<competitors, products, links, productLinks, texts, stated, byName, claims>>
  BY <1>1 DEF Cmp!ListCompetitors, Cmp!Registry, Cmp!Links, Cmp!Wording
<1> QED BY <1>4, <1>5, CompetitorQuietTypes

LEMMA CompetitorListFactsTypes ==
  ASSUME Cmp!IInv, Cmp!ITypeOK, NEW t \in Threads, Cmp!ListFacts(t) PROVE Cmp!ITypeOK'
<1>1. PICK i : i = linking[t]
  OBVIOUS
<1>2. PICK some \in SUBSET FactNames :
        Cmp!Become(t, [i EXCEPT !.at = "fact", !.linked = links, !.had = productLinks, !.rest = some, !.texts = texts])
  BY <1>1 DEF Cmp!ListFacts
<1>3. PICK w : w = [i EXCEPT !.at = "fact", !.linked = links, !.had = productLinks, !.rest = some, !.texts = texts]
  OBVIOUS
<1>4. /\ i = [at |-> i.at, id |-> i.id, row |-> i.row, claim |-> i.claim, listed |-> i.listed,
              linked |-> i.linked, had |-> i.had, rest |-> i.rest, todo |-> i.todo, before |-> i.before,
              found |-> i.found, texts |-> i.texts]
      /\ i.claim \in Cmp!Claims /\ i.todo \in SUBSET (FactNames \X Nat)
      /\ i.before \in SUBSET (FactNames \X Nat) /\ i.found \in SUBSET (FactNames \X Nat)
  BY <1>1, CompetitorJobTypes
<1>5. w = [at |-> "fact", id |-> i.id, row |-> i.row, claim |-> i.claim, listed |-> i.listed,
           linked |-> links, had |-> productLinks, rest |-> some, todo |-> i.todo, before |-> i.before,
           found |-> i.found, texts |-> texts]
  BY <1>3, <1>4
<1>6. w.at \in LinkingAts /\ Cmp!JobOK(w)
  BY <1>4, <1>5, LinkingPasses, CompetitorContinues
<1>7. Cmp!Become(t, w) /\ UNCHANGED <<competitors, products, links, productLinks, texts, stated, byName, claims>>
  BY <1>2, <1>3 DEF Cmp!ListFacts, Cmp!Registry, Cmp!Links, Cmp!Wording
<1> QED BY <1>6, <1>7, CompetitorQuietTypes

(* A fact is read and saved: its new text is one of the texts there are.   *)
LEMMA CompetitorReadFactTypes ==
  ASSUME Cmp!IInv, Cmp!ITypeOK, NEW t \in Threads, Cmp!ReadFact(t) PROVE Cmp!ITypeOK'
<1>1. PICK f \in FactNames, s \in FactTexts :
        Cmp!Become(t, [Cmp!Idle EXCEPT !.at = "saveFact", !.texts = [g \in {f} |-> s]])
  BY DEF Cmp!ReadFact
<1>2. PICK x : x = [g \in {f} |-> s]
  OBVIOUS
<1>3. PICK w : w = [Cmp!Idle EXCEPT !.at = "saveFact", !.texts = x]
  OBVIOUS
<1>4. PICK k : k = Cmp!NoClaim /\ k \in Cmp!Claims
  <2>1. Cmp!NoClaim \in Cmp!Claims
    BY DEF Cmp!NoClaim, Cmp!Claims
  <2> QED BY <2>1
<1>5. w = [at |-> "saveFact", id |-> 0, row |-> Cmp!NoCompetitor, claim |-> k, listed |-> <<>>,
           linked |-> {}, had |-> {}, rest |-> {}, todo |-> {}, before |-> {}, found |-> {}, texts |-> x]
  BY <1>3, <1>4 DEF Cmp!Idle
<1>6. DOMAIN x \subseteq FactNames /\ \A g \in DOMAIN x : x[g] \in FactTexts
  BY <1>2
<1>7. Cmp!JobOK(w) /\ w.at \in LinkingAts
  BY <1>4, <1>5, <1>6 DEF Cmp!JobOK, LinkingAts
<1>8. Cmp!Become(t, w) /\ UNCHANGED <<competitors, products, links, productLinks, texts, stated, byName, claims>>
  BY <1>1, <1>2, <1>3 DEF Cmp!ReadFact, Cmp!Registry, Cmp!Links, Cmp!Wording
<1> QED BY <1>7, <1>8, CompetitorQuietTypes

LEMMA CompetitorSaveFactTypes ==
  ASSUME Cmp!IInv, Cmp!ITypeOK, NEW t \in Threads, Cmp!SaveFact(t) PROVE Cmp!ITypeOK'
<1>1. RegistryOK
  BY CompetitorTypes
<1>2. PICK x : x = linking[t].texts /\ \A f \in DOMAIN x : x[f] \in FactTexts
  BY CompetitorTypes DEF Cmp!SaveFact, Cmp!Works, Cmp!JobOK
<1>3. PICK f, s : /\ s \in FactTexts
                  /\ texts' = [texts EXCEPT ![f] = s] /\ stated' = [stated EXCEPT ![f] = stated[f] \cup {s}]
  <2>1. PICK g \in DOMAIN x : /\ texts' = [texts EXCEPT ![g] = x[g]]
                             /\ stated' = [stated EXCEPT ![g] = stated[g] \cup {x[g]}]
    BY <1>2 DEF Cmp!SaveFact
  <2>2. x[g] \in FactTexts
    BY <1>2
  <2> QED BY <2>1, <2>2
<1>4. texts' \in [FactNames -> FactTexts] /\ stated' \in [FactNames -> SUBSET FactTexts]
  BY <1>1, <1>3 DEF RegistryOK
<1>5. /\ linking' = [linking EXCEPT ![t] = Cmp!Idle]
      /\ UNCHANGED <<competitors, products, links, productLinks, byName, claims>>
  BY DEF Cmp!SaveFact, Cmp!Become, Cmp!Registry
<1>6. RegistryOK' /\ Cmp!Ids' = Cmp!Ids
  BY <1>1, <1>4, <1>5 DEF RegistryOK, Cmp!Ids, Cmp!Live, Cmp!Offered, Cmp!Claims
<1> QED BY <1>5, <1>6, CompetitorIdleOK, CompetitorMoves

LEMMA CompetitorNextFactTypes ==
  ASSUME Cmp!IInv, Cmp!ITypeOK, NEW t \in Threads, Cmp!NextFact(t) PROVE Cmp!ITypeOK'
<1>0. PICK i : i = linking[t] /\ i.at = "fact"
  BY DEF Cmp!NextFact, Cmp!Works
<1>1. UNCHANGED <<competitors, products, links, productLinks, texts, stated, byName, claims>>
  BY DEF Cmp!NextFact, Cmp!Registry, Cmp!Links, Cmp!Wording
<1>2. CASE Cmp!Become(t, Cmp!Idle)
  BY <1>1, <1>2, CompetitorEndsTypes
<1>3. CASE ~Cmp!Become(t, Cmp!Idle)
  <2>1. PICK f \in linking[t].rest :
          LET w == linking[t]
              with == {d \in Cmp!Listed(w) : <<f, d>> \in w.linked}
          IN  Cmp!Become(t, [w EXCEPT !.at = "links", !.rest = @ \ {f}, !.before = {f} \X with,
                !.todo = {f} \X {d \in Cmp!Listed(w) \ with : Cmp!Matches(w.texts[f], w.listed[d])}])
    BY <1>3 DEF Cmp!NextFact
  <2>2. PICK c, b, q, with :
          /\ with = {d \in Cmp!Listed(linking[t]) : <<f, d>> \in linking[t].linked}
          /\ c = linking[t].rest \ {f} /\ b = {f} \X with
          /\ q = {f} \X {d \in Cmp!Listed(linking[t]) \ with : Cmp!Matches(linking[t].texts[f], linking[t].listed[d])}
    OBVIOUS
  <2>3. PICK w : w = [i EXCEPT !.at = "links", !.rest = c, !.before = b, !.todo = q]
    OBVIOUS
  <2>4. Cmp!Become(t, w)
    BY <1>0, <2>1, <2>2, <2>3
  <2>5. /\ i = [at |-> i.at, id |-> i.id, row |-> i.row, claim |-> i.claim, listed |-> i.listed,
                linked |-> i.linked, had |-> i.had, rest |-> i.rest, todo |-> i.todo, before |-> i.before,
                found |-> i.found, texts |-> i.texts]
        /\ i.claim \in Cmp!Claims /\ i.rest \in SUBSET FactNames /\ i.found \in SUBSET (FactNames \X Nat)
    BY <1>0, CompetitorJobTypes
  <2>6. w = [at |-> "links", id |-> i.id, row |-> i.row, claim |-> i.claim, listed |-> i.listed,
             linked |-> i.linked, had |-> i.had, rest |-> c, todo |-> q, before |-> b, found |-> i.found,
             texts |-> i.texts]
    BY <2>3, <2>5
  <2>7. Cmp!Listed(i) \subseteq Nat
    <3>1. Cmp!Listed(i) \subseteq 1 .. Len(i.listed)
      BY DEF Cmp!Listed
    <3>2. PICK n : n = Len(i.listed)
      OBVIOUS
    <3>3. n \in Nat
      <4>1. Cmp!StillNamed(i.listed)
        BY <1>0, CompetitorJob DEF Cmp!WorkOK
      <4>2. i.listed \in Seq(Cmp!CompetitorRows)
        BY <4>1 DEF Cmp!StillNamed
      <4> QED BY <3>2, <4>2
    <3> QED BY <3>1, <3>2, <3>3
  <2>8. with \subseteq Nat /\ \A d \in Cmp!Listed(i) \ with : d \in Nat
    BY <1>0, <2>2, <2>7
  <2>9. /\ c \in SUBSET FactNames /\ b \in SUBSET (FactNames \X Nat) /\ q \in SUBSET (FactNames \X Nat)
    BY <1>0, <2>2, <2>5, <2>8
  <2>10. w.at \in LinkingAts /\ Cmp!JobOK(w)
    BY <2>5, <2>6, <2>9, LinkingPasses, CompetitorContinues
  <2> QED BY <1>1, <2>4, <2>10, CompetitorQuietTypes
<1> QED BY <1>2, <1>3

LEMMA CompetitorAutoLinkTypes ==
  ASSUME Cmp!IInv, Cmp!ITypeOK, NEW t \in Threads, Cmp!AutoLink(t) PROVE Cmp!ITypeOK'
<1>0. PICK i : i = linking[t] /\ i.at = "links"
  BY DEF Cmp!AutoLink, Cmp!Works
<1>1. /\ i = [at |-> i.at, id |-> i.id, row |-> i.row, claim |-> i.claim, listed |-> i.listed,
              linked |-> i.linked, had |-> i.had, rest |-> i.rest, todo |-> i.todo, before |-> i.before,
              found |-> i.found, texts |-> i.texts]
      /\ i.claim \in Cmp!Claims /\ i.rest \in SUBSET FactNames /\ i.todo \in SUBSET (FactNames \X Nat)
      /\ i.before \in SUBSET (FactNames \X Nat) /\ i.found \in SUBSET (FactNames \X Nat)
  BY <1>0, CompetitorJobTypes
<1>2. UNCHANGED <<competitors, products, productLinks, texts, stated, claims>>
  BY DEF Cmp!AutoLink, Cmp!Registry, Cmp!Wording
<1>3. PICK l \in i.todo :
        IF l[2] \notin Cmp!Live THEN Cmp!Become(t, Cmp!Idle) /\ UNCHANGED <<links, byName>>
        ELSE /\ links' = links \cup {l}
             /\ byName' = IF i.listed[l[2]].name \in i.texts[l[1]]
                          THEN byName \cup {<<l[1], l[2], i.texts[l[1]]>>} ELSE byName
             /\ Cmp!Become(t, [i EXCEPT !.todo = @ \ {l}])
  BY <1>0 DEF Cmp!AutoLink
<1>4. CASE l[2] \notin Cmp!Live
  BY <1>2, <1>3, <1>4, CompetitorEndsTypes
<1>5. CASE l[2] \in Cmp!Live
  <2>1. PICK w, q : w = [i EXCEPT !.todo = q] /\ q = i.todo \ {l}
    OBVIOUS
  <2>2. linking' = [linking EXCEPT ![t] = w]
    BY <1>3, <1>5, <2>1 DEF Cmp!Become
  <2>3. w = [at |-> "links", id |-> i.id, row |-> i.row, claim |-> i.claim, listed |-> i.listed,
             linked |-> i.linked, had |-> i.had, rest |-> i.rest, todo |-> q, before |-> i.before, found |-> i.found,
             texts |-> i.texts]
    BY <1>0, <1>1, <2>1
  <2>4. q \in SUBSET (FactNames \X Nat)
    BY <1>1, <2>1
  <2>5. w.at \in LinkingAts /\ Cmp!JobOK(w)
    BY <1>1, <2>3, <2>4, LinkingPasses, CompetitorContinues
  <2>6. l \in FactNames \X Cmp!Live /\ i.texts[l[1]] \in FactTexts
    <3>1. l \in FactNames \X Cmp!Live
      BY <1>1, <1>5
    <3>2. Cmp!WasStated(i, l[1])
      BY <1>0, CompetitorJob DEF Cmp!WorkOK
    <3>3. stated \in [FactNames -> SUBSET FactTexts]
      BY CompetitorTypes DEF RegistryOK
    <3> QED BY <3>1, <3>2, <3>3 DEF Cmp!WasStated
  <2>7. /\ links' \subseteq FactNames \X Cmp!Live /\ productLinks' \subseteq FactNames \X Cmp!Offered
        /\ byName' \subseteq FactNames \X Cmp!Live \X FactTexts /\ \A k \in byName' : <<k[1], k[2]>> \in links'
    <3>1. RegistryOK
      BY CompetitorTypes
    <3>2. links' = links \cup {l} /\ (byName' = byName \/ byName' = byName \cup {<<l[1], l[2], i.texts[l[1]]>>})
      BY <1>3, <1>5
    <3> QED BY <1>2, <2>6, <3>1, <3>2 DEF RegistryOK
  <2> QED BY <1>2, <2>2, <2>5, <2>7, CompetitorLinksTypes
<1> QED BY <1>4, <1>5

LEMMA CompetitorListProductsTypes ==
  ASSUME Cmp!IInv, Cmp!ITypeOK, NEW t \in Threads, Cmp!ListProducts(t) PROVE Cmp!ITypeOK'
<1>0. PICK i : i = linking[t] /\ i.at = "links"
  BY DEF Cmp!ListProducts, Cmp!Works
<1>1. /\ i = [at |-> i.at, id |-> i.id, row |-> i.row, claim |-> i.claim, listed |-> i.listed,
              linked |-> i.linked, had |-> i.had, rest |-> i.rest, todo |-> i.todo, before |-> i.before,
              found |-> i.found, texts |-> i.texts]
      /\ i.claim \in Cmp!Claims /\ i.rest \in SUBSET FactNames /\ i.todo \in SUBSET (FactNames \X Nat)
      /\ i.before \in SUBSET (FactNames \X Nat) /\ i.found \in SUBSET (FactNames \X Nat)
  BY <1>0, CompetitorJobTypes
<1>2. UNCHANGED <<competitors, products, links, productLinks, texts, stated, byName, claims>>
  BY DEF Cmp!ListProducts, Cmp!Registry, Cmp!Links, Cmp!Wording
<1>3. CASE Cmp!Become(t, [i EXCEPT !.at = "fact"])
  <2>1. PICK w : w = [i EXCEPT !.at = "fact"]
    OBVIOUS
  <2>2. w = [at |-> "fact", id |-> i.id, row |-> i.row, claim |-> i.claim, listed |-> i.listed, linked |-> i.linked,
             had |-> i.had, rest |-> i.rest, todo |-> i.todo, before |-> i.before, found |-> i.found,
             texts |-> i.texts]
    BY <1>1, <2>1
  <2>3. w.at \in LinkingAts /\ Cmp!JobOK(w)
    BY <1>1, <2>2, LinkingPasses, CompetitorContinues
  <2> QED BY <1>2, <1>3, <2>1, <2>3, CompetitorQuietTypes
<1>4. CASE ~Cmp!Become(t, [i EXCEPT !.at = "fact"])
  <2>1. PICK l \in i.before :
          \E mentioned \in SUBSET Cmp!OfCompetitor(l[2]) :
            Cmp!Become(t, [i EXCEPT !.before = @ \ {l}, !.found = ({l[1]} \X mentioned) \ i.had])
    BY <1>0, <1>4 DEF Cmp!ListProducts
  <2>2. PICK mentioned \in SUBSET Cmp!OfCompetitor(l[2]) :
          Cmp!Become(t, [i EXCEPT !.before = @ \ {l}, !.found = ({l[1]} \X mentioned) \ i.had])
    BY <2>1
  <2>3. PICK b, f : b = i.before \ {l} /\ f = ({l[1]} \X mentioned) \ i.had
    OBVIOUS
  <2>4. PICK w : w = [i EXCEPT !.before = b, !.found = f]
    OBVIOUS
  <2>5. w = [at |-> "links", id |-> i.id, row |-> i.row, claim |-> i.claim, listed |-> i.listed, linked |-> i.linked,
             had |-> i.had, rest |-> i.rest, todo |-> i.todo, before |-> b, found |-> f, texts |-> i.texts]
    BY <1>0, <1>1, <2>4
  <2>6. mentioned \subseteq Nat /\ l[1] \in FactNames
    <3>1. Cmp!OfCompetitor(l[2]) \subseteq Nat
      BY CompetitorTypes, RegistryRows DEF Cmp!OfCompetitor
    <3> QED BY <1>1, <3>1
  <2>7. b \in SUBSET (FactNames \X Nat) /\ f \in SUBSET (FactNames \X Nat)
    BY <1>1, <2>3, <2>6
  <2>8. w.at \in LinkingAts /\ Cmp!JobOK(w)
    BY <1>1, <2>5, <2>7, LinkingPasses, CompetitorContinues
  <2>9. Cmp!Become(t, w)
    BY <2>2, <2>3, <2>4
  <2> QED BY <1>2, <2>8, <2>9, CompetitorQuietTypes
<1> QED BY <1>3, <1>4

LEMMA CompetitorAutoLinkProductTypes ==
  ASSUME Cmp!IInv, Cmp!ITypeOK, NEW t \in Threads, Cmp!AutoLinkProduct(t) PROVE Cmp!ITypeOK'
<1>0. PICK i : i = linking[t] /\ i.at = "links"
  BY DEF Cmp!AutoLinkProduct, Cmp!Works
<1>1. /\ i = [at |-> i.at, id |-> i.id, row |-> i.row, claim |-> i.claim, listed |-> i.listed,
              linked |-> i.linked, had |-> i.had, rest |-> i.rest, todo |-> i.todo, before |-> i.before,
              found |-> i.found, texts |-> i.texts]
      /\ i.claim \in Cmp!Claims /\ i.rest \in SUBSET FactNames /\ i.todo \in SUBSET (FactNames \X Nat)
      /\ i.before \in SUBSET (FactNames \X Nat) /\ i.found \in SUBSET (FactNames \X Nat)
  BY <1>0, CompetitorJobTypes
<1>2. UNCHANGED <<competitors, products, links, texts, stated, byName, claims>>
  BY DEF Cmp!AutoLinkProduct, Cmp!Registry, Cmp!Wording
<1>3. PICK l \in i.found :
        IF l[2] \notin Cmp!Offered THEN Cmp!Become(t, Cmp!Idle) /\ UNCHANGED productLinks
        ELSE productLinks' = productLinks \cup {l} /\ Cmp!Become(t, [i EXCEPT !.found = @ \ {l}])
  BY <1>0 DEF Cmp!AutoLinkProduct
<1>4. CASE l[2] \notin Cmp!Offered
  BY <1>2, <1>3, <1>4, CompetitorEndsTypes
<1>5. CASE l[2] \in Cmp!Offered
  <2>1. PICK w, f : w = [i EXCEPT !.found = f] /\ f = i.found \ {l}
    OBVIOUS
  <2>2. linking' = [linking EXCEPT ![t] = w]
    BY <1>3, <1>5, <2>1 DEF Cmp!Become
  <2>3. w = [at |-> "links", id |-> i.id, row |-> i.row, claim |-> i.claim, listed |-> i.listed,
             linked |-> i.linked, had |-> i.had, rest |-> i.rest, todo |-> i.todo, before |-> i.before, found |-> f,
             texts |-> i.texts]
    BY <1>0, <1>1, <2>1
  <2>4. f \in SUBSET (FactNames \X Nat)
    BY <1>1, <2>1
  <2>5. w.at \in LinkingAts /\ Cmp!JobOK(w)
    BY <1>1, <2>3, <2>4, LinkingPasses, CompetitorContinues
  <2>6. l \in FactNames \X Cmp!Offered
    BY <1>1, <1>5
  <2>7. /\ links' \subseteq FactNames \X Cmp!Live /\ productLinks' \subseteq FactNames \X Cmp!Offered
        /\ byName' \subseteq FactNames \X Cmp!Live \X FactTexts /\ \A k \in byName' : <<k[1], k[2]>> \in links'
    <3>1. RegistryOK
      BY CompetitorTypes
    <3>2. productLinks' = productLinks \cup {l}
      BY <1>3, <1>5
    <3> QED BY <1>2, <2>6, <3>1, <3>2 DEF RegistryOK
  <2> QED BY <1>2, <2>2, <2>5, <2>7, CompetitorLinksTypes
<1> QED BY <1>4, <1>5

(* A claim is about facts there are, and names competitors there have been.*)
LEMMA CompetitorClaimTypes ==
  ASSUME Cmp!IInv, Cmp!ITypeOK, NEW t \in Threads, Cmp!CreateClaim(t) \/ Cmp!BuildClaim(t) \/ Cmp!ReadClaim(t)
  PROVE  Cmp!ITypeOK'
<1>1. UNCHANGED <<competitors, products, links, productLinks, texts, stated, byName, claims>>
  BY DEF Cmp!CreateClaim, Cmp!BuildClaim, Cmp!ReadClaim, Cmp!Registry, Cmp!Links, Cmp!Wording
<1>2. ASSUME NEW id, NEW k \in Cmp!Claims, NEW w,
             w = [at |-> "checkClaim", id |-> id, row |-> Cmp!NoCompetitor, claim |-> k, listed |-> <<>>,
                  linked |-> {}, had |-> {}, rest |-> {}, todo |-> {}, before |-> {}, found |-> {}, texts |-> <<>>],
             Cmp!Become(t, w)
      PROVE  Cmp!ITypeOK'
  <2>1. w.at \in LinkingAts /\ Cmp!JobOK(w)
    BY <1>2, LinkingPasses, CompetitorBegins
  <2> QED BY <1>1, <1>2, <2>1, CompetitorQuietTypes
<1>3. ASSUME NEW k \in Cmp!Claims, Cmp!Become(t, [Cmp!Idle EXCEPT !.at = "checkClaim", !.claim = k])
      PROVE  Cmp!ITypeOK'
  <2>1. PICK w : w = [Cmp!Idle EXCEPT !.at = "checkClaim", !.claim = k]
    OBVIOUS
  <2>2. w = [at |-> "checkClaim", id |-> 0, row |-> Cmp!NoCompetitor, claim |-> k, listed |-> <<>>,
             linked |-> {}, had |-> {}, rest |-> {}, todo |-> {}, before |-> {}, found |-> {}, texts |-> <<>>]
    BY <2>1 DEF Cmp!Idle
  <2> QED BY <1>2, <1>3, <2>1, <2>2
<1>4. CASE Cmp!CreateClaim(t)
  <2>1. PICK f \in SUBSET FactNames, c \in SUBSET Cmp!Ids :
          Cmp!Become(t, [Cmp!Idle EXCEPT !.at = "checkClaim",
                           !.claim = [Cmp!NoClaim EXCEPT !.facts = f, !.competitors = c]])
    BY <1>4 DEF Cmp!CreateClaim
  <2>2. PICK k : k = [Cmp!NoClaim EXCEPT !.facts = f, !.competitors = c]
    OBVIOUS
  <2>3. k = [facts |-> f, competitors |-> c, status |-> "draft"]
    BY <2>2 DEF Cmp!NoClaim
  <2>4. k \in Cmp!Claims
    BY <2>3 DEF Cmp!Claims
  <2> QED BY <1>3, <2>1, <2>2, <2>4
<1>5. CASE Cmp!BuildClaim(t)
  <2>1. PICK f \in FactNames : Cmp!Become(t, [Cmp!Idle EXCEPT !.at = "checkClaim",
          !.claim = [Cmp!NoClaim EXCEPT !.facts = {f}, !.competitors = {c \in Cmp!Ids : <<f, c>> \in links}]])
    BY <1>5 DEF Cmp!BuildClaim
  <2>2. PICK s, e : s = {f} /\ e = {c \in Cmp!Ids : <<f, c>> \in links}
    OBVIOUS
  <2>3. PICK k : k = [Cmp!NoClaim EXCEPT !.facts = s, !.competitors = e]
    OBVIOUS
  <2>4. k = [facts |-> s, competitors |-> e, status |-> "draft"]
    BY <2>3 DEF Cmp!NoClaim
  <2>5. s \in SUBSET FactNames /\ e \in SUBSET Cmp!Ids
    BY <2>2
  <2>6. k \in Cmp!Claims
    BY <2>4, <2>5 DEF Cmp!Claims
  <2> QED BY <1>3, <2>1, <2>2, <2>3, <2>6
<1>6. CASE Cmp!ReadClaim(t)
  <2>1. PICK j \in 1 .. Len(claims), s \in {"draft", "rejected"} :
          Cmp!Become(t, [Cmp!Idle EXCEPT !.at = "checkClaim", !.id = j, !.claim = [claims[j] EXCEPT !.status = s]])
    BY <1>6 DEF Cmp!ReadClaim
  <2>2. PICK v : v = claims[j] /\ v \in Cmp!Claims
    <3>1. claims \in Seq(Cmp!Claims)
      BY CompetitorTypes DEF RegistryOK
    <3> QED BY <3>1
  <2>3. PICK k : k = [v EXCEPT !.status = s]
    OBVIOUS
  <2>4. k \in Cmp!Claims
    BY <2>2, <2>3 DEF Cmp!Claims
  <2>5. PICK w : w = [Cmp!Idle EXCEPT !.at = "checkClaim", !.id = j, !.claim = k]
    OBVIOUS
  <2>6. w = [at |-> "checkClaim", id |-> j, row |-> Cmp!NoCompetitor, claim |-> k, listed |-> <<>>,
             linked |-> {}, had |-> {}, rest |-> {}, todo |-> {}, before |-> {}, found |-> {}, texts |-> <<>>]
    BY <2>5 DEF Cmp!Idle
  <2>7. Cmp!Become(t, w)
    BY <2>1, <2>2, <2>3, <2>5
  <2> QED BY <1>2, <2>4, <2>6, <2>7
<1> QED BY <1>4, <1>5, <1>6

LEMMA CompetitorCheckClaimTypes ==
  ASSUME Cmp!IInv, Cmp!ITypeOK, NEW t \in Threads, Cmp!CheckClaim(t) PROVE Cmp!ITypeOK'
<1>1. PICK i, w : i = linking[t] /\ w = [i EXCEPT !.at = "saveClaim"]
  OBVIOUS
<1>2. /\ i = [at |-> i.at, id |-> i.id, row |-> i.row, claim |-> i.claim, listed |-> i.listed,
              linked |-> i.linked, had |-> i.had, rest |-> i.rest, todo |-> i.todo, before |-> i.before,
              found |-> i.found, texts |-> i.texts]
      /\ i.claim \in Cmp!Claims /\ i.rest \in SUBSET FactNames /\ i.todo \in SUBSET (FactNames \X Nat)
      /\ i.before \in SUBSET (FactNames \X Nat) /\ i.found \in SUBSET (FactNames \X Nat)
  BY <1>1, CompetitorJobTypes
<1>3. w = [at |-> "saveClaim", id |-> i.id, row |-> i.row, claim |-> i.claim, listed |-> i.listed, linked |-> i.linked,
           had |-> i.had, rest |-> i.rest, todo |-> i.todo, before |-> i.before, found |-> i.found,
           texts |-> i.texts]
  BY <1>1, <1>2
<1>4. w.at \in LinkingAts /\ Cmp!JobOK(w)
  BY <1>2, <1>3, LinkingPasses, CompetitorContinues
<1>5. UNCHANGED <<competitors, products, links, productLinks, texts, stated, byName, claims>>
  BY DEF Cmp!CheckClaim, Cmp!Registry, Cmp!Links, Cmp!Wording
<1>6. Cmp!Become(t, w) \/ Cmp!Become(t, Cmp!Idle)
  BY <1>1 DEF Cmp!CheckClaim
<1> QED BY <1>4, <1>5, <1>6, CompetitorEndsTypes, CompetitorQuietTypes

LEMMA CompetitorSaveClaimTypes ==
  ASSUME Cmp!IInv, Cmp!ITypeOK, NEW t \in Threads, Cmp!SaveClaim(t) PROVE Cmp!ITypeOK'
<1>1. RegistryOK
  BY CompetitorTypes
<1>2. PICK k : k = linking[t].claim /\ k \in Cmp!Claims
  BY CompetitorJobTypes
<1>3. PICK C : C = Cmp!Claims
  OBVIOUS
<1>4. claims \in Seq(C) /\ k \in C
  BY <1>1, <1>2, <1>3 DEF RegistryOK
<1>5. claims' = Append(claims, k) \/ \E j : claims' = [claims EXCEPT ![j] = k]
  BY <1>2 DEF Cmp!SaveClaim
<1>6. claims' \in Seq(C)
  BY <1>4, <1>5
<1>7. /\ linking' = [linking EXCEPT ![t] = Cmp!Idle]
      /\ UNCHANGED <<competitors, products, links, productLinks, texts, stated, byName>>
  BY DEF Cmp!SaveClaim, Cmp!Become, Cmp!Registry, Cmp!Links, Cmp!Wording
<1>8. Cmp!Claims' = Cmp!Claims /\ Cmp!Ids' = Cmp!Ids
  BY <1>7 DEF Cmp!Claims, Cmp!Ids
<1>9. RegistryOK'
  BY <1>1, <1>3, <1>6, <1>7, <1>8 DEF RegistryOK, Cmp!Ids, Cmp!Live, Cmp!Offered
<1> QED BY <1>7, <1>8, <1>9, CompetitorIdleOK, CompetitorMoves

LEMMA CompetitorNextTypes ==
  ASSUME Cmp!IInv, Cmp!ITypeOK, [Cmp!Next]_(Cmp!vars) PROVE Cmp!ITypeOK'
<1>1. CASE UNCHANGED Cmp!vars
  BY <1>1 DEF Cmp!vars, Cmp!ITypeOK, Cmp!TypeOK, Cmp!JobOK, Cmp!Claims, Cmp!Ids, Cmp!Live, Cmp!Offered
<1>2. CASE Cmp!Next
  <2>1. ASSUME NEW t \in Threads, Cmp!Break(t) PROVE Cmp!ITypeOK'
    BY <2>1, CompetitorEndsTypes DEF Cmp!Break, Cmp!Registry, Cmp!Links, Cmp!Wording
  <2> QED BY <1>2, <2>1, CompetitorCreateTypes, CompetitorReadTypes, CompetitorSaveTypes, CompetitorDeleteTypes,
       CompetitorAddProductTypes, CompetitorDeleteProductTypes, CompetitorCheckTypes, CompetitorLinkTypes,
       CompetitorListTypes, CompetitorListFactsTypes, CompetitorReadFactTypes, CompetitorSaveFactTypes,
       CompetitorNextFactTypes, CompetitorAutoLinkTypes,
       CompetitorListProductsTypes, CompetitorAutoLinkProductTypes, CompetitorClaimTypes, CompetitorCheckClaimTypes,
       CompetitorSaveClaimTypes DEF Cmp!Next
<1> QED BY <1>1, <1>2

-----------------------------------------------------------------------------
(* Only the part that was chosen moves, and the others have no state: what *)
(* holds of a part by itself holds of it here.                             *)
LEMMA AssistantSteps ==
  ASSUME [NextPart]_parts
  PROVE  /\ part' = part
         /\ part = "sessions" => [Ses!Next]_(Ses!vars)
         /\ part = "memory" => [Mem!Next]_(Mem!vars)
         /\ part = "facts" => [Fac!Next]_(Fac!vars)
         /\ part = "competitors" => [Cmp!Next]_(Cmp!vars)
         /\ part = "loop" => [Age!Next]_(Age!vars)
         /\ part = "search" => [Search!Next]_(Search!vars)
<1>1. CASE UNCHANGED parts
  BY <1>1 DEF parts, sessions, memory, fact, registry, loop, Ses!vars, Mem!vars, Fac!vars, Cmp!vars, Age!vars, Age!stream,
     search, Search!vars
<1>2. CASE NextPart
  BY <1>2 DEF NextPart, sessions, memory, fact, registry, loop, search
<1> QED BY <1>1, <1>2

AssistantIInv ==
  /\ part = "sessions" => Ses!IInv
  /\ part = "memory" => Mem!IInv
  /\ part = "facts" => Fac!IInv
  /\ part = "competitors" => Cmp!IInv
  /\ part = "loop" => Age!IInv
  /\ part = "search" => Search!IInv

LEMMA AssistantIInvHolds == SpecPart => []AssistantIInv
<1>1. InitPart => AssistantIInv
  BY SessionInitIInv, MemoryInitIInv, FactInitIInv, CompetitorInitIInv, LoopInitIInv, SearchInitIInv
     DEF InitPart, AssistantIInv
<1>2. AssistantIInv /\ [NextPart]_parts => AssistantIInv'
  BY AssistantSteps, SessionNextIInv, MemoryNextIInv, FactNextIInv, CompetitorNextIInv, LoopNextIInv,
     SearchNextIInv DEF AssistantIInv
<1> QED BY <1>1, <1>2, PTL DEF SpecPart

(* A session that reads as completed has no error, and the execution whose *)
(* answer it has saved its report under the name it has; what is in a file *)
(* of that name was saved in the same second: however many requests        *)
(* overwrite each other's copy of the session, whatever other sessions     *)
(* save, and wherever Redis, PostgreSQL or the process fails               *)
(* (PlanExecuteRunner.execute, save_report, complete_session).             *)
THEOREM CompletedKeepsReport == SpecPart => []CompletedHasReport
<1>1. Ses!IInv => Ses!CompletedHasReport
  BY DEF Ses!IInv, Ses!CompletedHasReport, Ses!Good
<1>2. AssistantIInv => CompletedHasReport
  BY <1>1 DEF AssistantIInv, CompletedHasReport
<1> QED BY <1>2, AssistantIInvHolds, PTL

(* A core memory that has a revision is served, and a revision has         *)
(* replaced, and outnumbers, all that were there when it took its number:  *)
(* however transactions that number, deactivate and insert overlap, wait   *)
(* for one another or are rolled back (create_core_memory_revision).       *)
THEOREM LastRevisionIsServed == SpecPart => []RevisionIsServed
<1>1. AssistantIInv => RevisionIsServed
  BY DEF AssistantIInv, Mem!IInv, RevisionIsServed
<1> QED BY <1>1, AssistantIInvHolds, PTL

(* After an attach that ran alone a fact is as verified as its evidence    *)
(* makes it, whatever requests and models have stated before and others    *)
(* write at other facts meanwhile (IntelService.attach_evidence).          *)
THEOREM WeighedByEvidence == SpecPart => []EvidenceIsWeighed
<1>1. ASSUME Fac!IInv PROVE Fac!EvidenceIsWeighed
  <2> SUFFICES ASSUME NEW f \in weighed
               PROVE  /\ facts[f].verification = Fac!Derived(Fac!Refs(f))
                      /\ (\E e \in Fac!Refs(f) : e.stance = "contradicts") => facts[f].verification = "disputed"
    BY DEF Fac!EvidenceIsWeighed
  <2>1. facts[f].verification = Fac!Derived(Fac!Refs(f))
    BY <1>1 DEF Fac!IInv
  <2> QED BY <2>1 DEF Fac!Derived
<1>2. AssistantIInv => EvidenceIsWeighed
  BY <1>1 DEF AssistantIInv, EvidenceIsWeighed
<1> QED BY <1>2, AssistantIInvHolds, PTL

(* A link that was made by name is to a competitor which still has a name  *)
(* that a text of the fact mentioned, the text it had when it was listed:  *)
(* whatever is renamed, deleted, created or edited between that listing    *)
(* and now (auto_link_facts, save_competitor, update_fact).                *)
THEOREM LinksStayRight == SpecPart => []LinkedByNameStaysNamed
<1>1. Cmp!IInv => Cmp!LinkedByNameStaysNamed
  BY DEF Cmp!IInv, Cmp!LinkedByNameStaysNamed
<1>2. AssistantIInv => LinkedByNameStaysNamed
  BY <1>1 DEF AssistantIInv, LinkedByNameStaysNamed
<1> QED BY <1>2, AssistantIInvHolds, PTL

(* When a run has answered, the deltas a client has put together are the   *)
(* answer or white space, however the text was cut into tokens and         *)
(* whatever earlier steps have sent (feed, _react_loop).                   *)
THEOREM StreamIsTheAnswer == SpecPart => []StreamedIsAnswered
<1>1. Age!IInv => Age!StreamedIsAnswered
  BY DEF Age!IInv
<1>2. AssistantIInv => StreamedIsAnswered
  BY <1>1 DEF AssistantIInv, StreamedIsAnswered
<1> QED BY <1>2, AssistantIInvHolds, PTL

(* The agent is shown every address once, with the best of the results     *)
(* that name it, in whatever order the engines answer (_deduplicate).      *)
THEOREM BestIsShown == SpecPart => []BestIsKept
<1>1. Search!IInv => Search!BestIsKept
  BY DEF Search!IInv
<1>2. AssistantIInv => BestIsKept
  BY <1>1 DEF AssistantIInv, BestIsKept
<1> QED BY <1>2, AssistantIInvHolds, PTL

(* The part that was chosen is one of the ten, and the parts whose types   *)
(* are not in their invariants keep to them.                               *)
AssistantTypes ==
  /\ part \in Parts
  /\ part = "components" => Com!ITypeOK
  /\ part = "memory" => Mem!ITypeOK
  /\ part = "facts" => Fac!ITypeOK
  /\ part = "competitors" => Cmp!ITypeOK

LEMMA AssistantTypesHold == SpecPart => []AssistantTypes
<1>1. InitPart => AssistantTypes
  BY ComInitTypes, MemoryInitTypes, FactInitTypes, CompetitorInitTypes DEF InitPart, AssistantTypes
<1>2. AssistantIInv /\ UpkeepIInv /\ AssistantTypes /\ [NextPart]_parts => AssistantTypes'
  <2> SUFFICES ASSUME AssistantIInv, UpkeepIInv, AssistantTypes, [NextPart]_parts PROVE AssistantTypes'
    OBVIOUS
  <2>1. /\ part' = part
        /\ part = "components" => [Com!Next]_(Com!vars)
        /\ part = "memory" => [Mem!Next]_(Mem!vars)
        /\ part = "facts" => [Fac!Next]_(Fac!vars)
        /\ part = "competitors" => [Cmp!Next]_(Cmp!vars)
    BY AssistantSteps, UpkeepSteps
  <2>2. part = "components" => Com!ITypeOK'
    BY <2>1, ComNextTypes DEF UpkeepIInv, AssistantTypes
  <2>3. part = "memory" => Mem!ITypeOK'
    BY <2>1, MemoryNextTypes DEF AssistantIInv, AssistantTypes
  <2>4. part = "facts" => Fac!ITypeOK'
    BY <2>1, FactNextTypes DEF AssistantIInv, AssistantTypes
  <2>5. part = "competitors" => Cmp!ITypeOK'
    BY <2>1, CompetitorNextTypes DEF AssistantIInv, AssistantTypes
  <2> QED BY <2>1, <2>2, <2>3, <2>4, <2>5 DEF AssistantTypes
<1> QED BY <1>1, <1>2, AssistantIInvHolds, UpkeepIInvHolds, PTL DEF SpecPart

(* Whichever part moves keeps to its types: in particular revisions of a   *)
(* core memory are numbered up to their bound, evidence that contradicts   *)
(* itself is refused, no two competitors have one name, links and products *)
(* are of competitors that are there, and what a component was built from  *)
(* are versions that an edit has made.                                     *)
THEOREM AssistantTypeOK == SpecPart => []PartsTypeOK
<1>1. AssistantIInv /\ UpkeepIInv /\ AssistantTypes => PartsTypeOK
  <2> SUFFICES ASSUME AssistantIInv, UpkeepIInv, AssistantTypes PROVE PartsTypeOK
    OBVIOUS
  <2>1. part \in {"components", "loop", "sessions", "memory", "webhooks", "rebuild", "facts", "competitors",
                  "profiles", "search"}
    BY PartsAssumption DEF AssistantTypes
  <2>2. part = "components" => Com!TypeOK
    BY ComTypesOK DEF UpkeepIInv, AssistantTypes
  <2>3. (part = "loop" => Age!TypeOK) /\ (part = "sessions" => Ses!TypeOK) /\ (part = "search" => Search!TypeOK)
    BY DEF AssistantIInv, Age!IInv, Ses!IInv, Search!IInv
  <2>4. part = "memory" => Mem!TypeOK
    BY DEF AssistantTypes, Mem!ITypeOK
  <2>5. TypeOK
    BY DEF UpkeepIInv, IInv, JobOK, Jobs, Files, TypeOK
  <2>6. part = "rebuild" => Reb!TypeOK
    BY DEF UpkeepIInv, Reb!IInv, Reb!StateOK, Reb!TypeOK, Reb!Jobs
  <2>7. part = "facts" => Fac!TypeOK
    BY FactTypesOK DEF AssistantIInv, AssistantTypes
  <2>8. part = "competitors" => Cmp!TypeOK
    BY DEF AssistantTypes, Cmp!ITypeOK
  <2>9. part = "profiles" => Pro!TypeOK
    BY DEF UpkeepIInv, Pro!IInv
  <2> QED BY <2>1, <2>2, <2>3, <2>4, <2>5, <2>6, <2>7, <2>8, <2>9 DEF PartsTypeOK
<1> QED BY <1>1, AssistantIInvHolds, UpkeepIInvHolds, AssistantTypesHold, PTL
====================================================================================
