---------------------------- MODULE CollectionLedger ----------------------------
(***************************************************************************)
(* What a reader of the collection tables may rely on: a task is added to  *)
(* a run that is there, is claimed once, and has an outcome from the       *)
(* first time it ends; a candidate belongs to one task, of its own source; *)
(* only documents of such candidates are sent on; and a run is closed over *)
(* tasks that have ended.  Who works on a task, with what messages, and    *)
(* how often, is left open; Collection implements this specification.      *)
(***************************************************************************)
CONSTANTS Runs, Profiles, Candidates,
          SourceOf,   \* the source of a candidate
          NoTask      \* "no task"

Tasks == Runs \X Profiles

VARIABLES
  run,    \* the status of each run ("none": there is none)
  task,   \* the status of each task
  owner,  \* the task a candidate belongs to
  sent,   \* candidates whose document was sent on
  basis   \* the tasks the status of a run was last computed from

vars == <<run, task, owner, sent, basis>>

Outcomes    == {"succeeded", "failed", "paused"}
RunOutcomes == {"succeeded", "partial_failed", "failed"}
Begun(t)    == task[t] \in Outcomes \cup {"running"}
TasksOf(r)  == {t \in {r} \X Profiles : task[t] # "none"}

Init ==
  /\ run   = [r \in Runs |-> "none"]
  /\ task  = [t \in Tasks |-> "none"]
  /\ owner = [c \in Candidates |-> NoTask]
  /\ sent  = {}
  /\ basis = [r \in Runs |-> {}]

Open(r) ==
  /\ run[r] = "none"
  /\ run' = [run EXCEPT ![r] = "running"]
  /\ UNCHANGED <<task, owner, sent, basis>>

Add(t) ==
  /\ run[t[1]] # "none"
  /\ task[t] = "none"
  /\ task' = [task EXCEPT ![t] = "pending"]
  /\ UNCHANGED <<run, owner, sent, basis>>

Claim(t) ==
  /\ task[t] = "pending"
  /\ task' = [task EXCEPT ![t] = "running"]
  /\ UNCHANGED <<run, owner, sent, basis>>

(* Work that overlaps may end a task again, with another outcome.          *)
End(t, outcome) ==
  /\ Begun(t)
  /\ task' = [task EXCEPT ![t] = outcome]
  /\ UNCHANGED <<run, owner, sent, basis>>

Adopt(c, t) ==
  /\ owner[c] = NoTask
  /\ Begun(t)
  /\ t[2] = SourceOf[c]
  /\ owner' = [owner EXCEPT ![c] = t]
  /\ UNCHANGED <<run, task, sent, basis>>

Send(c) ==
  /\ owner[c] # NoTask
  /\ sent' = sent \cup {c}
  /\ UNCHANGED <<run, task, owner, basis>>

Close(r, seen, outcome) ==
  /\ seen # {}
  /\ \A t \in seen : task[t] \in Outcomes
  /\ run'   = [run EXCEPT ![r] = outcome]
  /\ basis' = [basis EXCEPT ![r] = seen]
  /\ UNCHANGED <<task, owner, sent>>

(* A summary of an earlier time counts a run as open, also when it was     *)
(* closed meanwhile.                                                       *)
Reopen(r, seen) ==
  /\ run[r] # "none"
  /\ run'   = [run EXCEPT ![r] = "running"]
  /\ basis' = [basis EXCEPT ![r] = seen]
  /\ UNCHANGED <<task, owner, sent>>

Next ==
  \/ \E r \in Runs :
       \/ Open(r)
       \/ \E seen \in SUBSET TasksOf(r) :
            Reopen(r, seen) \/ \E o \in RunOutcomes : Close(r, seen, o)
  \/ \E t \in Tasks : Add(t) \/ Claim(t) \/ \E o \in Outcomes : End(t, o)
  \/ \E c \in Candidates : Send(c) \/ \E t \in Tasks : Adopt(c, t)

Spec == Init /\ [][Next]_vars
===============================================================================
