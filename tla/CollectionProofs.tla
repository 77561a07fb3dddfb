--------------------------- MODULE CollectionProofs ---------------------------
(***************************************************************************)
(* Proofs about Collection for every set of runs, profiles, candidates and *)
(* workers and any number of faults.                                       *)
(***************************************************************************)
EXTENDS Collection, TLAPS

(* A task a worker has claimed at some time.                               *)
Claimed(t) == t \in Tasks /\ taskStatus[t] \notin {"none", "pending"}
Known(c)   == c \in Candidates /\ candStatus[c] # "none"

(* What a worker holds refers to committed rows.                           *)
JobNamesRows(j) ==
  /\ j.pc \in {"discovering", "saving", "inserting"} => Claimed(j.try)
  /\ j.pc \in {"reading", "sweeping", "writing"} => j.try = NoTask \/ Claimed(j.try)
  /\ j.pc \in {"fetching", "checking", "advancing"} => Claimed(j.task)
  /\ j.pc = "fetching" => Known(j.cand)

JobsNameRows == \A w \in Workers : JobNamesRows(job[w])

ArtifactsNameRows == \A a \in artifacts : Claimed(a.task) /\ Known(a.cand)

MessageNamesRows(m) ==
  /\ m \in DiscoverMessages => taskStatus[m.task] # "none"
  /\ m \in FetchMessages => Claimed(m.task) /\ Known(m.cand)
  /\ m \in ReplayMessages => m.artifact \in artifacts

QueueNamesRows == \A m \in queue : MessageNamesRows(m)

OwnedIffKnown == \A c \in Candidates : owner[c] # NoTask => candStatus[c] # "none"

(* A summary about to be written: what it says of its tasks is still true. *)
VerdictStands(j) ==
  j.pc = "writing" /\ j.verdict \in RunOutcomes =>
    /\ j.seen # {}
    /\ \A t \in j.seen : RunOf(t) = j.run /\ Terminal(t)

VerdictsStand == \A w \in Workers : VerdictStands(job[w])

(* What no step takes back: rows exist for good, claimed tasks stay        *)
(* claimed, terminal tasks stay terminal.                                  *)
Grows ==
  /\ \A t \in Tasks : TaskStep(taskStatus[t], taskStatus'[t])
  /\ \A c \in Candidates : candStatus[c] # "none" => candStatus'[c] # "none"
  /\ \A c \in Candidates : CandidateStep(c)
  /\ artifacts \subseteq artifacts'

Names == JobsNameRows /\ ArtifactsNameRows /\ QueueNamesRows /\ OwnedIffKnown
Stands == VerdictsStand /\ ClosedOverTerminalTasks

(* The inductive invariant.  ClosedOverTerminalTasks needs VerdictsStand,  *)
(* because a summary is written after the tasks were read; "a terminal     *)
(* task is never reopened" needs Names, because CheckTask and the except   *)
(* clause set an outcome without looking at the old status.                *)
IInv == TypeOK /\ Names /\ Stands

-----------------------------------------------------------------------------
LEMMA InitIInv == Init => IInv
  BY CollectionAssumption
  DEF Init, IInv, TypeOK, Names, Stands, JobsNameRows, JobNamesRows,
      ArtifactsNameRows, QueueNamesRows, OwnedIffKnown, VerdictsStand,
      VerdictStands, ClosedOverTerminalTasks, Closed, RunOutcomes, Idle, Jobs


(* Every action keeps the types.                                           *)
LEMMA TypeStep == TypeOK /\ [Next]_vars => TypeOK'
<1> SUFFICES ASSUME TypeOK, [Next]_vars PROVE TypeOK'
  OBVIOUS
<1> USE CollectionAssumption
      DEF TypeOK, Become, Jobs, Idle, FanOutJobs, DiscoverJobs, SaveJobs, InsertJobs,
          FetchJobs, FinishJobs, ReadJobs, WriteJobs,
          Messages, DiscoverMessages, FetchMessages, ReplayMessages,
          TaskOutcomes, RunOutcomes
<1>1. ASSUME NEW w \in Workers,
             NEW r \in Runs,
             NEW due \in SUBSET Profiles,
             StartRun(w, r, due)
      PROVE  TypeOK'
  BY <1>1 DEF StartRun, IsIdle
<1>2. ASSUME NEW w \in Workers,
             NEW p \in Profiles,
             CreateTask(w, p)
      PROVE  TypeOK'
  BY <1>2 DEF CreateTask, Discover, Tasks
<1>3. ASSUME NEW w \in Workers,
             NEW t \in Tasks,
             ClaimTask(w, t)
      PROVE  TypeOK'
  BY <1>3 DEF ClaimTask, Discover
<1>4. ASSUME NEW w \in Workers,
             NEW t \in Tasks,
             RefuseClaim(w, t)
      PROVE  TypeOK'
  BY <1>4 DEF RefuseClaim, rows
<1>5. ASSUME NEW w \in Workers,
             PauseTask(w)
      PROVE  TypeOK'
  BY <1>5 DEF PauseTask
<1>6. ASSUME NEW w \in Workers,
             NEW found \in SUBSET Candidates,
             DiscoverCandidates(w, found)
      PROVE  TypeOK'
  BY <1>6 DEF DiscoverCandidates, rows
<1>7. ASSUME NEW w \in Workers,
             NEW c \in Candidates,
             FindCandidate(w, c)
      PROVE  TypeOK'
  BY <1>7 DEF FindCandidate, rows
<1>8. ASSUME NEW w \in Workers,
             InsertCandidate(w)
      PROVE  TypeOK'
  BY <1>8 DEF InsertCandidate, Fetch, Methods
<1>9. ASSUME NEW w \in Workers,
             EndDiscover(w)
      PROVE  TypeOK'
  BY <1>9 DEF EndDiscover, RunOf, Tasks
<1>10. ASSUME NEW w \in Workers,
             DiscoverFails(w)
      PROVE  TypeOK'
  BY <1>10 DEF DiscoverFails, InTry
<1>11. ASSUME NEW w \in Workers,
             NEW m \in queue,
             BeginFetch(w, m)
      PROVE  TypeOK'
  BY <1>11 DEF BeginFetch, Methods
<1>12. ASSUME NEW w \in Workers,
             FetchRaises(w)
      PROVE  TypeOK'
  BY <1>12 DEF FetchRaises, Fetch, rows
<1>13. ASSUME NEW w \in Workers,
             NEW a \in Artifacts,
             FetchReturnsBody(w, a)
      PROVE  TypeOK'
  BY <1>13 DEF FetchReturnsBody, Replay
<1>14. ASSUME NEW w \in Workers,
             NEW status \in Settled,
             FetchReturnsNoBody(w, status)
      PROVE  TypeOK'
  BY <1>14 DEF FetchReturnsNoBody, Settled
<1>15. ASSUME NEW w \in Workers,
             NEW a \in artifacts,
             NormalizeNeedsOcr(w, a)
      PROVE  TypeOK'
  BY <1>15 DEF NormalizeNeedsOcr, Replay, rows
<1>16. ASSUME NEW w \in Workers,
             NEW a \in artifacts,
             NormalizeNeedsRender(w, a)
      PROVE  TypeOK'
  BY <1>16 DEF NormalizeNeedsRender, Fetch, Methods, Artifacts, rows
<1>17. ASSUME NEW w \in Workers,
             NEW k \in {"normalize", "ocr"},
             NEW a \in artifacts,
             ReplayRaises(w, k, a)
      PROVE  TypeOK'
  BY <1>17 DEF ReplayRaises, rows
<1>18. ASSUME NEW w \in Workers,
             NEW k \in {"normalize", "ocr"},
             NEW a \in artifacts,
             NEW s \in Verdicts,
             Decide(w, k, a, s)
      PROVE  TypeOK'
  BY <1>18 DEF Decide, Artifacts, Settled
<1>19. ASSUME NEW w \in Workers,
             CheckTask(w)
      PROVE  TypeOK'
  BY <1>19 DEF CheckTask, rows
<1>20. ASSUME NEW w \in Workers,
             FinishTask(w)
      PROVE  TypeOK'
  BY <1>20 DEF FinishTask, RunOf, Tasks
<1>21. ASSUME NEW w \in Workers,
             ReadTasks(w)
      PROVE  TypeOK'
  BY <1>21 DEF ReadTasks, Summarized, Summary, TasksOf, Tasks, rows
<1>22. ASSUME NEW w \in Workers,
             WriteRun(w)
      PROVE  TypeOK'
  BY <1>22 DEF WriteRun
<1>23. ASSUME NEW w \in Workers,
             NEW r \in Runs,
             ListActiveRun(w, r)
      PROVE  TypeOK'
  BY <1>23 DEF ListActiveRun, rows
<1>24. ASSUME NEW w \in Workers,
             NEW late \in SUBSET Tasks,
             Sweep(w, late)
      PROVE  TypeOK'
  BY <1>24 DEF Sweep, Summarized, Summary, TasksOf, Tasks, Discover, rows
<1>25. ASSUME NEW w \in Workers,
             Crash(w)
      PROVE  TypeOK'
  BY <1>25 DEF Crash, rows
<1>26. ASSUME NEW m \in queue, RetriesUsedUp(m) \/ Lose(m)
      PROVE  TypeOK'
  BY <1>26 DEF RetriesUsedUp, Lose, rows
<1>27. CASE UNCHANGED vars
  BY <1>27 DEF vars
<1> HIDE DEF TypeOK, Become, Jobs, Idle, FanOutJobs, DiscoverJobs, SaveJobs,
     InsertJobs,
          FetchJobs, FinishJobs, ReadJobs, WriteJobs,
          Messages, DiscoverMessages, FetchMessages, ReplayMessages,
          TaskOutcomes, RunOutcomes
<1> QED
  BY <1>1, <1>2, <1>3, <1>4, <1>5, <1>6, <1>7, <1>8, <1>9, <1>10, <1>11,
     <1>12, <1>13, <1>14, <1>15, <1>16, <1>17, <1>18, <1>19, <1>20, <1>21,
     <1>22, <1>23, <1>24, <1>25, <1>26, <1>27
     DEF Next, Deliver, Continue, Beat

(* Rows are never taken back, and a task takes the steps of its life       *)
(* cycle.                                                                  *)
LEMMA Growth == IInv /\ [Next]_vars => Grows
<1> SUFFICES ASSUME IInv, [Next]_vars PROVE Grows
  OBVIOUS
<1> USE CollectionAssumption
      DEF IInv, Names, TypeOK, Grows, TaskStep, CandidateStep, TaskOutcomes,
          JobsNameRows, JobNamesRows, Claimed, OwnedIffKnown
<1>1. ASSUME NEW w \in Workers,
             NEW r \in Runs,
             NEW due \in SUBSET Profiles,
             StartRun(w, r, due)
      PROVE  Grows
  BY <1>1 DEF StartRun
<1>2. ASSUME NEW w \in Workers,
             NEW p \in Profiles,
             CreateTask(w, p)
      PROVE  Grows
  BY <1>2 DEF CreateTask
<1>3. ASSUME NEW w \in Workers,
             NEW t \in Tasks,
             ClaimTask(w, t)
      PROVE  Grows
  BY <1>3 DEF ClaimTask, Claimable
<1>4. ASSUME NEW w \in Workers,
             NEW t \in Tasks,
             RefuseClaim(w, t)
      PROVE  Grows
  BY <1>4 DEF RefuseClaim, rows
<1>5. ASSUME NEW w \in Workers,
             PauseTask(w)
      PROVE  Grows
  BY <1>5 DEF PauseTask
<1>6. ASSUME NEW w \in Workers,
             NEW found \in SUBSET Candidates,
             DiscoverCandidates(w, found)
      PROVE  Grows
  BY <1>6 DEF DiscoverCandidates, rows
<1>7. ASSUME NEW w \in Workers,
             NEW c \in Candidates,
             FindCandidate(w, c)
      PROVE  Grows
  BY <1>7 DEF FindCandidate, rows
<1>8. ASSUME NEW w \in Workers,
             InsertCandidate(w)
      PROVE  Grows
  BY <1>8 DEF InsertCandidate
<1>9. ASSUME NEW w \in Workers,
             EndDiscover(w)
      PROVE  Grows
  BY <1>9 DEF EndDiscover
<1>10. ASSUME NEW w \in Workers,
             DiscoverFails(w)
      PROVE  Grows
  BY <1>10 DEF DiscoverFails, InTry
<1>11. ASSUME NEW w \in Workers,
             NEW m \in queue,
             BeginFetch(w, m)
      PROVE  Grows
  BY <1>11 DEF BeginFetch
<1>12. ASSUME NEW w \in Workers,
             FetchRaises(w)
      PROVE  Grows
  BY <1>12 DEF FetchRaises, rows
<1>13. ASSUME NEW w \in Workers,
             NEW a \in Artifacts,
             FetchReturnsBody(w, a)
      PROVE  Grows
  BY <1>13 DEF FetchReturnsBody
<1>14. ASSUME NEW w \in Workers,
             NEW status \in Settled,
             FetchReturnsNoBody(w, status)
      PROVE  Grows
  BY <1>14 DEF FetchReturnsNoBody, Settled
<1>15. ASSUME NEW w \in Workers,
             NEW a \in artifacts,
             NormalizeNeedsOcr(w, a)
      PROVE  Grows
  BY <1>15 DEF NormalizeNeedsOcr, rows
<1>16. ASSUME NEW w \in Workers,
             NEW a \in artifacts,
             NormalizeNeedsRender(w, a)
      PROVE  Grows
  BY <1>16 DEF NormalizeNeedsRender, rows
<1>17. ASSUME NEW w \in Workers,
             NEW k \in {"normalize", "ocr"},
             NEW a \in artifacts,
             ReplayRaises(w, k, a)
      PROVE  Grows
  BY <1>17 DEF ReplayRaises, rows
<1>18. ASSUME NEW w \in Workers,
             NEW k \in {"normalize", "ocr"},
             NEW a \in artifacts,
             NEW s \in Verdicts,
             Decide(w, k, a, s)
      PROVE  Grows
  BY <1>18 DEF Decide
<1>19. ASSUME NEW w \in Workers,
             CheckTask(w)
      PROVE  Grows
  BY <1>19 DEF CheckTask, rows
<1>20. ASSUME NEW w \in Workers,
             FinishTask(w)
      PROVE  Grows
  BY <1>20 DEF FinishTask
<1>21. ASSUME NEW w \in Workers,
             ReadTasks(w)
      PROVE  Grows
  BY <1>21 DEF ReadTasks, rows
<1>22. ASSUME NEW w \in Workers,
             WriteRun(w)
      PROVE  Grows
  BY <1>22 DEF WriteRun
<1>23. ASSUME NEW w \in Workers,
             NEW r \in Runs,
             ListActiveRun(w, r)
      PROVE  Grows
  BY <1>23 DEF ListActiveRun, rows
<1>24. ASSUME NEW w \in Workers,
             NEW late \in SUBSET Tasks,
             Sweep(w, late)
      PROVE  Grows
  BY <1>24 DEF Sweep, rows
<1>25. ASSUME NEW w \in Workers,
             Crash(w)
      PROVE  Grows
  BY <1>25 DEF Crash, rows
<1>26. ASSUME NEW m \in queue, RetriesUsedUp(m) \/ Lose(m)
      PROVE  Grows
  BY <1>26 DEF RetriesUsedUp, Lose, rows
<1>27. CASE UNCHANGED vars
  BY <1>27 DEF vars
<1> HIDE DEF IInv, Names, TypeOK, Grows, TaskStep, CandidateStep,
     TaskOutcomes,
          JobsNameRows, JobNamesRows, Claimed, OwnedIffKnown
<1> QED
  BY <1>1, <1>2, <1>3, <1>4, <1>5, <1>6, <1>7, <1>8, <1>9, <1>10, <1>11,
     <1>12, <1>13, <1>14, <1>15, <1>16, <1>17, <1>18, <1>19, <1>20, <1>21,
     <1>22, <1>23, <1>24, <1>25, <1>26, <1>27
     DEF Next, Deliver, Continue, Beat

(* What workers, messages, artifacts and summaries say of the rows stays   *)
(* true.                                                                   *)
LEMMA ReferenceStep == IInv /\ Grows /\ [Next]_vars => (Names /\ Stands)'
<1> SUFFICES ASSUME IInv, Grows, [Next]_vars PROVE (Names /\ Stands)'
  OBVIOUS
<1> USE CollectionAssumption
      DEF IInv, Names, Stands, TypeOK, Grows, TaskStep, TaskOutcomes,
          JobsNameRows, JobNamesRows, Claimed, Known, Become,
          Jobs, Idle, FanOutJobs, DiscoverJobs, SaveJobs, InsertJobs,
          FetchJobs, FinishJobs, ReadJobs, WriteJobs,
          Messages, DiscoverMessages, FetchMessages, ReplayMessages,
          VerdictsStand, VerdictStands, Terminal, RunOf, RunOutcomes,
          QueueNamesRows, MessageNamesRows, ArtifactsNameRows,
          OwnedIffKnown, ClosedOverTerminalTasks, Closed
<1>1. ASSUME NEW w \in Workers,
             NEW r \in Runs,
             NEW due \in SUBSET Profiles,
             StartRun(w, r, due)
      PROVE  (Names /\ Stands)'
  BY <1>1 DEF StartRun
<1>2. ASSUME NEW w \in Workers,
             NEW p \in Profiles,
             CreateTask(w, p)
      PROVE  (Names /\ Stands)'
  <2>1. /\ <<job[w].run, p>> \in Tasks
        /\ taskStatus'[<<job[w].run, p>>] # "none"
    BY <1>2 DEF CreateTask, Tasks
  <2>2. ASSUME NEW v \in Workers PROVE JobNamesRows(job[v])'
    <3>1. CASE v = w
      <4>1. job'[w].pc \in {"idle", "fan_out"}
        BY <1>2 DEF CreateTask
      <4> QED
        BY <3>1, <4>1
    <3>2. CASE v # w
      <4>1. job'[v] = job[v]
        BY <1>2, <3>2 DEF CreateTask
      <4> QED
        BY <4>1
    <3> QED
      BY <3>1, <3>2
  <2>3. ArtifactsNameRows'
    BY <1>2 DEF CreateTask
  <2>4. OwnedIffKnown'
    BY <1>2 DEF CreateTask
  <2>5. ASSUME NEW m \in queue' PROVE MessageNamesRows(m)'
    <3>1. CASE m \in queue
      BY <1>2, <3>1 DEF CreateTask
    <3>2. CASE m = Discover(<<job[w].run, p>>)
      BY <1>2, <2>1, <3>2 DEF CreateTask, Discover, Methods
    <3> QED
      BY <1>2, <3>1, <3>2 DEF CreateTask
  <2>6. Names'
    BY <2>2, <2>3, <2>4, <2>5
  <2>7. ClosedOverTerminalTasks'
    <3>1. UNCHANGED <<runStatus, covered>>
      BY <1>2 DEF CreateTask
    <3>2. ASSUME NEW t \in Tasks, Terminal(t) PROVE Terminal(t)'
      BY <3>2
    <3>3. ASSUME NEW r \in Runs, Closed(r)
          PROVE  /\ covered[r] # {}
                 /\ \A t \in covered[r] : t \in Tasks /\ RunOf(t) = r /\ Terminal(t)
      BY <3>3
    <3> QED
      BY ONLY <3>1, <3>2, <3>3 DEF ClosedOverTerminalTasks, Closed
  <2>8. ASSUME NEW v \in Workers PROVE VerdictStands(job[v])'
    <3>1. job'[v].pc = "writing" => job'[v] = job[v]
      BY <1>2 DEF CreateTask
    <3>2. job[v].pc = "writing" => job[v].seen \subseteq Tasks
      OBVIOUS
    <3> QED
      BY <3>1, <3>2
  <2> QED
    BY <2>6, <2>7, <2>8
<1>3. ASSUME NEW w \in Workers,
             NEW t \in Tasks,
             ClaimTask(w, t)
      PROVE  (Names /\ Stands)'
  BY <1>3 DEF ClaimTask, Claimable
<1>4. ASSUME NEW w \in Workers,
             NEW t \in Tasks,
             RefuseClaim(w, t)
      PROVE  (Names /\ Stands)'
  BY <1>4 DEF RefuseClaim, rows
<1>5. ASSUME NEW w \in Workers,
             PauseTask(w)
      PROVE  (Names /\ Stands)'
  BY <1>5 DEF PauseTask
<1>6. ASSUME NEW w \in Workers,
             NEW found \in SUBSET Candidates,
             DiscoverCandidates(w, found)
      PROVE  (Names /\ Stands)'
  BY <1>6 DEF DiscoverCandidates, rows
<1>7. ASSUME NEW w \in Workers,
             NEW c \in Candidates,
             FindCandidate(w, c)
      PROVE  (Names /\ Stands)'
  BY <1>7 DEF FindCandidate, rows
<1>8. ASSUME NEW w \in Workers,
             InsertCandidate(w)
      PROVE  (Names /\ Stands)'
  BY <1>8 DEF InsertCandidate, Fetch, Methods
<1>9. ASSUME NEW w \in Workers,
             EndDiscover(w)
      PROVE  (Names /\ Stands)'
  BY <1>9 DEF EndDiscover
<1>10. ASSUME NEW w \in Workers,
             DiscoverFails(w)
      PROVE  (Names /\ Stands)'
  BY <1>10 DEF DiscoverFails, InTry
<1>11. ASSUME NEW w \in Workers,
             NEW m \in queue,
             BeginFetch(w, m)
      PROVE  (Names /\ Stands)'
  BY <1>11 DEF BeginFetch, Methods
<1>12. ASSUME NEW w \in Workers,
             FetchRaises(w)
      PROVE  (Names /\ Stands)'
  BY <1>12 DEF FetchRaises, rows, Fetch
<1>13. ASSUME NEW w \in Workers,
             NEW a \in Artifacts,
             FetchReturnsBody(w, a)
      PROVE  (Names /\ Stands)'
  BY <1>13 DEF FetchReturnsBody, Replay, Artifacts
<1>14. ASSUME NEW w \in Workers,
             NEW status \in Settled,
             FetchReturnsNoBody(w, status)
      PROVE  (Names /\ Stands)'
  BY <1>14 DEF FetchReturnsNoBody, Settled
<1>15. ASSUME NEW w \in Workers,
             NEW a \in artifacts,
             NormalizeNeedsOcr(w, a)
      PROVE  (Names /\ Stands)'
  BY <1>15 DEF NormalizeNeedsOcr, rows, Replay
<1>16. ASSUME NEW w \in Workers,
             NEW a \in artifacts,
             NormalizeNeedsRender(w, a)
      PROVE  (Names /\ Stands)'
  BY <1>16 DEF NormalizeNeedsRender, rows, Fetch
<1>17. ASSUME NEW w \in Workers,
             NEW k \in {"normalize", "ocr"},
             NEW a \in artifacts,
             ReplayRaises(w, k, a)
      PROVE  (Names /\ Stands)'
  BY <1>17 DEF ReplayRaises, rows
<1>18. ASSUME NEW w \in Workers,
             NEW k \in {"normalize", "ocr"},
             NEW a \in artifacts,
             NEW s \in Verdicts,
             Decide(w, k, a, s)
      PROVE  (Names /\ Stands)'
  BY <1>18 DEF Decide
<1>19. ASSUME NEW w \in Workers,
             CheckTask(w)
      PROVE  (Names /\ Stands)'
  BY <1>19 DEF CheckTask, rows
<1>20. ASSUME NEW w \in Workers,
             FinishTask(w)
      PROVE  (Names /\ Stands)'
  BY <1>20 DEF FinishTask
<1>21. ASSUME NEW w \in Workers,
             ReadTasks(w)
      PROVE  (Names /\ Stands)'
  BY <1>21 DEF ReadTasks, rows, Summarized, Summary, TasksOf, Tasks
<1>22. ASSUME NEW w \in Workers,
             WriteRun(w)
      PROVE  (Names /\ Stands)'
  BY <1>22 DEF WriteRun
<1>23. ASSUME NEW w \in Workers,
             NEW r \in Runs,
             ListActiveRun(w, r)
      PROVE  (Names /\ Stands)'
  BY <1>23 DEF ListActiveRun, rows
<1>24. ASSUME NEW w \in Workers,
             NEW late \in SUBSET Tasks,
             Sweep(w, late)
      PROVE  (Names /\ Stands)'
  <2>1. Names'
    BY <1>24 DEF Sweep, Summarized, Discover, TasksOf, Tasks, Methods, rows
  <2>2. Stands'
    BY <1>24 DEF Sweep, Summarized, Summary, TasksOf, Tasks, rows
  <2> QED
    BY <2>1, <2>2
<1>25. ASSUME NEW w \in Workers,
             Crash(w)
      PROVE  (Names /\ Stands)'
  BY <1>25 DEF Crash, rows
<1>26. ASSUME NEW m \in queue, RetriesUsedUp(m) \/ Lose(m)
      PROVE  (Names /\ Stands)'
  BY <1>26 DEF RetriesUsedUp, Lose, rows
<1>27. CASE UNCHANGED vars
  BY <1>27 DEF vars
<1> HIDE DEF IInv, Names, Stands, TypeOK, Grows, TaskStep, TaskOutcomes,
          JobsNameRows, JobNamesRows, Claimed, Known, Become,
          Jobs, Idle, FanOutJobs, DiscoverJobs, SaveJobs, InsertJobs,
          FetchJobs, FinishJobs, ReadJobs, WriteJobs,
          Messages, DiscoverMessages, FetchMessages, ReplayMessages,
          VerdictsStand, VerdictStands, Terminal, RunOf, RunOutcomes,
          QueueNamesRows, MessageNamesRows, ArtifactsNameRows,
          OwnedIffKnown, ClosedOverTerminalTasks, Closed
<1> QED
  BY <1>1, <1>2, <1>3, <1>4, <1>5, <1>6, <1>7, <1>8, <1>9, <1>10, <1>11,
     <1>12, <1>13, <1>14, <1>15, <1>16, <1>17, <1>18, <1>19, <1>20, <1>21,
     <1>22, <1>23, <1>24, <1>25, <1>26, <1>27
     DEF Next, Deliver, Continue, Beat

-----------------------------------------------------------------------------
(* IInv is an invariant of the pipeline.                                   *)
THEOREM Invariant == Spec => []IInv
<1>1. IInv /\ [Next]_vars => IInv'
  BY TypeStep, Growth, ReferenceStep DEF IInv
<1> QED
  BY InitIInv, <1>1, PTL DEF Spec

(* Every variable keeps its type, for every instance.                      *)
THEOREM TypeCorrect == Spec => []TypeOK
<1>1. IInv => TypeOK
  BY DEF IInv
<1> QED
  BY Invariant, <1>1, PTL

(* A closed run was closed over tasks that are all still terminal.         *)
THEOREM ClosedRunsAreDone == Spec => []ClosedOverTerminalTasks
<1>1. IInv => ClosedOverTerminalTasks
  BY DEF IInv, Stands
<1> QED
  BY Invariant, <1>1, PTL

(* No message names a row that is not there.                               *)
THEOREM MessagesAreResolvable == Spec => []MessagesNameCommittedRows
<1>1. IInv => MessagesNameCommittedRows
  BY DEF IInv, Names, QueueNamesRows, MessageNamesRows, ArtifactsNameRows,
         Known, MessagesNameCommittedRows
<1> QED
  BY Invariant, <1>1, PTL

(* A task is claimed before it gets an outcome and is never open again.    *)
THEOREM TasksAreNotReopened == Spec => TaskLifecycle
<1>1. IInv /\ [Next]_vars => [\A t \in Tasks : TaskStep(taskStatus[t], taskStatus'[t])]_vars
  BY Growth DEF Grows
<1> QED
  BY Invariant, <1>1, PTL DEF Spec, TaskLifecycle

(* A candidate row keeps the task that inserted it.                        *)
THEOREM CandidatesKeepTheirTask == Spec => CandidateKeepsTask
<1>1. IInv /\ [Next]_vars => [\A c \in Candidates : CandidateStep(c)]_vars
  BY Growth DEF Grows
<1> QED
  BY Invariant, <1>1, PTL DEF Spec, CandidateKeepsTask

-----------------------------------------------------------------------------
(* The ledger.  What a worker is about to write fits the rows it goes to:  *)
(* the run is there, the tasks it has read are tasks of that run, and the  *)
(* candidates it saves come from the source of its task.                   *)
TasksHaveRuns == \A t \in Tasks : taskStatus[t] # "none" => runStatus[RunOf(t)] # "none"
KnownAreOwned == \A c \in Candidates : candStatus[c] # "none" => owner[c] # NoTask

JobHasOrigin(j) ==
  /\ j.pc \in {"fan_out", "reading", "sweeping", "writing"} => runStatus[j.run] # "none"
  /\ j.pc = "writing" => \A t \in j.seen : RunOf(t) = j.run /\ taskStatus[t] # "none"
  /\ j.pc \in {"saving", "inserting"} => \A c \in j.todo : SourceOf[c] = j.try[2]
  /\ j.pc = "inserting" => SourceOf[j.cand] = j.try[2]

Origins == TasksHaveRuns /\ KnownAreOwned /\ \A w \in Workers : JobHasOrigin(job[w])

LEMMA InitOrigins == Init => Origins
  BY DEF Init, Origins, TasksHaveRuns, KnownAreOwned, JobHasOrigin, Idle, RunOf, Tasks

LEMMA OriginStep == IInv /\ Origins /\ [Next]_vars => Origins'
<1> SUFFICES ASSUME IInv, Origins, [Next]_vars PROVE Origins'
  OBVIOUS
<1>0. Grows
  BY Growth
<1> USE <1>0, CollectionAssumption DEF Origins, TasksHaveRuns,
          JobHasOrigin, KnownAreOwned, IInv, Names, TypeOK, Grows,
          TaskStep, CandidateStep, JobsNameRows, JobNamesRows,
          ArtifactsNameRows, Claimed, Known, TaskOutcomes, RunOf, Become,
          Jobs, Idle, FanOutJobs, DiscoverJobs, SaveJobs, InsertJobs,
          FetchJobs, FinishJobs, ReadJobs, WriteJobs
<1>1. ASSUME NEW w \in Workers, NEW r \in Runs, NEW due \in SUBSET Profiles, StartRun(w, r, due)
      PROVE  Origins'
  BY <1>1 DEF StartRun
<1>2. ASSUME NEW w \in Workers, NEW p \in Profiles, CreateTask(w, p)
      PROVE  Origins'
  BY <1>2 DEF CreateTask, Tasks
<1>3. ASSUME NEW w \in Workers, NEW t \in Tasks, ClaimTask(w, t)
      PROVE  Origins'
  BY <1>3 DEF ClaimTask, Claimable
<1>4. ASSUME NEW w \in Workers, NEW t \in Tasks, RefuseClaim(w, t)
      PROVE  Origins'
  BY <1>4 DEF RefuseClaim, rows
<1>5. ASSUME NEW w \in Workers, PauseTask(w)
      PROVE  Origins'
  BY <1>5 DEF PauseTask
<1>6. ASSUME NEW w \in Workers, NEW found \in SUBSET Candidates, DiscoverCandidates(w, found)
      PROVE  Origins'
  BY <1>6 DEF DiscoverCandidates, rows
<1>7. ASSUME NEW w \in Workers, NEW c \in Candidates, FindCandidate(w, c)
      PROVE  Origins'
  BY <1>7 DEF FindCandidate, rows
<1>8. ASSUME NEW w \in Workers, InsertCandidate(w)
      PROVE  Origins'
  BY <1>8 DEF InsertCandidate
<1>9. ASSUME NEW w \in Workers, EndDiscover(w)
      PROVE  Origins'
  BY <1>9 DEF EndDiscover, Tasks
<1>10. ASSUME NEW w \in Workers, DiscoverFails(w)
      PROVE  Origins'
  BY <1>10 DEF DiscoverFails, InTry
<1>11. ASSUME NEW w \in Workers, NEW m \in queue, BeginFetch(w, m)
      PROVE  Origins'
  BY <1>11 DEF BeginFetch, QueueNamesRows, MessageNamesRows, FetchMessages
<1>12. ASSUME NEW w \in Workers, FetchRaises(w)
      PROVE  Origins'
  BY <1>12 DEF FetchRaises, rows
<1>13. ASSUME NEW w \in Workers, NEW a \in Artifacts, FetchReturnsBody(w, a)
      PROVE  Origins'
  BY <1>13 DEF FetchReturnsBody, Artifacts
<1>14. ASSUME NEW w \in Workers, NEW status \in Settled, FetchReturnsNoBody(w, status)
      PROVE  Origins'
  BY <1>14 DEF FetchReturnsNoBody
<1>15. ASSUME NEW w \in Workers, NEW a \in artifacts, NormalizeNeedsOcr(w, a)
      PROVE  Origins'
  BY <1>15 DEF NormalizeNeedsOcr, rows
<1>16. ASSUME NEW w \in Workers, NEW a \in artifacts, NormalizeNeedsRender(w, a)
      PROVE  Origins'
  BY <1>16 DEF NormalizeNeedsRender, rows
<1>17. ASSUME NEW w \in Workers, NEW k \in {"normalize", "ocr"}, NEW a \in artifacts, ReplayRaises(w, k, a)
      PROVE  Origins'
  BY <1>17 DEF ReplayRaises, rows
<1>18. ASSUME NEW w \in Workers, NEW k \in {"normalize", "ocr"}, NEW a \in artifacts, NEW s \in Verdicts, Decide(w, k, a, s)
      PROVE  Origins'
  BY <1>18 DEF Decide, Artifacts
<1>19. ASSUME NEW w \in Workers, CheckTask(w)
      PROVE  Origins'
  BY <1>19 DEF CheckTask, rows
<1>20. ASSUME NEW w \in Workers, FinishTask(w)
      PROVE  Origins'
  BY <1>20 DEF FinishTask, Tasks
<1>21. ASSUME NEW w \in Workers, ReadTasks(w)
      PROVE  Origins'
  BY <1>21 DEF ReadTasks, rows, Summarized, TasksOf, Tasks
<1>22. ASSUME NEW w \in Workers, WriteRun(w)
      PROVE  Origins'
  BY <1>22 DEF WriteRun, RunOutcomes
<1>23. ASSUME NEW w \in Workers, NEW r \in Runs, ListActiveRun(w, r)
      PROVE  Origins'
  BY <1>23 DEF ListActiveRun, rows
<1>24. ASSUME NEW w \in Workers, NEW late \in SUBSET Tasks, Sweep(w, late)
      PROVE  Origins'
  BY <1>24 DEF Sweep, rows, Summarized, TasksOf, Tasks
<1>25. ASSUME NEW w \in Workers, Crash(w)
      PROVE  Origins'
  BY <1>25 DEF Crash, rows
<1>26. ASSUME NEW m \in queue, RetriesUsedUp(m) \/ Lose(m)
      PROVE  Origins'
  BY <1>26 DEF RetriesUsedUp, Lose, rows
<1>27. CASE UNCHANGED vars
  BY <1>27 DEF vars
<1> HIDE <1>0 DEF Origins, TasksHaveRuns, JobHasOrigin, KnownAreOwned,
          IInv, Names, TypeOK, Grows, TaskStep, CandidateStep,
          JobsNameRows, JobNamesRows, ArtifactsNameRows, Claimed, Known,
          TaskOutcomes, RunOf, Become, Jobs, Idle, FanOutJobs,
          DiscoverJobs, SaveJobs, InsertJobs, FetchJobs, FinishJobs,
          ReadJobs, WriteJobs
<1> QED
  BY <1>1, <1>2, <1>3, <1>4, <1>5, <1>6, <1>7, <1>8, <1>9, <1>10, <1>11,
     <1>12, <1>13, <1>14, <1>15, <1>16, <1>17, <1>18, <1>19, <1>20, <1>21,
     <1>22, <1>23, <1>24, <1>25, <1>26, <1>27
     DEF Next, Deliver, Continue, Beat

(* The steps of the ledger.                                                *)
LEMMA Rereads ==
  ASSUME UNCHANGED <<runStatus, taskStatus, owner, ingestSent, covered>>
  PROVE  UNCHANGED Ledger!vars
  BY DEF Ledger!vars

LEMMA Ends ==
  ASSUME NEW t \in Tasks, Claimed(t), NEW o \in TaskOutcomes, TypeOK,
         taskStatus' = [taskStatus EXCEPT ![t] = o],
         UNCHANGED <<runStatus, owner, ingestSent, covered>>
  PROVE  Ledger!Next
<1>1. Ledger!Begun(t)
  BY DEF Claimed, TypeOK, Ledger!Begun, Ledger!Outcomes, TaskOutcomes
<1>2. Ledger!End(t, o)
  BY <1>1 DEF Ledger!End
<1> QED
  BY <1>2 DEF Ledger!Next, Ledger!Tasks, Tasks, Ledger!Outcomes, TaskOutcomes

LEMMA LedgerStep == IInv /\ Origins /\ [Next]_vars => [Ledger!Next]_(Ledger!vars)
<1> DEFINE Goal == Ledger!Next \/ UNCHANGED Ledger!vars
<1> SUFFICES ASSUME IInv, Origins, [Next]_vars PROVE Goal
  OBVIOUS
<1> USE DEF IInv, Names
<1>0. TypeOK /\ JobsNameRows
  OBVIOUS
<1> HIDE DEF Goal
<1>1. ASSUME NEW w \in Workers, NEW r \in Runs, NEW due \in SUBSET Profiles, StartRun(w, r, due)
      PROVE  Goal
  <2>1. Ledger!Open(r)
    BY <1>1 DEF StartRun, Ledger!Open
  <2> QED
    BY <2>1 DEF Goal, Ledger!Next
<1>2. ASSUME NEW w \in Workers, NEW p \in Profiles, CreateTask(w, p)
      PROVE  Goal
  <2>1. PICK t \in Tasks : t = <<job[w].run, p>> /\ runStatus[t[1]] # "none"
    BY <1>2, <1>0 DEF CreateTask, Tasks, Origins, JobHasOrigin, TypeOK, Jobs, Idle, FanOutJobs,
         DiscoverJobs, SaveJobs, InsertJobs, FetchJobs, FinishJobs, ReadJobs, WriteJobs
  <2>2. CASE taskStatus[t] = "none"
    <3>1. Ledger!Add(t)
      BY <1>2, <2>1, <2>2 DEF CreateTask, Ledger!Add
    <3> QED
      BY <3>1 DEF Goal, Ledger!Next, Ledger!Tasks, Tasks
  <2>3. CASE taskStatus[t] # "none"
    BY <1>2, <1>0, <2>1, <2>3, Rereads DEF CreateTask, TypeOK, Goal
  <2> QED
    BY <2>2, <2>3
<1>3. ASSUME NEW w \in Workers, NEW t \in Tasks, ClaimTask(w, t)
      PROVE  Goal
  <2>1. CASE taskStatus[t] = "pending"
    <3>1. Ledger!Claim(t)
      BY <1>3, <2>1 DEF ClaimTask, Ledger!Claim
    <3> QED
      BY <3>1 DEF Goal, Ledger!Next, Ledger!Tasks, Tasks
  <2>2. CASE taskStatus[t] = "running"
    BY <1>3, <1>0, <2>2, Rereads DEF ClaimTask, TypeOK, Goal
  <2> QED
    BY <1>3, <2>1, <2>2 DEF ClaimTask, Claimable
<1>4. ASSUME NEW w \in Workers, PauseTask(w)
      PROVE  Goal
  <2>1. Claimed(job[w].try) /\ job[w].try \in Tasks
    BY <1>4, <1>0 DEF PauseTask, JobsNameRows, JobNamesRows, Claimed
  <2> QED
    BY <1>4, <1>0, <2>1, Ends DEF PauseTask, TaskOutcomes, Goal
<1>5. ASSUME NEW w \in Workers, InsertCandidate(w)
      PROVE  Goal
  <2>1. PICK c \in Candidates, t \in Tasks :
          c = job[w].cand /\ t = job[w].try /\ Claimed(t) /\ SourceOf[c] = t[2]
    BY <1>5, <1>0 DEF InsertCandidate, Origins, JobHasOrigin, JobsNameRows, JobNamesRows, Claimed,
         TypeOK, Jobs, Idle, FanOutJobs, DiscoverJobs, SaveJobs, InsertJobs, FetchJobs, FinishJobs,
         ReadJobs, WriteJobs
  <2>2. CASE candStatus[c] = "none"
    <3>1. owner[c] = NoTask
      BY <2>2 DEF OwnedIffKnown
    <3>2. Ledger!Begun(t)
      BY <1>0, <2>1 DEF Claimed, TypeOK, Ledger!Begun, Ledger!Outcomes, TaskOutcomes
    <3>3. Ledger!Adopt(c, t)
      BY <1>5, <2>1, <2>2, <3>1, <3>2 DEF InsertCandidate, Ledger!Adopt
    <3> QED
      BY <3>3 DEF Goal, Ledger!Next, Ledger!Tasks, Tasks
  <2>3. CASE candStatus[c] # "none"
    BY <1>5, <2>1, <2>3, Rereads DEF InsertCandidate, Goal
  <2> QED
    BY <2>2, <2>3
<1>6. ASSUME NEW w \in Workers, EndDiscover(w)
      PROVE  Goal
  <2>1. Claimed(job[w].try) /\ job[w].try \in Tasks
    BY <1>6, <1>0 DEF EndDiscover, JobsNameRows, JobNamesRows, Claimed
  <2>2. CASE job[w].new
    BY <1>6, <2>2, Rereads DEF EndDiscover, Goal
  <2>3. CASE ~job[w].new
    BY <1>6, <1>0, <2>1, <2>3, Ends DEF EndDiscover, TaskOutcomes, Goal
  <2> QED
    BY <2>2, <2>3
<1>7. ASSUME NEW w \in Workers, DiscoverFails(w)
      PROVE  Goal
  <2>1. Claimed(job[w].try) /\ job[w].try \in Tasks
    BY <1>7, <1>0 DEF DiscoverFails, InTry, JobsNameRows, JobNamesRows, Claimed
  <2> QED
    BY <1>7, <1>0, <2>1, Ends DEF DiscoverFails, TaskOutcomes, Goal
<1>8. ASSUME NEW w \in Workers, NEW k \in {"normalize", "ocr"}, NEW a \in artifacts, NEW s \in Verdicts, Decide(w, k, a, s)
      PROVE  Goal
  <2>1. a.cand \in Candidates /\ owner[a.cand] # NoTask
    BY <1>0 DEF ArtifactsNameRows, Known, Origins, KnownAreOwned
  <2>2. CASE s = "accepted"
    <3>1. Ledger!Send(a.cand)
      BY <1>8, <2>1, <2>2 DEF Decide, Ledger!Send
    <3> QED
      BY <2>1, <3>1 DEF Goal, Ledger!Next
  <2>3. CASE s # "accepted"
    BY <1>8, <2>3, Rereads DEF Decide, Goal
  <2> QED
    BY <2>2, <2>3
<1>9. ASSUME NEW w \in Workers, FinishTask(w)
      PROVE  Goal
  <2>1. Claimed(job[w].task) /\ job[w].task \in Tasks
    BY <1>9, <1>0 DEF FinishTask, JobsNameRows, JobNamesRows, Claimed
  <2> QED
    BY <1>9, <1>0, <2>1, Ends DEF FinishTask, TaskOutcomes, Goal
<1>10. ASSUME NEW w \in Workers, WriteRun(w)
      PROVE  Goal
  <2>1. PICK r \in Runs, seen \in SUBSET Tasks, o \in RunOutcomes \cup {"running"} :
          r = job[w].run /\ seen = job[w].seen /\ o = job[w].verdict /\ job[w].pc = "writing"
    BY <1>10, <1>0 DEF WriteRun, TypeOK, Jobs, Idle, FanOutJobs, DiscoverJobs, SaveJobs, InsertJobs,
         FetchJobs, FinishJobs, ReadJobs, WriteJobs
  <2>2. runStatus[r] # "none" /\ seen \in SUBSET Ledger!TasksOf(r)
    BY <2>1 DEF Origins, JobHasOrigin, RunOf, Ledger!TasksOf, Tasks
  <2>3. /\ runStatus' = [runStatus EXCEPT ![r] = o]
        /\ covered' = [covered EXCEPT ![r] = seen]
        /\ UNCHANGED <<taskStatus, owner, ingestSent>>
    BY <1>10, <2>1 DEF WriteRun
  <2>4. CASE o = "running"
    <3>1. Ledger!Reopen(r, seen)
      BY <2>2, <2>3, <2>4 DEF Ledger!Reopen
    <3> QED
      BY <2>2, <3>1 DEF Goal, Ledger!Next
  <2>5. CASE o \in RunOutcomes
    <3>1. seen # {} /\ \A t \in seen : Terminal(t)
      BY <2>1, <2>5 DEF Stands, VerdictsStand, VerdictStands
    <3>2. Ledger!Close(r, seen, o)
      BY <2>3, <3>1 DEF Ledger!Close, Terminal, TaskOutcomes, Ledger!Outcomes
    <3> QED
      BY <2>2, <2>5, <3>2 DEF Goal, Ledger!Next, RunOutcomes, Ledger!RunOutcomes
  <2> QED
    BY <2>1, <2>4, <2>5
(* The other steps do not touch what the ledger shows.                     *)
<1>11. ASSUME NEW w \in Workers, NEW m \in queue, BeginFetch(w, m) PROVE Goal
  BY <1>11, Rereads DEF BeginFetch, Goal
<1>12. ASSUME NEW w \in Workers, NEW t \in Tasks, RefuseClaim(w, t)
      PROVE  Goal
  BY <1>12, Rereads DEF RefuseClaim, rows, Goal
<1>13. ASSUME NEW w \in Workers, NEW found \in SUBSET Candidates, DiscoverCandidates(w, found)
      PROVE  Goal
  BY <1>13, Rereads DEF DiscoverCandidates, rows, Goal
<1>14. ASSUME NEW w \in Workers, NEW c \in Candidates, FindCandidate(w, c)
      PROVE  Goal
  BY <1>14, Rereads DEF FindCandidate, rows, Goal
<1>15. ASSUME NEW w \in Workers, FetchRaises(w)
      PROVE  Goal
  BY <1>15, Rereads DEF FetchRaises, rows, Goal
<1>16. ASSUME NEW w \in Workers, NEW a \in Artifacts, FetchReturnsBody(w, a)
      PROVE  Goal
  BY <1>16, Rereads DEF FetchReturnsBody, Goal
<1>17. ASSUME NEW w \in Workers, NEW status \in Settled, FetchReturnsNoBody(w, status)
      PROVE  Goal
  BY <1>17, Rereads DEF FetchReturnsNoBody, Goal
<1>18. ASSUME NEW w \in Workers, NEW a \in artifacts, NormalizeNeedsOcr(w, a)
      PROVE  Goal
  BY <1>18, Rereads DEF NormalizeNeedsOcr, rows, Goal
<1>19. ASSUME NEW w \in Workers, NEW a \in artifacts, NormalizeNeedsRender(w, a)
      PROVE  Goal
  BY <1>19, Rereads DEF NormalizeNeedsRender, rows, Goal
<1>20. ASSUME NEW w \in Workers, NEW k \in {"normalize", "ocr"}, NEW a \in artifacts, ReplayRaises(w, k, a)
      PROVE  Goal
  BY <1>20, Rereads DEF ReplayRaises, rows, Goal
<1>21. ASSUME NEW w \in Workers, CheckTask(w)
      PROVE  Goal
  BY <1>21, Rereads DEF CheckTask, rows, Goal
<1>22. ASSUME NEW w \in Workers, ReadTasks(w)
      PROVE  Goal
  BY <1>22, Rereads DEF ReadTasks, rows, Goal
<1>23. ASSUME NEW w \in Workers, NEW r \in Runs, ListActiveRun(w, r)
      PROVE  Goal
  BY <1>23, Rereads DEF ListActiveRun, rows, Goal
<1>24. ASSUME NEW w \in Workers, NEW late \in SUBSET Tasks, Sweep(w, late)
      PROVE  Goal
  BY <1>24, Rereads DEF Sweep, rows, Goal
<1>25. ASSUME NEW w \in Workers, Crash(w)
      PROVE  Goal
  BY <1>25, Rereads DEF Crash, rows, Goal
<1>26. ASSUME NEW m \in queue, RetriesUsedUp(m) \/ Lose(m)
      PROVE  Goal
  BY <1>26, Rereads DEF RetriesUsedUp, Lose, rows, Goal
<1>27. CASE UNCHANGED vars
  BY <1>27, Rereads DEF vars, Goal
<1> QED
  BY <1>1, <1>2, <1>3, <1>4, <1>5, <1>6, <1>7, <1>8, <1>9, <1>10, <1>11,
     <1>12, <1>13, <1>14, <1>15, <1>16, <1>17, <1>18, <1>19, <1>20, <1>21,
     <1>22, <1>23, <1>24, <1>25, <1>26, <1>27
     DEF Next, Deliver, Continue, Beat

(* The pipeline implements the ledger: whatever its workers, messages and  *)
(* faults do, a reader of the tables sees tasks that end for good,         *)
(* candidates that stay with a task of their own source, documents of such *)
(* candidates only, and runs that are closed over tasks that have ended.   *)
THEOREM LedgerImplemented == Spec => ImplementsLedger
<1>1. Init => Ledger!Init
  BY DEF Init, Ledger!Init, Tasks, Ledger!Tasks
<1>2. IInv /\ Origins /\ [Next]_vars => [Ledger!Next]_(Ledger!vars)
  BY LedgerStep
<1>3. Spec => []Origins
  BY InitOrigins, OriginStep, Invariant, PTL DEF Spec
<1> QED
  BY <1>1, <1>2, <1>3, Invariant, PTL DEF Spec, ImplementsLedger, Ledger!Spec

(* That a closed run was closed over tasks which have ended needs nothing  *)
(* but the ledger: it holds for whatever else implements it.               *)
LedgerInv ==
  /\ runStatus \in [Runs -> RunOutcomes \cup {"none", "running"}]
  /\ taskStatus \in [Tasks -> TaskOutcomes \cup {"none", "pending", "running"}]
  /\ covered \in [Runs -> SUBSET Tasks]
  /\ ClosedOverTerminalTasks

THEOREM LedgerSuffices == Ledger!Spec => []ClosedOverTerminalTasks
<1>1. Ledger!Init => LedgerInv
  BY DEF Ledger!Init, LedgerInv, Ledger!Tasks, Tasks, ClosedOverTerminalTasks, Closed, RunOutcomes
<1>2. LedgerInv /\ [Ledger!Next]_(Ledger!vars) => LedgerInv'
  <2> SUFFICES ASSUME LedgerInv, [Ledger!Next]_(Ledger!vars) PROVE LedgerInv'
    OBVIOUS
  <2> USE DEF LedgerInv, ClosedOverTerminalTasks, Closed, Terminal, RunOf, RunOutcomes, TaskOutcomes
  <2>1. ASSUME NEW r \in Runs, Ledger!Open(r) PROVE LedgerInv'
    BY <2>1 DEF Ledger!Open
  <2>2. ASSUME NEW r \in Runs, NEW seen \in SUBSET Ledger!TasksOf(r), Ledger!Reopen(r, seen)
        PROVE  LedgerInv'
    BY <2>2 DEF Ledger!Reopen, Ledger!TasksOf, Tasks
  <2>3. ASSUME NEW r \in Runs, NEW seen \in SUBSET Ledger!TasksOf(r), NEW o \in RunOutcomes,
               Ledger!Close(r, seen, o)
        PROVE  LedgerInv'
    BY <2>3 DEF Ledger!Close, Ledger!TasksOf, Ledger!Outcomes, Tasks
  <2>4. ASSUME NEW t \in Tasks, Ledger!Add(t) \/ Ledger!Claim(t) PROVE LedgerInv'
    BY <2>4 DEF Ledger!Add, Ledger!Claim
  <2>5. ASSUME NEW t \in Tasks, NEW o \in TaskOutcomes, Ledger!End(t, o) PROVE LedgerInv'
    BY <2>5 DEF Ledger!End
  <2>6. ASSUME NEW c \in Candidates, Ledger!Send(c) \/ \E t \in Tasks : Ledger!Adopt(c, t)
        PROVE  LedgerInv'
    BY <2>6 DEF Ledger!Send, Ledger!Adopt
  <2>7. CASE UNCHANGED Ledger!vars
    BY <2>7 DEF Ledger!vars
  <2> HIDE DEF LedgerInv, ClosedOverTerminalTasks, Closed, Terminal, RunOf, RunOutcomes, TaskOutcomes
  <2>8. Ledger!RunOutcomes = RunOutcomes /\ Ledger!Outcomes = TaskOutcomes /\ Ledger!Tasks = Tasks
    BY DEF Ledger!RunOutcomes, RunOutcomes, Ledger!Outcomes, TaskOutcomes, Ledger!Tasks, Tasks
  <2> QED
    BY <2>1, <2>2, <2>3, <2>4, <2>5, <2>6, <2>7, <2>8 DEF Ledger!Next
<1>3. LedgerInv => ClosedOverTerminalTasks
  BY DEF LedgerInv
<1> QED
  BY <1>1, <1>2, <1>3, PTL DEF Ledger!Spec
===============================================================================
