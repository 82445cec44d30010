-------------------------- MODULE BuildRuns_proofs --------------------------
(***************************************************************************)
(* Safety of a build run for any number of request handlers, tasks,        *)
(* repairs, requests and process deaths, and for both workflows.           *)
(***************************************************************************)
EXTENDS BuildRuns, TLAPS

TaskPlaces == {"inspect", "test", "validate", "retry", "repair"}

\* A handler past planning has a plan, and one that works on a task has one.
StepInv ==
    /\ approval # "none" => skill # "none"
    /\ \A w \in Workers : pc[w] \in TaskPlaces => task[w] \in Tasks
    /\ \A w \in Workers : pc[w] = "build" => Single \/ task[w] \in Tasks

\* What only an approved build leaves behind: also a pause and an interface
\* artifact, from which a run is taken up again without a look at the approval.
ApprovalInv ==
    \/ approval = "approved"
    \/ /\ skill # "proposed" /\ status # "paused" /\ artifacts = {}
       /\ \A w \in Workers : pc[w] \in {"idle", "plan"}

\* The finalization lock keeps a cancellation out from the look at the status
\* to the commit of the success.
FinishInv == \A w \in Workers : pc[w] = "finishing" => lock = w /\ ~Cancelled

\* TypeOK in parts.
Statuses == {"none", "running", "paused", "cancelled", "asking", "blocked", "failed",
             "waiting_for_approval", "succeeded"}
RecordsOK ==
    /\ status \in Statuses
    /\ gen \in {"planned", "needs_input", "awaiting_approval", "approved", "generating",
                "generated", "failed", "cancelled"}
    /\ skill \in {"none", "building", "proposed", "failed"}
    /\ approval \in {"none", "pending", "approved", "denied", "superseded"}
PlacesOK ==
    /\ pc \in [Workers -> Places]
    /\ mode \in [Workers -> {"none", "fresh", "execute", "resume", "retry"}]
TasksOK ==
    /\ failures \in [1..Final -> Nat] /\ current \in 0..Final
    /\ done \subseteq Tasks /\ artifacts \subseteq Tasks
    /\ task \in [Workers -> 0..NTasks] /\ local \in [Workers -> SUBSET Tasks]
RestOK ==
    /\ workflow \in Workflows /\ lock \in Workers \cup {"none", "canceller"}
    /\ seen \in [Workers -> Statuses]
    /\ requests \in 0..MaxRequests /\ crashes \in 0..MaxCrashes

\* A function keeps its type when one of its values is replaced.
LEMMA PointUpdate ==
    ASSUME NEW D, NEW R, NEW f \in [D -> R], NEW x \in D, NEW v \in R
    PROVE  [f EXCEPT ![x] = v] \in [D -> R]
  OBVIOUS

LEMMA TypeInit == Init => TypeOK
<1> SUFFICES ASSUME Init PROVE TypeOK
  OBVIOUS
<1>1. marked \in BOOLEAN
  BY Zenon DEF Init
<1>2. /\ workflow \in Workflows /\ status = "none" /\ gen = "planned" /\ skill = "none"
      /\ approval = "none" /\ failures = [t \in 1..Final |-> 0] /\ done = {} /\ artifacts = {}
      /\ current = 0 /\ lock = "none" /\ requests = 0 /\ crashes = 0
      /\ pc = [w \in Workers |-> "idle"] /\ mode = [w \in Workers |-> "none"]
      /\ task = [w \in Workers |-> 0] /\ local = [w \in Workers |-> {}]
      /\ seen = [w \in Workers |-> "none"]
  BY DEF Init
<1> QED
  BY <1>1, <1>2, BuildConstants DEF TypeOK, Places, Final

LEMMA TypeStep == TypeOK /\ StepInv /\ [Next]_vars => TypeOK'
<1> SUFFICES ASSUME TypeOK, StepInv, [Next]_vars PROVE TypeOK'
  OBVIOUS
<1> USE BuildConstants
    DEF TypeOK, StepInv, TaskPlaces, Places, Tasks, Final, Goto, Cancelled, recordVars, runVars, lockVars,
        workVars, boundVars
<1>1. ASSUME NEW w \in Workers, Arrive(w) PROVE TypeOK'
  <2>1. CASE CreateRun(w)
    BY <2>1 DEF CreateRun, Request
  <2>2. CASE RetryTask(w)
    <3>1. RecordsOK'
      BY <2>2 DEF RecordsOK, Statuses, RetryTask, Request, ContinueBuild, CanGenerate
    <3>2. PlacesOK'
      BY <2>2 DEF PlacesOK, RetryTask, Request, ContinueBuild, CanGenerate
    <3>3. TasksOK'
      BY <2>2 DEF TasksOK, RetryTask, Request, ContinueBuild, CanGenerate
    <3>4. RestOK'
      BY <2>2 DEF RestOK, Statuses, RetryTask, Request, ContinueBuild, CanGenerate
    <3>5. marked' = marked
      BY <2>2, Zenon DEF RetryTask, Request, ContinueBuild, CanGenerate, lockVars
    <3> QED
      BY <3>1, <3>2, <3>3, <3>4, <3>5 DEF Statuses, RecordsOK, PlacesOK, TasksOK, RestOK
  <2>3. CASE ResumeWaiting(w)
    <3>1. RecordsOK'
      BY <2>3 DEF RecordsOK, Statuses, ResumeWaiting, Request, ContinueBuild, CanGenerate
    <3>2. PlacesOK'
      BY <2>3 DEF PlacesOK, ResumeWaiting, Request, ContinueBuild, CanGenerate
    <3>3. TasksOK'
      BY <2>3 DEF TasksOK, ResumeWaiting, Request, ContinueBuild, CanGenerate
    <3>4. RestOK'
      BY <2>3 DEF RestOK, Statuses, ResumeWaiting, Request, ContinueBuild, CanGenerate
    <3>5. marked' = marked
      BY <2>3, Zenon DEF ResumeWaiting, Request, ContinueBuild, CanGenerate, lockVars
    <3> QED
      BY <3>1, <3>2, <3>3, <3>4, <3>5 DEF Statuses, RecordsOK, PlacesOK, TasksOK, RestOK
  <2>4. CASE ResumePaused(w)
    BY <2>4 DEF ResumePaused, Request
  <2>5. CASE RetryFailed(w)
    <3>1. RecordsOK'
      BY <2>5 DEF RecordsOK, Statuses, RetryFailed, Request, ContinueBuild, CanGenerate
    <3>2. PlacesOK'
      BY <2>5 DEF PlacesOK, RetryFailed, Request, ContinueBuild, CanGenerate
    <3>3. TasksOK'
      <4>1. \/ UNCHANGED task
            \/ current \in artifacts /\ task' = [task EXCEPT ![w] = current]
        BY <2>5 DEF RetryFailed, Request, ContinueBuild, CanGenerate
      <4>2. UNCHANGED <<runVars, local>>
        BY <2>5 DEF RetryFailed, Request, ContinueBuild, CanGenerate
      <4>3. current \in artifacts => current \in 0..NTasks
        OBVIOUS
      <4>4. task \in [Workers -> 0..NTasks]
        OBVIOUS
      <4>5. task' \in [Workers -> 0..NTasks]
        <5> HIDE DEF TypeOK, StepInv
        <5> QED
          BY <4>1, <4>3, <4>4, PointUpdate
      <4> QED
        BY <4>2, <4>5 DEF TasksOK
    <3>4. RestOK'
      BY <2>5 DEF RestOK, Statuses, RetryFailed, Request, ContinueBuild, CanGenerate
    <3>5. marked' = marked
      BY <2>5, Zenon DEF RetryFailed, Request, ContinueBuild, CanGenerate, lockVars
    <3> QED
      BY <3>1, <3>2, <3>3, <3>4, <3>5 DEF Statuses, RecordsOK, PlacesOK, TasksOK, RestOK
  <2> QED
    BY <1>1, <2>1, <2>2, <2>3, <2>4, <2>5 DEF Arrive
<1>2. ASSUME NEW w \in Workers, Work(w) PROVE TypeOK'
  <2>1. CASE PlanFails(w)
    BY <2>1 DEF PlanFails
  <2>2. CASE PlanStops(w)
    BY <2>2 DEF PlanStops
  <2>3. CASE PlanProceeds(w)
    BY <2>3 DEF PlanProceeds, Requested
  <2>4. CASE UsageAnswers(w)
    <3>1. RecordsOK'
      BY <2>4 DEF RecordsOK, Statuses, UsageAnswers
    <3>2. PlacesOK'
      BY <2>4 DEF PlacesOK, UsageAnswers
    <3>3. TasksOK'
      <4>1. \/ UNCHANGED <<task, local>>
            \/ task' = [task EXCEPT ![w] = 0] /\ local' = [local EXCEPT ![w] = done]
        BY <2>4 DEF UsageAnswers
      <4>2. UNCHANGED runVars
        BY <2>4 DEF UsageAnswers
      <4>3. task' \in [Workers -> 0..NTasks]
        BY <4>1
      <4>4. local' \in [Workers -> SUBSET Tasks]
        <5>1. done \in SUBSET Tasks
          OBVIOUS
        <5>2. local' = local \/ local' = [local EXCEPT ![w] = done]
          BY <4>1
        <5> HIDE DEF Tasks
        <5> QED
          BY <5>1, <5>2
      <4> QED
        BY <4>2, <4>3, <4>4 DEF TasksOK
    <3>4. RestOK'
      <4>1. seen' = seen \/ seen' = [seen EXCEPT ![w] = status]
        BY <2>4 DEF UsageAnswers
      <4>2. UNCHANGED <<workflow, lock, requests, crashes>>
        BY <2>4 DEF UsageAnswers
      <4>3. RestOK /\ status \in Statuses
        BY DEF RestOK, Statuses, Statuses
      <4>4. seen' \in [Workers -> Statuses]
        <5> HIDE DEF TypeOK, StepInv
        <5> QED
          BY <4>1, <4>3, PointUpdate DEF RestOK
      <4> HIDE DEF TypeOK, StepInv
      <4> QED
        BY <4>2, <4>3, <4>4 DEF RestOK
    <3>5. marked' = marked
      BY <2>4, Zenon DEF UsageAnswers, lockVars
    <3> QED
      BY <3>1, <3>2, <3>3, <3>4, <3>5 DEF Statuses, RecordsOK, PlacesOK, TasksOK, RestOK
  <2>5. CASE Provisioned(w)
    BY <2>5 DEF Provisioned
  <2>6. CASE CallFails(w)
    <3>1. RecordsOK'
      BY <2>6 DEF RecordsOK, Statuses, CallFails, Raise, LinkedFailed, Guarded
    <3>2. PlacesOK'
      BY <2>6 DEF PlacesOK, CallFails, Raise, LinkedFailed, Guarded
    <3>3. TasksOK'
      BY <2>6 DEF TasksOK, CallFails, Raise, LinkedFailed, Guarded
    <3>4. RestOK'
      BY <2>6 DEF RestOK, Statuses, CallFails, Raise, LinkedFailed, Guarded
    <3>5. marked' = marked
      BY <2>6, Zenon DEF CallFails, Raise, LinkedFailed, Guarded, lockVars
    <3> QED
      BY <3>1, <3>2, <3>3, <3>4, <3>5 DEF Statuses, RecordsOK, PlacesOK, TasksOK, RestOK
  <2>7. CASE FailsGeneration(w)
    BY <2>7 DEF FailsGeneration, Guarded
  <2>8. CASE NeedsUser(w)
    BY <2>8 DEF NeedsUser, LinkedFailed
  <2>9. CASE DagWritten(w)
    BY <2>9 DEF DagWritten, Returned
  <2>10. CASE PauseRun(w)
    <3>1. RecordsOK'
      BY <2>10 DEF RecordsOK, Statuses, PauseRun, Written, PausedStatus
    <3>2. PlacesOK'
      BY <2>10 DEF PlacesOK, PauseRun, Written, PausedStatus
    <3>3. TasksOK'
      BY <2>10 DEF TasksOK, PauseRun, Written, PausedStatus
    <3>4. RestOK'
      BY <2>10 DEF RestOK, Statuses, PauseRun, Written, PausedStatus
    <3>5. marked' = marked
      BY <2>10, Zenon DEF PauseRun, Written, PausedStatus, lockVars
    <3> QED
      BY <3>1, <3>2, <3>3, <3>4, <3>5 DEF Statuses, RecordsOK, PlacesOK, TasksOK, RestOK
  <2>11. CASE Refused(w)
    <3>1. RecordsOK'
      BY <2>11 DEF RecordsOK, Statuses, Refused, Raise, LinkedFailed, Guarded
    <3>2. PlacesOK'
      BY <2>11 DEF PlacesOK, Refused, Raise, LinkedFailed, Guarded
    <3>3. TasksOK'
      BY <2>11 DEF TasksOK, Refused, Raise, LinkedFailed, Guarded
    <3>4. RestOK'
      BY <2>11 DEF RestOK, Statuses, Refused, Raise, LinkedFailed, Guarded
    <3>5. marked' = marked
      BY <2>11, Zenon DEF Refused, Raise, LinkedFailed, Guarded, lockVars
    <3> QED
      BY <3>1, <3>2, <3>3, <3>4, <3>5 DEF Statuses, RecordsOK, PlacesOK, TasksOK, RestOK
  <2>12. CASE BeginTask(w)
    <3>1. RecordsOK'
      BY <2>12 DEF RecordsOK, Statuses, BeginTask, BuildFirst, CanGenerate, StartStep, Remaining, Raise, LinkedFailed, Guarded
    <3>2. PlacesOK'
      BY <2>12 DEF PlacesOK, BeginTask, BuildFirst, CanGenerate, StartStep, Remaining, Raise, LinkedFailed, Guarded
    <3>3. TasksOK'
      BY <2>12 DEF TasksOK, BeginTask, BuildFirst, CanGenerate, StartStep, Remaining, Raise, LinkedFailed, Guarded
    <3>4. RestOK'
      BY <2>12 DEF RestOK, Statuses, BeginTask, BuildFirst, CanGenerate, StartStep, Remaining, Raise, LinkedFailed, Guarded
    <3>5. marked' = marked
      BY <2>12, Zenon DEF BeginTask, BuildFirst, CanGenerate, StartStep, Remaining, Raise, LinkedFailed, Guarded, lockVars
    <3> QED
      BY <3>1, <3>2, <3>3, <3>4, <3>5 DEF Statuses, RecordsOK, PlacesOK, TasksOK, RestOK
  <2>13. CASE BeginSingle(w)
    <3>1. RecordsOK'
      BY <2>13 DEF RecordsOK, Statuses, BeginSingle, BuildFirst, CanGenerate, Written, Raise, LinkedFailed, Guarded
    <3>2. PlacesOK'
      BY <2>13 DEF PlacesOK, BeginSingle, BuildFirst, CanGenerate, Written, Raise, LinkedFailed, Guarded
    <3>3. TasksOK'
      BY <2>13 DEF TasksOK, BeginSingle, BuildFirst, CanGenerate, Written, Raise, LinkedFailed, Guarded
    <3>4. RestOK'
      BY <2>13 DEF RestOK, Statuses, BeginSingle, BuildFirst, CanGenerate, Written, Raise, LinkedFailed, Guarded
    <3>5. marked' = marked
      BY <2>13, Zenon DEF BeginSingle, BuildFirst, CanGenerate, Written, Raise, LinkedFailed, Guarded, lockVars
    <3> QED
      BY <3>1, <3>2, <3>3, <3>4, <3>5 DEF Statuses, RecordsOK, PlacesOK, TasksOK, RestOK
  <2>14. CASE BuiltSingle(w)
    BY <2>14 DEF BuiltSingle, Returned
  <2>15. CASE Built(w)
    BY <2>15 DEF Built, Returned
  <2>16. CASE Inspected(w)
    <3>1. RecordsOK'
      BY <2>16 DEF RecordsOK, Statuses, Inspected
    <3>2. PlacesOK'
      BY <2>16 DEF PlacesOK, Inspected
    <3>3. TasksOK'
      <4>1. task[w] \in Tasks
        BY <2>16 DEF Inspected
      <4>2. artifacts' = artifacts \cup {task[w]} /\ UNCHANGED <<failures, current, done, task, local>>
        BY <2>16 DEF Inspected
      <4> QED
        BY <4>1, <4>2 DEF TasksOK
    <3>4. RestOK'
      BY <2>16 DEF RestOK, Statuses, Inspected
    <3>5. marked' = marked
      BY <2>16, Zenon DEF Inspected, lockVars
    <3> QED
      BY <3>1, <3>2, <3>3, <3>4, <3>5 DEF Statuses, RecordsOK, PlacesOK, TasksOK, RestOK
  <2>17. CASE Passes(w)
    <3>1. RecordsOK'
      BY <2>17 DEF RecordsOK, Statuses, Passes
    <3>2. PlacesOK'
      BY <2>17 DEF PlacesOK, Passes
    <3>3. TasksOK'
      <4>1. PICK now \in SUBSET Tasks :
              local' = [local EXCEPT ![w] = now] /\ done' = now
        BY <2>17 DEF Passes
      <4>2. task' = task \/ task' = [task EXCEPT ![w] = 0]
        BY <2>17 DEF Passes
      <4>3. UNCHANGED <<failures, current, artifacts>>
        BY <2>17 DEF Passes
      <4>4. task' \in [Workers -> 0..NTasks]
        BY <4>2
      <4>5. local' \in [Workers -> SUBSET Tasks]
        <5> HIDE DEF Tasks
        <5> QED
          BY <4>1
      <4> QED
        BY <4>1, <4>3, <4>4, <4>5 DEF TasksOK
    <3>4. RestOK'
      BY <2>17 DEF RestOK, Statuses, Passes
    <3>5. marked' = marked
      BY <2>17, Zenon DEF Passes, lockVars
    <3> QED
      BY <3>1, <3>2, <3>3, <3>4, <3>5 DEF Statuses, RecordsOK, PlacesOK, TasksOK, RestOK
  <2>18. CASE FailsTest(w)
    <3>1. RecordsOK'
      BY <2>18 DEF RecordsOK, Statuses, FailsTest, Counted, Stop, StartStep, Raise, LinkedFailed, Guarded
    <3>2. PlacesOK'
      BY <2>18 DEF PlacesOK, FailsTest, Counted, Stop, StartStep, Raise, LinkedFailed, Guarded
    <3>3. TasksOK'
      <4>1. task[w] \in 1..Final
        BY <2>18 DEF FailsTest
      <4>2. failures[task[w]] + 1 \in Nat
        BY <4>1
      <4>3. failures' = failures \/ failures' = [failures EXCEPT ![task[w]] = failures[task[w]] + 1]
        BY <2>18 DEF FailsTest, Counted
      <4>4. done' = done \/ done' = {}
        BY <2>18 DEF FailsTest
      <4>5. UNCHANGED <<artifacts, current, task, local>>
        BY <2>18 DEF FailsTest
      <4>6. TasksOK
        BY DEF TasksOK
      <4>7. failures' \in [1..Final -> Nat]
        <5> HIDE DEF TypeOK, StepInv
        <5> QED
          <6>1. failures \in [1..Final -> Nat]
            BY <4>6 DEF TasksOK
          <6>2. [failures EXCEPT ![task[w]] = failures[task[w]] + 1] \in [1..Final -> Nat]
            BY <6>1, <4>1, <4>2, PointUpdate
          <6> QED
            BY <6>1, <6>2, <4>3
      <4> HIDE DEF TypeOK, StepInv
      <4> QED
        BY <4>4, <4>5, <4>6, <4>7 DEF TasksOK
    <3>4. RestOK'
      BY <2>18 DEF RestOK, Statuses, FailsTest, Counted, Stop, StartStep, Raise, LinkedFailed, Guarded
    <3>5. marked' = marked
      BY <2>18, Zenon DEF FailsTest, Counted, Stop, StartStep, Raise, LinkedFailed, Guarded, lockVars
    <3> QED
      BY <3>1, <3>2, <3>3, <3>4, <3>5 DEF Statuses, RecordsOK, PlacesOK, TasksOK, RestOK
  <2>19. CASE Repaired(w)
    <3>1. RecordsOK'
      BY <2>19 DEF RecordsOK, Statuses, Repaired, Returned, StartStep, Raise, LinkedFailed, Guarded
    <3>2. PlacesOK'
      BY <2>19 DEF PlacesOK, Repaired, Returned, StartStep, Raise, LinkedFailed, Guarded
    <3>3. TasksOK'
      BY <2>19 DEF TasksOK, Repaired, Returned, StartStep, Raise, LinkedFailed, Guarded
    <3>4. RestOK'
      BY <2>19 DEF RestOK, Statuses, Repaired, Returned, StartStep, Raise, LinkedFailed, Guarded
    <3>5. marked' = marked
      BY <2>19, Zenon DEF Repaired, Returned, StartStep, Raise, LinkedFailed, Guarded, lockVars
    <3> QED
      BY <3>1, <3>2, <3>3, <3>4, <3>5 DEF Statuses, RecordsOK, PlacesOK, TasksOK, RestOK
  <2>20. CASE WriteFinalTest(w)
    <3>1. RecordsOK'
      BY <2>20 DEF RecordsOK, Statuses, WriteFinalTest, StartStep, Raise, LinkedFailed, Guarded
    <3>2. PlacesOK'
      BY <2>20 DEF PlacesOK, WriteFinalTest, StartStep, Raise, LinkedFailed, Guarded
    <3>3. TasksOK'
      BY <2>20 DEF TasksOK, WriteFinalTest, StartStep, Raise, LinkedFailed, Guarded
    <3>4. RestOK'
      BY <2>20 DEF RestOK, Statuses, WriteFinalTest, StartStep, Raise, LinkedFailed, Guarded
    <3>5. marked' = marked
      BY <2>20, Zenon DEF WriteFinalTest, StartStep, Raise, LinkedFailed, Guarded, lockVars
    <3> QED
      BY <3>1, <3>2, <3>3, <3>4, <3>5 DEF Statuses, RecordsOK, PlacesOK, TasksOK, RestOK
  <2>21. CASE StartFinal(w)
    <3>1. RecordsOK'
      BY <2>21 DEF RecordsOK, Statuses, StartFinal, Returned, Raise, LinkedFailed, Guarded
    <3>2. PlacesOK'
      BY <2>21 DEF PlacesOK, StartFinal, Returned, Raise, LinkedFailed, Guarded
    <3>3. TasksOK'
      BY <2>21 DEF TasksOK, StartFinal, Returned, Raise, LinkedFailed, Guarded
    <3>4. RestOK'
      BY <2>21 DEF RestOK, Statuses, StartFinal, Returned, Raise, LinkedFailed, Guarded
    <3>5. marked' = marked
      BY <2>21, Zenon DEF StartFinal, Returned, Raise, LinkedFailed, Guarded, lockVars
    <3> QED
      BY <3>1, <3>2, <3>3, <3>4, <3>5 DEF Statuses, RecordsOK, PlacesOK, TasksOK, RestOK
  <2>22. CASE FinalPasses(w)
    <3>1. RecordsOK'
      BY <2>22 DEF RecordsOK, Statuses, FinalPasses, Raise, LinkedFailed, Guarded
    <3>2. PlacesOK'
      BY <2>22 DEF PlacesOK, FinalPasses, Raise, LinkedFailed, Guarded
    <3>3. TasksOK'
      BY <2>22 DEF TasksOK, FinalPasses, Raise, LinkedFailed, Guarded
    <3>4. RestOK'
      BY <2>22 DEF RestOK, Statuses, FinalPasses, Raise, LinkedFailed, Guarded
    <3>5. marked' = marked
      BY <2>22, Zenon DEF FinalPasses, Raise, LinkedFailed, Guarded, lockVars
    <3> QED
      BY <3>1, <3>2, <3>3, <3>4, <3>5 DEF Statuses, RecordsOK, PlacesOK, TasksOK, RestOK
  <2>23. CASE FinalFails(w)
    <3>1. RecordsOK'
      BY <2>23 DEF RecordsOK, Statuses, FinalFails, Stop, StartStep, Counted, Raise, LinkedFailed, Guarded
    <3>2. PlacesOK'
      BY <2>23 DEF PlacesOK, FinalFails, Stop, StartStep, Counted, Raise, LinkedFailed, Guarded
    <3>3. TasksOK'
      <4>1. Final \in 1..Final
        BY <2>23 DEF FinalFails
      <4>2. failures[Final] + 1 \in Nat
        BY <4>1
      <4>3. failures' = failures \/ failures' = [failures EXCEPT ![Final] = failures[Final] + 1]
        BY <2>23 DEF FinalFails, Counted
      <4>4. done' = done \/ done' = {}
        BY <2>23 DEF FinalFails
      <4>5. UNCHANGED <<artifacts, current, task, local>>
        BY <2>23 DEF FinalFails
      <4>6. TasksOK
        BY DEF TasksOK
      <4>7. failures' \in [1..Final -> Nat]
        <5> HIDE DEF TypeOK, StepInv
        <5>1. failures \in [1..Final -> Nat]
          BY <4>6 DEF TasksOK
        <5>2. [failures EXCEPT ![Final] = failures[Final] + 1] \in [1..Final -> Nat]
          BY <5>1, <4>1, <4>2, PointUpdate
        <5> QED
          BY <5>1, <5>2, <4>3
      <4> HIDE DEF TypeOK, StepInv
      <4> QED
        BY <4>4, <4>5, <4>6, <4>7 DEF TasksOK
    <3>4. RestOK'
      BY <2>23 DEF RestOK, Statuses, FinalFails, Stop, StartStep, Counted, Raise, LinkedFailed, Guarded
    <3>5. marked' = marked
      BY <2>23, Zenon DEF FinalFails, Stop, StartStep, Counted, Raise, LinkedFailed, Guarded, lockVars
    <3> QED
      BY <3>1, <3>2, <3>3, <3>4, <3>5 DEF Statuses, RecordsOK, PlacesOK, TasksOK, RestOK
  <2>24. CASE BeginFinish(w)
    BY <2>24 DEF BeginFinish, LostToCancel, Raise, LinkedFailed, Guarded
  <2>25. CASE Finish(w)
    BY <2>25 DEF Finish
  <2>26. CASE FinishFails(w)
    BY <2>26 DEF FinishFails, Raise, LinkedFailed, Guarded
  <2> QED
    BY <1>2, <2>1, <2>2, <2>3, <2>4, <2>5, <2>6, <2>7, <2>8, <2>9, <2>10, <2>11, <2>12,
       <2>13, <2>14, <2>15, <2>16, <2>17, <2>18, <2>19, <2>20, <2>21, <2>22, <2>23, <2>24,
       <2>25, <2>26 DEF Work
<1>3. CASE Approve
  BY <1>3 DEF Approve
<1>4. CASE Deny
  BY <1>4 DEF Deny
<1>5. CASE BeginCancel
  BY <1>5 DEF BeginCancel
<1>6. CASE Cancel
  BY <1>6 DEF Cancel, FailPackage
<1>7. CASE Crash
  <2>1. marked' \in BOOLEAN
    BY <1>7, Zenon DEF Crash
  <2>2. /\ UNCHANGED <<recordVars, runVars, workVars, requests>>
        /\ lock' = "none" /\ crashes' \in 0..MaxCrashes /\ pc' = [w \in Workers |-> "idle"]
    BY <1>7 DEF Crash
  <2> QED
    BY <2>1, <2>2
<1>8. CASE UNCHANGED vars
  BY <1>8 DEF vars
<1> QED
  BY <1>1, <1>2, <1>3, <1>4, <1>5, <1>6, <1>7, <1>8 DEF Next

LEMMA StepStep == TypeOK /\ StepInv /\ ApprovalInv /\ [Next]_vars => StepInv'
<1> SUFFICES ASSUME TypeOK, StepInv, ApprovalInv, [Next]_vars PROVE StepInv'
  OBVIOUS
<1> USE BuildConstants
    DEF TypeOK, StepInv, ApprovalInv, TaskPlaces, Places, Tasks, Single, Goto, Cancelled, recordVars, runVars, lockVars,
        workVars, boundVars
<1>1. ASSUME NEW w \in Workers, Arrive(w) PROVE StepInv'
  <2>1. CASE CreateRun(w)
    BY <2>1 DEF CreateRun, Request
  <2>2. CASE RetryTask(w)
    BY <2>2 DEF RetryTask, Request, ContinueBuild, CanGenerate
  <2>3. CASE ResumeWaiting(w)
    BY <2>3 DEF ResumeWaiting, Request, ContinueBuild, CanGenerate
  <2>4. CASE ResumePaused(w)
    BY <2>4 DEF ResumePaused, Request
  <2>5. CASE RetryFailed(w)
    BY <2>5 DEF RetryFailed, Request, ContinueBuild, CanGenerate
  <2> QED
    BY <1>1, <2>1, <2>2, <2>3, <2>4, <2>5 DEF Arrive
<1>2. ASSUME NEW w \in Workers, Work(w) PROVE StepInv'
  <2>1. CASE PlanFails(w)
    BY <2>1 DEF PlanFails
  <2>2. CASE PlanStops(w)
    BY <2>2 DEF PlanStops
  <2>3. CASE PlanProceeds(w)
    BY <2>3 DEF PlanProceeds, Requested
  <2>4. CASE UsageAnswers(w)
    BY <2>4 DEF UsageAnswers
  <2>5. CASE Provisioned(w)
    BY <2>5 DEF Provisioned
  <2>6. CASE CallFails(w)
    BY <2>6 DEF CallFails, Raise, LinkedFailed, Guarded
  <2>7. CASE FailsGeneration(w)
    BY <2>7 DEF FailsGeneration, Guarded
  <2>8. CASE NeedsUser(w)
    BY <2>8 DEF NeedsUser, LinkedFailed
  <2>9. CASE DagWritten(w)
    BY <2>9 DEF DagWritten, Returned
  <2>10. CASE PauseRun(w)
    BY <2>10 DEF PauseRun, Written, PausedStatus
  <2>11. CASE Refused(w)
    BY <2>11 DEF Refused, Raise, LinkedFailed, Guarded
  <2>12. CASE BeginTask(w)
    BY <2>12 DEF BeginTask, BuildFirst, CanGenerate, StartStep, Remaining, Raise, LinkedFailed, Guarded
  <2>13. CASE BeginSingle(w)
    BY <2>13 DEF BeginSingle, BuildFirst, CanGenerate, Written, Raise, LinkedFailed, Guarded
  <2>14. CASE BuiltSingle(w)
    BY <2>14 DEF BuiltSingle, Returned
  <2>15. CASE Built(w)
    BY <2>15 DEF Built, Returned
  <2>16. CASE Inspected(w)
    BY <2>16 DEF Inspected
  <2>17. CASE Passes(w)
    BY <2>17 DEF Passes
  <2>18. CASE FailsTest(w)
    BY <2>18 DEF FailsTest, Counted, Stop, StartStep, Raise, LinkedFailed, Guarded
  <2>19. CASE Repaired(w)
    BY <2>19 DEF Repaired, Returned, StartStep, Raise, LinkedFailed, Guarded
  <2>20. CASE WriteFinalTest(w)
    BY <2>20 DEF WriteFinalTest, StartStep, Raise, LinkedFailed, Guarded
  <2>21. CASE StartFinal(w)
    BY <2>21 DEF StartFinal, Returned, Raise, LinkedFailed, Guarded
  <2>22. CASE FinalPasses(w)
    BY <2>22 DEF FinalPasses, Raise, LinkedFailed, Guarded
  <2>23. CASE FinalFails(w)
    BY <2>23 DEF FinalFails, Stop, StartStep, Counted, Raise, LinkedFailed, Guarded
  <2>24. CASE BeginFinish(w)
    BY <2>24 DEF BeginFinish, LostToCancel, Raise, LinkedFailed, Guarded
  <2>25. CASE Finish(w)
    BY <2>25 DEF Finish
  <2>26. CASE FinishFails(w)
    BY <2>26 DEF FinishFails, Raise, LinkedFailed, Guarded
  <2> QED
    BY <1>2, <2>1, <2>2, <2>3, <2>4, <2>5, <2>6, <2>7, <2>8, <2>9, <2>10, <2>11, <2>12,
       <2>13, <2>14, <2>15, <2>16, <2>17, <2>18, <2>19, <2>20, <2>21, <2>22, <2>23, <2>24,
       <2>25, <2>26 DEF Work
<1>3. CASE Approve
  BY <1>3 DEF Approve
<1>4. CASE Deny
  BY <1>4 DEF Deny
<1>5. CASE BeginCancel
  BY <1>5 DEF BeginCancel
<1>6. CASE Cancel
  BY <1>6 DEF Cancel, FailPackage
<1>7. CASE Crash
  BY <1>7 DEF Crash
<1>8. CASE UNCHANGED vars
  BY <1>8 DEF vars
<1> QED
  BY <1>1, <1>2, <1>3, <1>4, <1>5, <1>6, <1>7, <1>8 DEF Next

LEMMA ApprovalStep == TypeOK /\ StepInv /\ ApprovalInv /\ [Next]_vars => ApprovalInv'
<1> SUFFICES ASSUME TypeOK, StepInv, ApprovalInv, [Next]_vars PROVE ApprovalInv'
  OBVIOUS
<1> USE BuildConstants
    DEF TypeOK, StepInv, ApprovalInv, Places, Goto, Cancelled, recordVars, runVars, lockVars,
        workVars, boundVars
<1>1. ASSUME NEW w \in Workers, Arrive(w) PROVE ApprovalInv'
  <2>1. CASE CreateRun(w)
    BY <2>1 DEF CreateRun, Request
  <2>2. CASE RetryTask(w)
    BY <2>2 DEF RetryTask, Request, ContinueBuild, CanGenerate
  <2>3. CASE ResumeWaiting(w)
    BY <2>3 DEF ResumeWaiting, Request, ContinueBuild, CanGenerate
  <2>4. CASE ResumePaused(w)
    BY <2>4 DEF ResumePaused, Request
  <2>5. CASE RetryFailed(w)
    BY <2>5 DEF RetryFailed, Request, ContinueBuild, CanGenerate
  <2> QED
    BY <1>1, <2>1, <2>2, <2>3, <2>4, <2>5 DEF Arrive
<1>2. ASSUME NEW w \in Workers, Work(w) PROVE ApprovalInv'
  <2>1. CASE PlanFails(w)
    BY <2>1 DEF PlanFails
  <2>2. CASE PlanStops(w)
    BY <2>2 DEF PlanStops
  <2>3. CASE PlanProceeds(w)
    BY <2>3 DEF PlanProceeds, Requested
  <2>4. CASE UsageAnswers(w)
    BY <2>4 DEF UsageAnswers
  <2>5. CASE Provisioned(w)
    BY <2>5 DEF Provisioned
  <2>6. CASE CallFails(w)
    BY <2>6 DEF CallFails, Raise, LinkedFailed, Guarded
  <2>7. CASE FailsGeneration(w)
    BY <2>7 DEF FailsGeneration, Guarded
  <2>8. CASE NeedsUser(w)
    BY <2>8 DEF NeedsUser, LinkedFailed
  <2>9. CASE DagWritten(w)
    BY <2>9 DEF DagWritten, Returned
  <2>10. CASE PauseRun(w)
    BY <2>10 DEF PauseRun, Written, PausedStatus
  <2>11. CASE Refused(w)
    BY <2>11 DEF Refused, Raise, LinkedFailed, Guarded
  <2>12. CASE BeginTask(w)
    BY <2>12 DEF BeginTask, BuildFirst, CanGenerate, StartStep, Remaining, Raise, LinkedFailed, Guarded
  <2>13. CASE BeginSingle(w)
    BY <2>13 DEF BeginSingle, BuildFirst, CanGenerate, Written, Raise, LinkedFailed, Guarded
  <2>14. CASE BuiltSingle(w)
    BY <2>14 DEF BuiltSingle, Returned
  <2>15. CASE Built(w)
    BY <2>15 DEF Built, Returned
  <2>16. CASE Inspected(w)
    BY <2>16 DEF Inspected
  <2>17. CASE Passes(w)
    BY <2>17 DEF Passes
  <2>18. CASE FailsTest(w)
    BY <2>18 DEF FailsTest, Counted, Stop, StartStep, Raise, LinkedFailed, Guarded
  <2>19. CASE Repaired(w)
    BY <2>19 DEF Repaired, Returned, StartStep, Raise, LinkedFailed, Guarded
  <2>20. CASE WriteFinalTest(w)
    BY <2>20 DEF WriteFinalTest, StartStep, Raise, LinkedFailed, Guarded
  <2>21. CASE StartFinal(w)
    BY <2>21 DEF StartFinal, Returned, Raise, LinkedFailed, Guarded
  <2>22. CASE FinalPasses(w)
    BY <2>22 DEF FinalPasses, Raise, LinkedFailed, Guarded
  <2>23. CASE FinalFails(w)
    BY <2>23 DEF FinalFails, Stop, StartStep, Counted, Raise, LinkedFailed, Guarded
  <2>24. CASE BeginFinish(w)
    BY <2>24 DEF BeginFinish, LostToCancel, Raise, LinkedFailed, Guarded
  <2>25. CASE Finish(w)
    BY <2>25 DEF Finish
  <2>26. CASE FinishFails(w)
    BY <2>26 DEF FinishFails, Raise, LinkedFailed, Guarded
  <2> QED
    BY <1>2, <2>1, <2>2, <2>3, <2>4, <2>5, <2>6, <2>7, <2>8, <2>9, <2>10, <2>11, <2>12,
       <2>13, <2>14, <2>15, <2>16, <2>17, <2>18, <2>19, <2>20, <2>21, <2>22, <2>23, <2>24,
       <2>25, <2>26 DEF Work
<1>3. CASE Approve
  BY <1>3 DEF Approve
<1>4. CASE Deny
  BY <1>4 DEF Deny
<1>5. CASE BeginCancel
  BY <1>5 DEF BeginCancel
<1>6. CASE Cancel
  BY <1>6 DEF Cancel, FailPackage
<1>7. CASE Crash
  BY <1>7 DEF Crash
<1>8. CASE UNCHANGED vars
  BY <1>8 DEF vars
<1> QED
  BY <1>1, <1>2, <1>3, <1>4, <1>5, <1>6, <1>7, <1>8 DEF Next

LEMMA FinishStep == TypeOK /\ FinishInv /\ [Next]_vars => FinishInv'
<1> SUFFICES ASSUME TypeOK, FinishInv, [Next]_vars PROVE FinishInv'
  OBVIOUS
<1> USE BuildConstants
    DEF TypeOK, FinishInv, Places, Goto, Cancelled, recordVars, runVars, lockVars,
        workVars, boundVars
<1>1. ASSUME NEW w \in Workers, Arrive(w) PROVE FinishInv'
  <2>1. CASE CreateRun(w)
    BY <2>1 DEF CreateRun, Request
  <2>2. CASE RetryTask(w)
    BY <2>2 DEF RetryTask, Request, ContinueBuild, CanGenerate
  <2>3. CASE ResumeWaiting(w)
    BY <2>3 DEF ResumeWaiting, Request, ContinueBuild, CanGenerate
  <2>4. CASE ResumePaused(w)
    BY <2>4 DEF ResumePaused, Request
  <2>5. CASE RetryFailed(w)
    BY <2>5 DEF RetryFailed, Request, ContinueBuild, CanGenerate
  <2> QED
    BY <1>1, <2>1, <2>2, <2>3, <2>4, <2>5 DEF Arrive
<1>2. ASSUME NEW w \in Workers, Work(w) PROVE FinishInv'
  <2>1. CASE PlanFails(w)
    BY <2>1 DEF PlanFails
  <2>2. CASE PlanStops(w)
    BY <2>2 DEF PlanStops
  <2>3. CASE PlanProceeds(w)
    BY <2>3 DEF PlanProceeds, Requested
  <2>4. CASE UsageAnswers(w)
    BY <2>4 DEF UsageAnswers
  <2>5. CASE Provisioned(w)
    BY <2>5 DEF Provisioned
  <2>6. CASE CallFails(w)
    BY <2>6 DEF CallFails, Raise, LinkedFailed, Guarded
  <2>7. CASE FailsGeneration(w)
    BY <2>7 DEF FailsGeneration, Guarded
  <2>8. CASE NeedsUser(w)
    BY <2>8 DEF NeedsUser, LinkedFailed
  <2>9. CASE DagWritten(w)
    BY <2>9 DEF DagWritten, Returned
  <2>10. CASE PauseRun(w)
    BY <2>10 DEF PauseRun, Written, PausedStatus
  <2>11. CASE Refused(w)
    BY <2>11 DEF Refused, Raise, LinkedFailed, Guarded
  <2>12. CASE BeginTask(w)
    BY <2>12 DEF BeginTask, BuildFirst, CanGenerate, StartStep, Remaining, Raise, LinkedFailed, Guarded
  <2>13. CASE BeginSingle(w)
    BY <2>13 DEF BeginSingle, BuildFirst, CanGenerate, Written, Raise, LinkedFailed, Guarded
  <2>14. CASE BuiltSingle(w)
    BY <2>14 DEF BuiltSingle, Returned
  <2>15. CASE Built(w)
    BY <2>15 DEF Built, Returned
  <2>16. CASE Inspected(w)
    BY <2>16 DEF Inspected
  <2>17. CASE Passes(w)
    BY <2>17 DEF Passes
  <2>18. CASE FailsTest(w)
    BY <2>18 DEF FailsTest, Counted, Stop, StartStep, Raise, LinkedFailed, Guarded
  <2>19. CASE Repaired(w)
    BY <2>19 DEF Repaired, Returned, StartStep, Raise, LinkedFailed, Guarded
  <2>20. CASE WriteFinalTest(w)
    BY <2>20 DEF WriteFinalTest, StartStep, Raise, LinkedFailed, Guarded
  <2>21. CASE StartFinal(w)
    BY <2>21 DEF StartFinal, Returned, Raise, LinkedFailed, Guarded
  <2>22. CASE FinalPasses(w)
    BY <2>22 DEF FinalPasses, Raise, LinkedFailed, Guarded
  <2>23. CASE FinalFails(w)
    BY <2>23 DEF FinalFails, Stop, StartStep, Counted, Raise, LinkedFailed, Guarded
  <2>24. CASE BeginFinish(w)
    BY <2>24 DEF BeginFinish, LostToCancel, Raise, LinkedFailed, Guarded
  <2>25. CASE Finish(w)
    BY <2>25 DEF Finish
  <2>26. CASE FinishFails(w)
    BY <2>26 DEF FinishFails, Raise, LinkedFailed, Guarded
  <2> QED
    BY <1>2, <2>1, <2>2, <2>3, <2>4, <2>5, <2>6, <2>7, <2>8, <2>9, <2>10, <2>11, <2>12,
       <2>13, <2>14, <2>15, <2>16, <2>17, <2>18, <2>19, <2>20, <2>21, <2>22, <2>23, <2>24,
       <2>25, <2>26 DEF Work
<1>3. CASE Approve
  BY <1>3 DEF Approve
<1>4. CASE Deny
  BY <1>4 DEF Deny
<1>5. CASE BeginCancel
  BY <1>5 DEF BeginCancel
<1>6. CASE Cancel
  BY <1>6 DEF Cancel, FailPackage
<1>7. CASE Crash
  BY <1>7 DEF Crash
<1>8. CASE UNCHANGED vars
  BY <1>8 DEF vars
<1> QED
  BY <1>1, <1>2, <1>3, <1>4, <1>5, <1>6, <1>7, <1>8 DEF Next

LEMMA InstallableStep == TypeOK /\ CancelledNotInstallable /\ [Next]_vars => CancelledNotInstallable'
<1> SUFFICES ASSUME TypeOK, CancelledNotInstallable, [Next]_vars PROVE CancelledNotInstallable'
  OBVIOUS
<1> USE BuildConstants
    DEF TypeOK, CancelledNotInstallable, Places, Goto, Cancelled, recordVars, runVars, lockVars,
        workVars, boundVars
<1>1. ASSUME NEW w \in Workers, Arrive(w) PROVE CancelledNotInstallable'
  <2>1. CASE CreateRun(w)
    BY <2>1 DEF CreateRun, Request
  <2>2. CASE RetryTask(w)
    BY <2>2 DEF RetryTask, Request, ContinueBuild, CanGenerate
  <2>3. CASE ResumeWaiting(w)
    BY <2>3 DEF ResumeWaiting, Request, ContinueBuild, CanGenerate
  <2>4. CASE ResumePaused(w)
    BY <2>4 DEF ResumePaused, Request
  <2>5. CASE RetryFailed(w)
    BY <2>5 DEF RetryFailed, Request, ContinueBuild, CanGenerate
  <2> QED
    BY <1>1, <2>1, <2>2, <2>3, <2>4, <2>5 DEF Arrive
<1>2. ASSUME NEW w \in Workers, Work(w) PROVE CancelledNotInstallable'
  <2>1. CASE PlanFails(w)
    BY <2>1 DEF PlanFails
  <2>2. CASE PlanStops(w)
    BY <2>2 DEF PlanStops
  <2>3. CASE PlanProceeds(w)
    BY <2>3 DEF PlanProceeds, Requested
  <2>4. CASE UsageAnswers(w)
    BY <2>4 DEF UsageAnswers
  <2>5. CASE Provisioned(w)
    BY <2>5 DEF Provisioned
  <2>6. CASE CallFails(w)
    BY <2>6 DEF CallFails, Raise, LinkedFailed, Guarded
  <2>7. CASE FailsGeneration(w)
    BY <2>7 DEF FailsGeneration, Guarded
  <2>8. CASE NeedsUser(w)
    BY <2>8 DEF NeedsUser, LinkedFailed
  <2>9. CASE DagWritten(w)
    BY <2>9 DEF DagWritten, Returned
  <2>10. CASE PauseRun(w)
    BY <2>10 DEF PauseRun, Written, PausedStatus
  <2>11. CASE Refused(w)
    BY <2>11 DEF Refused, Raise, LinkedFailed, Guarded
  <2>12. CASE BeginTask(w)
    BY <2>12 DEF BeginTask, BuildFirst, CanGenerate, StartStep, Remaining, Raise, LinkedFailed, Guarded
  <2>13. CASE BeginSingle(w)
    BY <2>13 DEF BeginSingle, BuildFirst, CanGenerate, Written, Raise, LinkedFailed, Guarded
  <2>14. CASE BuiltSingle(w)
    BY <2>14 DEF BuiltSingle, Returned
  <2>15. CASE Built(w)
    BY <2>15 DEF Built, Returned
  <2>16. CASE Inspected(w)
    BY <2>16 DEF Inspected
  <2>17. CASE Passes(w)
    BY <2>17 DEF Passes
  <2>18. CASE FailsTest(w)
    BY <2>18 DEF FailsTest, Counted, Stop, StartStep, Raise, LinkedFailed, Guarded
  <2>19. CASE Repaired(w)
    BY <2>19 DEF Repaired, Returned, StartStep, Raise, LinkedFailed, Guarded
  <2>20. CASE WriteFinalTest(w)
    BY <2>20 DEF WriteFinalTest, StartStep, Raise, LinkedFailed, Guarded
  <2>21. CASE StartFinal(w)
    BY <2>21 DEF StartFinal, Returned, Raise, LinkedFailed, Guarded
  <2>22. CASE FinalPasses(w)
    BY <2>22 DEF FinalPasses, Raise, LinkedFailed, Guarded
  <2>23. CASE FinalFails(w)
    BY <2>23 DEF FinalFails, Stop, StartStep, Counted, Raise, LinkedFailed, Guarded
  <2>24. CASE BeginFinish(w)
    BY <2>24 DEF BeginFinish, LostToCancel, Raise, LinkedFailed, Guarded
  <2>25. CASE Finish(w)
    BY <2>25 DEF Finish
  <2>26. CASE FinishFails(w)
    BY <2>26 DEF FinishFails, Raise, LinkedFailed, Guarded
  <2> QED
    BY <1>2, <2>1, <2>2, <2>3, <2>4, <2>5, <2>6, <2>7, <2>8, <2>9, <2>10, <2>11, <2>12,
       <2>13, <2>14, <2>15, <2>16, <2>17, <2>18, <2>19, <2>20, <2>21, <2>22, <2>23, <2>24,
       <2>25, <2>26 DEF Work
<1>3. CASE Approve
  BY <1>3 DEF Approve
<1>4. CASE Deny
  BY <1>4 DEF Deny
<1>5. CASE BeginCancel
  BY <1>5 DEF BeginCancel
<1>6. CASE Cancel
  BY <1>6 DEF Cancel, FailPackage
<1>7. CASE Crash
  BY <1>7 DEF Crash
<1>8. CASE UNCHANGED vars
  BY <1>8 DEF vars
<1> QED
  BY <1>1, <1>2, <1>3, <1>4, <1>5, <1>6, <1>7, <1>8 DEF Next

\* Every conjunct of the inductive invariant, in every state.
LEMMA Invariants ==
    Spec => [](TypeOK /\ StepInv /\ ApprovalInv /\ FinishInv /\ CancelledNotInstallable)
<1>1. Init => TypeOK /\ StepInv /\ ApprovalInv /\ FinishInv /\ CancelledNotInstallable
  BY TypeInit DEF Init, StepInv, ApprovalInv, FinishInv, CancelledNotInstallable, TaskPlaces, Cancelled
<1>2. TypeOK /\ StepInv /\ ApprovalInv /\ FinishInv /\ CancelledNotInstallable /\ [Next]_vars
        => (TypeOK /\ StepInv /\ ApprovalInv /\ FinishInv /\ CancelledNotInstallable)'
  BY TypeStep, StepStep, ApprovalStep, FinishStep, InstallableStep
<1> QED
  BY <1>1, <1>2, PTL DEF Spec

THEOREM TypeCorrect == Spec => []TypeOK
  BY Invariants, PTL

\* The package of a cancelled run cannot be installed, whatever other handlers
\* of the run were doing when it was cancelled.
THEOREM CancelledStaysOut == Spec => []CancelledNotInstallable
  BY Invariants, PTL

\* Nothing is built, tested or finalized without the user's approval, whichever
\* of the entry points took the run up, and after any number of deaths.
THEOREM OnlyApprovedIsBuilt == Spec => []BuiltWasApproved
<1>1. ApprovalInv => BuiltWasApproved
  BY DEF ApprovalInv, BuiltWasApproved, Building
<1> QED
  BY <1>1, Invariants, PTL

\* A finalization never overrides a cancellation.
THEOREM CancellationWins == Spec => CancelBeatsFinish
<1>1. ASSUME TypeOK, FinishInv, Cancelled, [Next]_vars
      PROVE status' # "succeeded" /\ (skill' = "proposed" => skill = "proposed")
  <2> USE <1>1 DEF TypeOK, Cancelled, Goto, recordVars, runVars, lockVars, workVars, boundVars
  <2> DEFINE Kept == status' # "succeeded" /\ (skill' = "proposed" => skill = "proposed")
  <2>1. ASSUME NEW w \in Workers, Arrive(w) PROVE Kept
    <3>1. CASE CreateRun(w)
      BY <3>1 DEF CreateRun, Request
    <3>2. CASE RetryTask(w)
      BY <3>2 DEF RetryTask, Request, ContinueBuild, CanGenerate
    <3>3. CASE ResumeWaiting(w)
      BY <3>3 DEF ResumeWaiting, Request, ContinueBuild, CanGenerate
    <3>4. CASE ResumePaused(w)
      BY <3>4 DEF ResumePaused, Request
    <3>5. CASE RetryFailed(w)
      BY <3>5 DEF RetryFailed, Request, ContinueBuild, CanGenerate
    <3> QED
      BY <2>1, <3>1, <3>2, <3>3, <3>4, <3>5 DEF Arrive
  <2>2. ASSUME NEW w \in Workers, Work(w) PROVE Kept
    <3>1. CASE PlanFails(w)
      BY <3>1 DEF PlanFails
    <3>2. CASE PlanStops(w)
      BY <3>2 DEF PlanStops
    <3>3. CASE PlanProceeds(w)
      BY <3>3 DEF PlanProceeds, Requested
    <3>4. CASE UsageAnswers(w)
      BY <3>4 DEF UsageAnswers
    <3>5. CASE Provisioned(w)
      BY <3>5 DEF Provisioned
    <3>6. CASE CallFails(w)
      BY <3>6 DEF CallFails, Raise, LinkedFailed, Guarded
    <3>7. CASE FailsGeneration(w)
      BY <3>7 DEF FailsGeneration, Guarded
    <3>8. CASE NeedsUser(w)
      BY <3>8 DEF NeedsUser, LinkedFailed
    <3>9. CASE DagWritten(w)
      BY <3>9 DEF DagWritten, Returned
    <3>10. CASE PauseRun(w)
      BY <3>10 DEF PauseRun, Written, PausedStatus
    <3>11. CASE Refused(w)
      BY <3>11 DEF Refused, Raise, LinkedFailed, Guarded
    <3>12. CASE BeginTask(w)
      BY <3>12 DEF BeginTask, BuildFirst, CanGenerate, StartStep, Remaining, Raise, LinkedFailed, Guarded
    <3>13. CASE BeginSingle(w)
      BY <3>13 DEF BeginSingle, BuildFirst, CanGenerate, Written, Raise, LinkedFailed, Guarded
    <3>14. CASE BuiltSingle(w)
      BY <3>14 DEF BuiltSingle, Returned
    <3>15. CASE Built(w)
      BY <3>15 DEF Built, Returned
    <3>16. CASE Inspected(w)
      BY <3>16 DEF Inspected
    <3>17. CASE Passes(w)
      BY <3>17 DEF Passes
    <3>18. CASE FailsTest(w)
      BY <3>18 DEF FailsTest, Counted, Stop, StartStep, Raise, LinkedFailed, Guarded
    <3>19. CASE Repaired(w)
      BY <3>19 DEF Repaired, Returned, StartStep, Raise, LinkedFailed, Guarded
    <3>20. CASE WriteFinalTest(w)
      BY <3>20 DEF WriteFinalTest, StartStep, Raise, LinkedFailed, Guarded
    <3>21. CASE StartFinal(w)
      BY <3>21 DEF StartFinal, Returned, Raise, LinkedFailed, Guarded
    <3>22. CASE FinalPasses(w)
      BY <3>22 DEF FinalPasses, Raise, LinkedFailed, Guarded
    <3>23. CASE FinalFails(w)
      BY <3>23 DEF FinalFails, Stop, StartStep, Counted, Raise, LinkedFailed, Guarded
    <3>24. CASE BeginFinish(w)
      BY <3>24 DEF BeginFinish, LostToCancel, Raise, LinkedFailed, Guarded
    <3>25. CASE Finish(w)
      BY <3>25 DEF Finish, FinishInv
    <3>26. CASE FinishFails(w)
      BY <3>26 DEF FinishFails, Raise, LinkedFailed, Guarded
    <3> QED
      BY <2>2, <3>1, <3>2, <3>3, <3>4, <3>5, <3>6, <3>7, <3>8, <3>9, <3>10, <3>11, <3>12,
         <3>13, <3>14, <3>15, <3>16, <3>17, <3>18, <3>19, <3>20, <3>21, <3>22, <3>23, <3>24,
         <3>25, <3>26 DEF Work
  <2>3. CASE Approve
    BY <2>3 DEF Approve
  <2>4. CASE Deny
    BY <2>4 DEF Deny
  <2>5. CASE BeginCancel
    BY <2>5 DEF BeginCancel
  <2>6. CASE Cancel
    BY <2>6 DEF Cancel, FailPackage
  <2>7. CASE Crash
    BY <2>7 DEF Crash
  <2>8. CASE UNCHANGED vars
    BY <2>8 DEF vars
  <2> QED
    BY <2>1, <2>2, <2>3, <2>4, <2>5, <2>6, <2>7, <2>8 DEF Next
<1> QED
  BY <1>1, Invariants, PTL DEF Spec, CancelBeatsFinish

=============================================================================
