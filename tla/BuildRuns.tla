----------------------------- MODULE BuildRuns -----------------------------
(***************************************************************************)
(* One build run of AgentWorkflowService and the requests that work on it: *)
(* planning, approval, the task_dag and single_codex workflows, pause,     *)
(* resume, retry and cancellation.  Nothing claims a run: every request    *)
(* handler is a worker with a session of its own, and several may work on  *)
(* the same run.  An action lasts from one call that leaves the process    *)
(* (Codex, the test runner, pip, the usage service) to the next.           *)
(***************************************************************************)
EXTENDS Naturals, FiniteSets

CONSTANTS
    Workers,      \* request handlers
    Workflows,    \* the build workflows ProductManager may choose
    NTasks,       \* nodes of the task DAG, numbered in topological order
    Tested,       \* the nodes with requires_tests
    BatchEnds,    \* the last nodes of the admission batches
    MaxFailures,  \* MAX_TASK_FAILURES
    MaxRequests,  \* bound: requests in a behaviour
    MaxCrashes    \* bound: process deaths

ASSUME BuildConstants ==
    /\ NTasks \in Nat \ {0} /\ MaxFailures \in Nat
    /\ MaxRequests \in Nat /\ MaxCrashes \in Nat
    /\ Tested \subseteq 1..NTasks /\ BatchEnds \subseteq 1..NTasks
    /\ Workflows \subseteq {"task_dag", "single_codex"}
    /\ "none" \notin Workers /\ "canceller" \notin Workers

VARIABLES
    workflow,   \* AgentRun.build_workflow, in force once a plan exists
    status,     \* AgentRun.status; "asking" is blocked on a clarification
    gen,        \* SkillGenerationRequest.status
    skill,      \* Skill.status
    approval,   \* the build-time ApprovalRequest
    failures,   \* failure_count_json; NTasks + 1 is the final validation
    done,       \* the tasks final_summary_json records as done
    artifacts,  \* the tasks with an interface_artifact.json
    current,    \* current_task_id; 0 is none
    lock,       \* holder of the run's finalization lock
    marked,     \* CodexProcessRegistry holds the run as cancelled
    pc, mode,   \* where each worker is, and on behalf of which entry point
    task,       \* its task; 0 at the start of the remaining tasks
    local,      \* its own copy of the done tasks
    seen,       \* the status its session loaded before the usage service is asked
    requests, crashes

recordVars == <<status, gen, skill>>
runVars == <<workflow, approval, failures, done, artifacts, current>>
lockVars == <<lock, marked>>
workVars == <<mode, task, local, seen>>
boundVars == <<requests, crashes>>
vars == <<recordVars, runVars, lockVars, pc, workVars, boundVars>>

Tasks == 1..NTasks
Final == NTasks + 1
Single == workflow = "single_codex" /\ skill # "none"

Init ==
    /\ workflow \in Workflows
    /\ status = "none" /\ gen = "planned" /\ skill = "none" /\ approval = "none"
    /\ failures = [t \in 1..Final |-> 0] /\ done = {} /\ artifacts = {} /\ current = 0
    /\ lock = "none" /\ marked = FALSE
    /\ pc = [w \in Workers |-> "idle"] /\ mode = [w \in Workers |-> "none"]
    /\ task = [w \in Workers |-> 0] /\ local = [w \in Workers |-> {}]
    /\ seen = [w \in Workers |-> "none"]
    /\ requests = 0 /\ crashes = 0

-----------------------------------------------------------------------------
(* Ends of a request *)

Goto(w, l) == pc' = [pc EXCEPT ![w] = l]
Cancelled == status = "cancelled"
Guarded(w) == mode[w] \in {"fresh", "execute"}

\* _mark_linked_skill_failed
LinkedFailed ==
    /\ skill' = IF skill = "none" THEN skill ELSE "failed"
    /\ gen' = IF gen = "cancelled" THEN gen ELSE "failed"

\* An exception leaves the workflow: only continue_build_after_approval
\* catches it and fails the run; a resumed or retried run keeps its status.
Raise(w) ==
    /\ Goto(w, "idle")
    /\ \/ /\ Guarded(w) /\ status \notin {"blocked", "asking", "cancelled"}
          /\ status' = "failed" /\ LinkedFailed
       \/ /\ ~Guarded(w) \/ status \in {"blocked", "asking", "cancelled"}
          /\ UNCHANGED recordVars

\* _start_step: refused once the run is cancelled.
StartStep(w, l) ==
    \/ Cancelled /\ Raise(w)
    \/ ~Cancelled /\ status' = "running" /\ Goto(w, l) /\ UNCHANGED <<gen, skill>>

Stop(w) ==
    /\ Goto(w, "idle") /\ status' = "blocked" /\ skill' = "failed" /\ gen' = "failed"

-----------------------------------------------------------------------------
(* Requests *)

Request(w) ==
    /\ pc[w] = "idle" /\ requests < MaxRequests
    /\ requests' = requests + 1

\* create_build_run; the planning lock admits one call at a time.
CreateRun(w) ==
    /\ Request(w)
    /\ status \in {"none", "asking"} /\ \A v \in Workers : pc[v] # "plan"
    /\ status' = "running" /\ Goto(w, "plan")
    /\ UNCHANGED <<gen, skill, runVars, lockVars, workVars, crashes>>

PlanFails(w) ==
    /\ pc[w] = "plan" /\ Goto(w, "idle")
    /\ status' = IF Cancelled THEN status ELSE "failed"
    /\ gen' = "failed"
    /\ UNCHANGED <<skill, runVars, lockVars, workVars, boundVars>>

\* Clarification and rejection: the status is written without a look at it.
PlanStops(w) ==
    /\ pc[w] = "plan" /\ Goto(w, "idle")
    /\ \/ status' = "asking" /\ gen' = "needs_input"
       \/ status' = "blocked" /\ gen' = "failed"
    /\ UNCHANGED <<skill, runVars, lockVars, workVars, boundVars>>

\* create_build_time_request
Requested == IF approval \in {"none", "superseded"} THEN "pending" ELSE approval

PlanProceeds(w) ==
    /\ pc[w] = "plan" /\ Goto(w, "idle")
    /\ gen' = "awaiting_approval" /\ skill' = "building"
    /\ approval' = Requested
    /\ status' = IF Cancelled THEN status ELSE "waiting_for_approval"
    /\ failures' = [t \in 1..Final |-> 0] /\ current' = 0
    /\ UNCHANGED <<workflow, done, artifacts, lockVars, workVars, boundVars>>

UnlessDenied == approval # "denied"  \* mutant of CanGenerate
CanGenerate == approval = "approved"

\* continue_build_after_approval, up to the provisioning of dependencies
ContinueBuild(w) ==
    /\ UNCHANGED <<skill, local, task, seen>>
    /\ \/ Cancelled /\ UNCHANGED <<status, pc, mode>>
       \/ /\ ~Cancelled /\ ~CanGenerate
          /\ status' = "waiting_for_approval" /\ UNCHANGED <<pc, mode>>
       \/ /\ ~Cancelled /\ CanGenerate /\ status' = "running"
          /\ Goto(w, "provision") /\ mode' = [mode EXCEPT ![w] = "fresh"]

\* PermissionService.approve_request and deny_request
Approve ==
    /\ approval = "pending" /\ gen # "cancelled"
    /\ approval' = "approved" /\ gen' = "approved"
    /\ UNCHANGED <<status, skill, workflow, failures, done, artifacts, current,
                   lockVars, pc, workVars, boundVars>>

Deny ==
    /\ \/ approval = "pending" /\ approval' = "denied"
       \/ gen \in {"planned", "needs_input"} /\ UNCHANGED approval
    /\ gen' = "cancelled"
    /\ UNCHANGED <<status, skill, workflow, failures, done, artifacts, current,
                   lockVars, pc, workVars, boundVars>>

\* The approve-generation route after its approval, and retry_current_task.
RetryTask(w) ==
    /\ Request(w)
    /\ status \notin {"none", "failed", "cancelled"}
    /\ ~(Single /\ status \in {"blocked", "asking"})
    /\ gen' = "approved" /\ ContinueBuild(w)
    /\ UNCHANGED <<runVars, lockVars, crashes>>

ResumeWaiting(w) ==
    /\ Request(w) /\ status = "waiting_for_approval"
    /\ gen' = IF CanGenerate THEN "approved" ELSE gen
    /\ ContinueBuild(w)
    /\ UNCHANGED <<runVars, lockVars, crashes>>

\* The usage service is asked before a paused run is resumed.
ResumePaused(w) ==
    /\ Request(w) /\ status = "paused" /\ Goto(w, "usage")
    /\ UNCHANGED <<recordVars, runVars, lockVars, workVars, crashes>>

UsageAnswers(w) ==
    /\ pc[w] = "usage"
    /\ \/ Goto(w, "idle") /\ UNCHANGED <<recordVars, workVars>>
       \/ /\ Goto(w, "admit") /\ mode' = [mode EXCEPT ![w] = "resume"]
          /\ task' = [task EXCEPT ![w] = 0] /\ local' = [local EXCEPT ![w] = done]
          /\ \/ Single /\ gen' = "approved" /\ seen' = [seen EXCEPT ![w] = status]
                /\ UNCHANGED <<status, skill>>
             \/ ~Single /\ status' = "running" /\ UNCHANGED <<gen, skill, seen>>
    /\ UNCHANGED <<runVars, lockVars, boundVars>>

\* TaskDagBuildWorkflow.retry_failed; a single_codex run is refused.
RetryFailed(w) ==
    /\ Request(w) /\ status = "failed" /\ ~Single
    /\ gen' = "approved"
    /\ \/ (skill = "none" \/ current \notin artifacts) /\ ContinueBuild(w)
       \/ /\ skill # "none" /\ current \in artifacts
          /\ skill' = "building" /\ status' = "running"
          /\ Goto(w, "retry") /\ mode' = [mode EXCEPT ![w] = "retry"]
          /\ task' = [task EXCEPT ![w] = current] /\ UNCHANGED <<local, seen>>
    /\ UNCHANGED <<runVars, lockVars, crashes>>

-----------------------------------------------------------------------------
(* The workflows *)

Provisioned(w) ==
    /\ pc[w] = "provision"
    /\ Goto(w, IF Single THEN "admit" ELSE "dag")
    /\ task' = [task EXCEPT ![w] = 0] /\ local' = [local EXCEPT ![w] = {}]
    /\ seen' = [seen EXCEPT ![w] = IF Single THEN status ELSE @]
    /\ UNCHANGED <<recordVars, runVars, lockVars, mode, boundVars>>

\* Any call that ends in an exception of the workflow; a failed first build
\* or provisioning may also fail the generation request by itself.
CallFails(w) ==
    /\ pc[w] \in {"provision", "dag", "build", "repair", "e2e", "repair_final"}
    /\ Raise(w)
    /\ UNCHANGED <<runVars, lockVars, workVars, boundVars>>

FailsGeneration(w) ==
    /\ \/ pc[w] = "provision"
       \/ pc[w] = "build" /\ (mode[w] = "fresh" \/ Single)
    /\ Goto(w, "idle") /\ gen' = "failed"
    /\ \/ /\ Guarded(w) /\ status \notin {"blocked", "asking", "cancelled"}
          /\ status' = "failed" /\ skill' = "failed"
       \/ /\ ~Guarded(w) \/ status \in {"blocked", "asking", "cancelled"}
          /\ UNCHANGED <<status, skill>>
    /\ UNCHANGED <<runVars, lockVars, workVars, boundVars>>

\* _builder_user_action_required: blocked, whatever the status is by then.
NeedsUser(w) ==
    /\ ~marked /\ pc[w] \in {"build", "repair", "repair_final"} /\ ~Single
    /\ Goto(w, "idle") /\ status' = "blocked" /\ LinkedFailed
    /\ current' = IF pc[w] = "repair_final" THEN Final ELSE task[w]
    /\ done' = {}
    /\ UNCHANGED <<workflow, approval, failures, artifacts, lockVars, workVars, boundVars>>

\* A Codex call of a run in the registry never returns a result.
Returned(w, l) == pc[w] = l /\ ~marked

DagWritten(w) ==
    /\ Returned(w, "dag")
    /\ failures' = [t \in 1..Final |-> 0] /\ status' = "running"
    /\ Goto(w, "admit")
    /\ UNCHANGED <<gen, skill, workflow, approval, done, artifacts, current,
                   lockVars, workVars, boundVars>>

Remaining(w) == Tasks \ local[w]

\* An assignment of the value the session has loaded is not written.
Written(w, s) == IF Single /\ seen[w] = s THEN status ELSE s

PausedStatus == "paused"

\* _pause_if_usage_below_reserve at the border of two batches
PauseRun(w) ==
    /\ pc[w] = "admit"
    /\ \/ Single
       \/ task[w] \in BatchEnds
       \/ task[w] = 0 /\ mode[w] # "fresh" /\ Remaining(w) # {}
    /\ status' = Written(w, PausedStatus) /\ Goto(w, "idle")
    /\ UNCHANGED <<gen, skill, runVars, lockVars, workVars, boundVars>>

\* generate_from_request and run_single_codex_build check the request again.
BuildFirst(w) ==
    /\ status' = "running"
    /\ \/ gen = "approved" /\ CanGenerate /\ gen' = "generating" /\ Goto(w, "build")
          /\ UNCHANGED skill
       \/ ~(gen = "approved" /\ CanGenerate) /\ Goto(w, "refused") /\ UNCHANGED <<gen, skill>>

Refused(w) ==
    /\ pc[w] = "refused" /\ Raise(w)
    /\ UNCHANGED <<runVars, lockVars, workVars, boundVars>>

BeginTask(w) ==
    /\ pc[w] = "admit" /\ Single = FALSE /\ Remaining(w) # {}
    /\ \E t \in Remaining(w) :
       /\ \A u \in Remaining(w) : t <= u
       /\ task' = [task EXCEPT ![w] = t] /\ current' = t
       /\ done' = local[w]
    /\ \/ mode[w] = "fresh" /\ ~Cancelled /\ BuildFirst(w)
       \/ mode[w] = "fresh" /\ Cancelled /\ Raise(w)
       \/ mode[w] # "fresh" /\ StartStep(w, "build")
    /\ UNCHANGED <<workflow, approval, failures, artifacts, lockVars, mode, local, seen, boundVars>>

\* SingleCodexBuildWorkflow.execute writes "running" before _start_step looks.
BeginSingle(w) ==
    /\ pc[w] = "admit" /\ Single
    /\ \/ Written(w, "running") # "cancelled" /\ BuildFirst(w)
       \/ Written(w, "running") = "cancelled" /\ Raise(w)
    /\ UNCHANGED <<runVars, lockVars, workVars, boundVars>>

BuiltSingle(w) ==
    /\ Returned(w, "build") /\ Single
    /\ skill' = "building" /\ gen' = "generated" /\ Goto(w, "final")
    /\ UNCHANGED <<status, runVars, lockVars, workVars, boundVars>>

\* The builder returned: the package is recorded, then inspected.
Built(w) ==
    /\ Returned(w, "build") /\ ~Single /\ Goto(w, "inspect")
    /\ skill' = IF mode[w] = "fresh" THEN "building" ELSE skill
    /\ UNCHANGED <<status, gen, runVars, lockVars, workVars, boundVars>>

Inspected(w) ==
    /\ pc[w] = "inspect"
    /\ artifacts' = artifacts \cup {task[w]}
    /\ mode' = [mode EXCEPT ![w] = IF @ = "fresh" THEN "execute" ELSE @]
    /\ \/ task[w] \in Tested /\ Cancelled /\ Goto(w, "refused") /\ UNCHANGED status
       \/ task[w] \in Tested /\ ~Cancelled /\ status' = "running" /\ Goto(w, "test")
       \/ task[w] \notin Tested /\ Goto(w, "validate") /\ UNCHANGED status
    /\ gen' = IF mode[w] = "fresh" THEN "generated" ELSE gen
    /\ UNCHANGED <<skill, workflow, approval, failures, done, current,
                   lockVars, task, local, seen, boundVars>>

\* The tests pass; a tester that is cut off counts as a failed validation.
Passes(w) ==
    /\ pc[w] \in {"test", "validate"}
    /\ LET now == (IF mode[w] = "retry" THEN done ELSE local[w]) \cup {task[w]} IN
       local' = [local EXCEPT ![w] = now] /\ done' = now
    /\ Goto(w, "admit")
    /\ \/ /\ mode[w] = "retry" /\ status' = "running"
          /\ mode' = [mode EXCEPT ![w] = "resume"] /\ task' = [task EXCEPT ![w] = 0]
       \/ mode[w] # "retry" /\ UNCHANGED <<status, mode, task>>
    /\ UNCHANGED <<gen, skill, workflow, approval, failures, artifacts, current,
                   lockVars, seen, boundVars>>

KeepCount(t) == failures[t]  \* mutant of Counted
Counted(t) == failures[t] + 1

\* The task failed its validation: a bounded number of repairs, then the stop.
FailsTest(w) ==
    /\ pc[w] \in {"test", "validate", "retry"}
    /\ failures' = [failures EXCEPT ![task[w]] = Counted(task[w])]
    /\ \/ /\ Counted(task[w]) > MaxFailures
          /\ \/ Cancelled /\ Raise(w) /\ UNCHANGED done
             \/ ~Cancelled /\ Stop(w) /\ done' = {}
       \/ Counted(task[w]) <= MaxFailures /\ StartStep(w, "repair") /\ UNCHANGED done
    /\ UNCHANGED <<workflow, approval, artifacts, current, lockVars, workVars, boundVars>>

Repaired(w) ==
    /\ Returned(w, "repair") /\ StartStep(w, "test")
    /\ artifacts' = artifacts \cup {task[w]}
    /\ UNCHANGED <<workflow, approval, failures, done, current, lockVars, workVars, boundVars>>

WriteFinalTest(w) ==
    /\ pc[w] = "admit" /\ ~Single /\ Remaining(w) = {} /\ StartStep(w, "e2e")
    /\ current' = Final
    /\ UNCHANGED <<workflow, approval, failures, done, artifacts, lockVars, workVars, boundVars>>

\* _run_final_validation looks at the status before and after.
StartFinal(w) ==
    /\ Returned(w, "e2e") \/ Returned(w, "repair_final")
    /\ \/ Cancelled /\ Raise(w)
       \/ ~Cancelled /\ Goto(w, "final") /\ UNCHANGED recordVars
    /\ current' = Final
    /\ UNCHANGED <<workflow, approval, failures, done, artifacts, lockVars, workVars, boundVars>>

FinalPasses(w) ==
    /\ pc[w] = "final"
    /\ \/ Cancelled /\ Raise(w)
       \/ ~Cancelled /\ Goto(w, "finalize") /\ UNCHANGED recordVars
    /\ UNCHANGED <<runVars, lockVars, workVars, boundVars>>

\* _stop_final_validation_failed, at once for single_codex
FinalFails(w) ==
    /\ pc[w] = "final"
    /\ \/ Cancelled /\ Raise(w) /\ UNCHANGED <<failures, done>>
       \/ ~Cancelled /\ Single /\ Stop(w) /\ done' = {} /\ UNCHANGED failures
       \/ /\ ~Cancelled /\ ~Single
          /\ failures' = [failures EXCEPT ![Final] = Counted(Final)]
          /\ \/ Counted(Final) > MaxFailures /\ Stop(w) /\ done' = {}
             \/ Counted(Final) <= MaxFailures /\ StartStep(w, "repair_final") /\ UNCHANGED done
    /\ UNCHANGED <<workflow, approval, artifacts, current, lockVars, workVars, boundVars>>

-----------------------------------------------------------------------------
(* Finalization and cancellation share the run's lock *)

IgnoreCancel == FALSE  \* mutant of LostToCancel
LostToCancel == Cancelled

BeginFinish(w) ==
    /\ pc[w] = "finalize" /\ lock = "none"
    /\ \/ LostToCancel /\ Raise(w) /\ UNCHANGED lock
       \/ ~LostToCancel /\ lock' = w /\ Goto(w, "finishing") /\ UNCHANGED recordVars
    /\ UNCHANGED <<runVars, marked, workVars, boundVars>>

\* _product_manager_finish; single_codex then marks the request generated.
Finish(w) ==
    /\ pc[w] = "finishing" /\ Goto(w, "idle") /\ lock' = "none"
    /\ status' = "succeeded" /\ skill' = "proposed"
    /\ gen' = IF Single THEN "generated" ELSE gen
    /\ UNCHANGED <<runVars, marked, workVars, boundVars>>

\* The runtime permission review fails.
FinishFails(w) ==
    /\ pc[w] = "finishing" /\ Raise(w) /\ lock' = "none"
    /\ UNCHANGED <<runVars, marked, workVars, boundVars>>

\* cancel_run: the registry is told before the ProductManager thread is archived.
BeginCancel ==
    /\ lock = "none"
    /\ status \notin {"none", "succeeded", "failed", "cancelled", "blocked"}
    /\ lock' = "canceller" /\ marked' = TRUE
    /\ UNCHANGED <<recordVars, runVars, pc, workVars, boundVars>>

FailBuilding == IF skill = "building" THEN "failed" ELSE skill  \* mutant of FailPackage
FailPackage == IF skill \in {"building", "proposed"} THEN "failed" ELSE skill

Cancel ==
    /\ lock = "canceller" /\ lock' = "none"
    /\ status' = "cancelled" /\ gen' = "cancelled" /\ skill' = FailPackage
    /\ approval' = IF approval = "pending" THEN "superseded" ELSE approval
    /\ UNCHANGED <<workflow, failures, done, artifacts, current, marked, pc, workVars, boundVars>>

\* The process dies: requests, lock and registry are gone, the rows stay.
Crash ==
    /\ crashes < MaxCrashes /\ crashes' = crashes + 1
    /\ pc' = [w \in Workers |-> "idle"] /\ lock' = "none" /\ marked' = FALSE
    /\ UNCHANGED <<recordVars, runVars, workVars, requests>>

Arrive(w) ==
    \/ CreateRun(w) \/ RetryTask(w) \/ ResumeWaiting(w) \/ ResumePaused(w) \/ RetryFailed(w)

Work(w) ==
    \/ PlanFails(w) \/ PlanStops(w) \/ PlanProceeds(w) \/ UsageAnswers(w)
    \/ Provisioned(w) \/ CallFails(w) \/ FailsGeneration(w) \/ NeedsUser(w) \/ DagWritten(w)
    \/ PauseRun(w) \/ Refused(w) \/ BeginTask(w) \/ BeginSingle(w) \/ BuiltSingle(w)
    \/ Built(w) \/ Inspected(w) \/ Passes(w) \/ FailsTest(w) \/ Repaired(w)
    \/ WriteFinalTest(w) \/ StartFinal(w) \/ FinalPasses(w) \/ FinalFails(w)
    \/ BeginFinish(w) \/ Finish(w) \/ FinishFails(w)

Next ==
    \/ \E w \in Workers : Arrive(w) \/ Work(w)
    \/ Approve \/ Deny \/ BeginCancel \/ Cancel \/ Crash

Spec == Init /\ [][Next]_vars

\* Every call a handler makes ends: Codex, pip and the tests have timeouts.
FairSpec == Spec /\ WF_vars(Cancel) /\ \A w \in Workers : WF_vars(Work(w))
-----------------------------------------------------------------------------
Places == {"idle", "plan", "usage", "provision", "dag", "admit", "refused", "build", "inspect",
           "test", "validate", "retry", "repair", "e2e", "final", "repair_final", "finalize",
           "finishing"}
Building == {"build", "inspect", "test", "validate", "repair", "e2e", "final", "repair_final",
             "finalize", "finishing"}

\* Type correctness of the run, its records and the workers.
TypeOK ==
    /\ workflow \in Workflows
    /\ status \in {"none", "running", "waiting_for_approval", "paused", "asking", "blocked",
                   "failed", "cancelled", "succeeded"}
    /\ gen \in {"planned", "needs_input", "awaiting_approval", "approved", "generating",
                "generated", "failed", "cancelled"}
    /\ skill \in {"none", "building", "proposed", "failed"}
    /\ approval \in {"none", "pending", "approved", "denied", "superseded"}
    /\ failures \in [1..Final -> Nat] /\ current \in 0..Final
    /\ done \subseteq Tasks /\ artifacts \subseteq Tasks
    /\ lock \in Workers \cup {"none", "canceller"} /\ marked \in BOOLEAN
    /\ pc \in [Workers -> Places]
    /\ mode \in [Workers -> {"none", "fresh", "execute", "resume", "retry"}]
    /\ task \in [Workers -> 0..NTasks] /\ local \in [Workers -> SUBSET Tasks]
    /\ seen \in [Workers -> {"none", "running", "paused", "cancelled", "asking", "blocked", "failed",
                             "waiting_for_approval", "succeeded"}]
    /\ requests \in 0..MaxRequests /\ crashes \in 0..MaxCrashes

\* Cancellation and finalization exclude each other: no step takes a run from
\* cancelled to succeeded or publishes its package (_finalize_validated_skill).
CancelBeatsFinish ==
    [][Cancelled => status' # "succeeded" /\ (skill' = "proposed" => skill = "proposed")]_vars

\* While a run stands as cancelled its package is not one the user may
\* install, also when an earlier attempt of the run had proposed it.
CancelledNotInstallable == Cancelled => skill # "proposed"

\* No builder, tester or finalization runs, and no package is proposed,
\* without the user's approval of the build, whichever entry point led there.
BuiltWasApproved ==
    (skill = "proposed" \/ \E w \in Workers : pc[w] \in Building) => approval = "approved"

\* Every request ends: repairs are bounded by failure_count_json, and the
\* finalization lock is not held for ever.
RequestsEnd == \A w \in Workers : pc[w] # "idle" ~> pc[w] = "idle"

\* ui.md:181: cancelling "leaves the run cancelled; it cannot later become failed".
StaysCancelled == [][Cancelled => status' = "cancelled"]_vars
=============================================================================
