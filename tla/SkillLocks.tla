----------------------------- MODULE SkillLocks -----------------------------
(***************************************************************************)
(* SkillOperationGuard and the operations it guards on one skill: runs     *)
(* (started directly or by the scheduler), install, update, repair and     *)
(* delete, and enable, disable and web application starts.  The lock is a  *)
(* row of skill_operation_locks whose primary key is the skill.            *)
(*                                                                         *)
(* Each thread has a database session of its own and SQLite holds no       *)
(* transaction over a SELECT, so every statement that reads and every      *)
(* commit is an action.                                                    *)
(***************************************************************************)
EXTENDS Naturals, FiniteSets

CONSTANTS
    Operators,   \* request, worker and scheduler threads
    LongOperations, \* operations may take over DEFAULT_STALE_AFTER, two hours
    MaxAgings,   \* bound: times a lock grows older than that
    MaxDeaths,   \* bound: process deaths
    MaxLost      \* bound: ends and releases that fail to commit

ASSUME LongAssumption == LongOperations \in BOOLEAN
ASSUME LockBounds == MaxAgings \in Nat /\ MaxDeaths \in Nat /\ MaxLost \in Nat

Runs       == {"directRun", "scheduledRun"}
\* RUN_OPERATIONS and MUTATING_OPERATIONS look for an active run, others do not.
Operations == Runs \cup {"mutate", "other"}

VARIABLES
    row,       \* the operation of the lock row, "free" for none
    stale,     \* its created_at is over two hours ago
    run,       \* the source of each thread's active SkillRun row, "none" for none
    place,     \* where each thread is
    doing,     \* the operation it performs
    up,        \* the backend process is up and has recovered
    unended,   \* history: the threads of this process whose run's end failed to commit
    agings, deaths, losses

upsets == <<unended, losses>>
lockVars == <<row, stale, run, place, doing, up, agings, deaths, upsets>>

MoveTo(t, p) == place' = [place EXCEPT ![t] = p]
HasActiveRun == \E t \in Operators : run[t] # "none"
Holders == {t \in Operators : place[t] \in {"held", "running", "release"}}
DeleteLock == row' = "free" /\ stale' = FALSE

LockInit ==
    /\ row = "free" /\ stale = FALSE
    /\ run = [t \in Operators |-> "none"]
    /\ place = [t \in Operators |-> "idle"] /\ doing = [t \in Operators |-> "other"]
    /\ up = TRUE /\ agings = 0 /\ deaths = 0 /\ unended = {} /\ losses = 0

-----------------------------------------------------------------------------
(* acquire *)

\* A run or a mutation is refused while the skill has an active run.
CheckRun(t) ==
    /\ up /\ place[t] = "idle"
    /\ \E o \in Operations :
         /\ o \in Runs \cup {"mutate"} => ~HasActiveRun
         /\ doing' = [doing EXCEPT ![t] = o]
    /\ MoveTo(t, "clear")
    /\ UNCHANGED <<row, stale, run, up, agings, deaths, upsets>>

NeverExpired == FALSE  \* mutant of Expired
Expired == stale

\* _clear_stale_lock reads the lock; a fresh one refuses the operation.
ReadLock(t) ==
    /\ place[t] = "clear"
    /\ MoveTo(t, CASE row = "free"          -> "look"
                 [] row # "free" /\ ~Expired -> "idle"
                 [] row # "free" /\ Expired  -> "stale")
    /\ UNCHANGED <<row, stale, run, doing, up, agings, deaths, upsets>>

\* A lock over two hours old still counts while the skill has an active run.
CheckStale(t) ==
    /\ place[t] = "stale"
    /\ MoveTo(t, IF HasActiveRun THEN "idle" ELSE "delete")
    /\ UNCHANGED <<row, stale, run, doing, up, agings, deaths, upsets>>

\* The delete names the skill: it takes the row that is there by then.
DeleteStale(t) ==
    /\ place[t] = "delete"
    /\ DeleteLock /\ MoveTo(t, "look")
    /\ UNCHANGED <<run, doing, up, agings, deaths, upsets>>

LookFor(t) ==
    /\ place[t] = "look"
    /\ MoveTo(t, IF row = "free" THEN "insert" ELSE "idle")
    /\ UNCHANGED <<row, stale, run, doing, up, agings, deaths, upsets>>

InsertAnyway(t) == TRUE  \* mutant of KeyIsFree: no IntegrityError for a second row
KeyIsFree(t) == row = "free"

\* The primary key lets one insert through; the loser is refused.
Insert(t) ==
    /\ place[t] = "insert"
    /\ \/ /\ KeyIsFree(t)
          /\ row' = doing[t] /\ stale' = FALSE /\ MoveTo(t, "held")
       \/ /\ ~KeyIsFree(t)
          /\ MoveTo(t, "idle") /\ UNCHANGED <<row, stale>>
    /\ UNCHANGED <<run, doing, up, agings, deaths, upsets>>

-----------------------------------------------------------------------------
(* The operation, and release. *)

\* The runner commits a running row of its own and finalizes it at the end.
BeginRun(t) ==
    /\ place[t] = "held" /\ doing[t] \in Runs
    /\ run' = [run EXCEPT ![t] = doing[t]] /\ MoveTo(t, "running")
    /\ UNCHANGED <<row, stale, doing, up, agings, deaths, upsets>>

FinishRun(t) == run' = [run EXCEPT ![t] = "none"]

EndRun(t) ==
    /\ place[t] = "running" /\ FinishRun(t)
    /\ MoveTo(t, "release")
    /\ UNCHANGED <<row, stale, doing, up, agings, deaths, upsets>>

Finish(t) ==
    /\ place[t] = "held" /\ doing[t] \notin Runs
    /\ MoveTo(t, "release")
    /\ UNCHANGED <<row, stale, run, doing, up, agings, deaths, upsets>>

\* release() deletes the lock row of the skill, whoever inserted it.
ReleaseLock(t) ==
    /\ place[t] = "release"
    /\ DeleteLock /\ MoveTo(t, "idle")
    /\ UNCHANGED <<run, doing, up, agings, deaths, upsets>>

CommitFails == losses < MaxLost /\ losses' = losses + 1

\* The commit of a run's end fails, and with it what follows in the same session: the
\* second attempt to end the run and the release.  The run stays active.
EndFails(t) ==
    /\ place[t] = "running" /\ CommitFails
    /\ unended' = unended \cup {t} /\ MoveTo(t, "idle")
    /\ UNCHANGED <<row, stale, run, doing, up, agings, deaths>>

\* So does the commit of its start, or the release itself: the lock stays.
ReleaseFails(t) ==
    /\ place[t] \in {"held", "release"} /\ CommitFails
    /\ MoveTo(t, "idle")
    /\ UNCHANGED <<row, stale, run, doing, up, agings, deaths, unended>>

-----------------------------------------------------------------------------
(* Time, death and recovery. *)

Age ==
    /\ row # "free" /\ ~stale /\ agings < MaxAgings
    /\ LongOperations \/ Holders = {}
    /\ stale' = TRUE /\ agings' = agings + 1
    /\ UNCHANGED <<row, run, place, doing, up, deaths, upsets>>

Die ==
    /\ up /\ deaths < MaxDeaths
    /\ up' = FALSE /\ deaths' = deaths + 1 /\ unended' = {}
    /\ place' = [t \in Operators |-> "idle"]
    /\ UNCHANGED <<row, stale, run, doing, agings, losses>>

LeaveRun == run  \* mutant of Interrupted
Interrupted ==
    [t \in Operators |-> IF run[t] = "scheduledRun" THEN "none" ELSE run[t]]

\* SchedulerService.start fails the interrupted runs of schedules and removes
\* their run locks; other runs and locks stay as they are.
RecoverLocks ==
    /\ ~up /\ up' = TRUE
    /\ run' = Interrupted
    /\ LET unlocks == (\E t \in Operators : run[t] = "scheduledRun") /\ row \in Runs IN
         \/ unlocks /\ DeleteLock
         \/ ~unlocks /\ UNCHANGED <<row, stale>>
    /\ UNCHANGED <<place, doing, agings, deaths, upsets>>

TakeLock(t) ==
    \/ CheckRun(t) \/ ReadLock(t) \/ CheckStale(t) \/ DeleteStale(t) \/ LookFor(t)
    \/ Insert(t)
Perform(t) == BeginRun(t) \/ EndRun(t) \/ Finish(t) \/ ReleaseLock(t)
LeaveBehind(t) == EndFails(t) \/ ReleaseFails(t)

LockNext ==
    (\E t \in Operators : TakeLock(t) \/ Perform(t) \/ LeaveBehind(t)) \/ Age \/ Die \/ RecoverLocks

LockSpec == LockInit /\ [][LockNext]_lockVars
\* Operations go on and end, time passes, the backend is started again and
\* somebody tries again: the scheduler at its times, or the user.
FairLockSpec ==
    /\ LockSpec /\ WF_lockVars(Age) /\ WF_lockVars(RecoverLocks)
    /\ \A t \in Operators : WF_lockVars(TakeLock(t)) /\ WF_lockVars(Perform(t))

-----------------------------------------------------------------------------
\* The values of the rows and threads; only a lock that exists is stale.
LockTypeOK ==
    /\ row \in {"free"} \cup Operations /\ stale \in BOOLEAN
    /\ stale => row # "free"
    /\ run \in [Operators -> {"none"} \cup Runs]
    /\ place \in [Operators -> {"idle", "clear", "stale", "delete", "look", "insert",
                              "held", "running", "release"}]
    /\ doing \in [Operators -> Operations] /\ up \in BOOLEAN
    /\ agings \in 0..MaxAgings /\ deaths \in 0..MaxDeaths
    /\ unended \subseteq Operators /\ losses \in 0..MaxLost

\* "It prevents overlapping operations on the same skill."
NoOverlap == Cardinality(Holders) <= 1

\* Until a lock first gets over two hours old, operations do not overlap, whoever
\* died before: the check, the look and the insert of acquire leave no gap.
NoOverlapWhileFresh == agings = 0 => Cardinality(Holders) <= 1

\* The active run of a schedule is in progress, or this process has failed to store its
\* end: none is left over by a restart, which would refuse every later operation.
ScheduledRunIsLive ==
    up => \A t \in Operators :
             run[t] = "scheduledRun" => place[t] = "running" \/ t \in unended

\* "Skill ... already has an active run" is said of a run that is in progress.
ActiveRunIsLive ==
    up => \A t \in Operators : run[t] # "none" => place[t] = "running"

Abandoned == row # "free" /\ Holders = {} /\ ~HasActiveRun

\* The lock of an operation that died or failed to release it does not keep others out
\* for ever.  (A lock that MaxAgings keeps young is left out.)
LockComesFree == (Abandoned /\ (stale \/ agings < MaxAgings)) ~> ~Abandoned
=============================================================================
