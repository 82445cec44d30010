------------------------ MODULE ScheduleOccurrences ------------------------
(***************************************************************************)
(* SchedulerService and one schedule: of a generated service (a            *)
(* SkillSchedule row and a ScheduleRuntimeState row) or of the backend     *)
(* itself (a ScheduleRuntimeState row alone).  Firings of the APScheduler  *)
(* job, the catch-up of a startup and Run Now claim a row of               *)
(* schedule_occurrences, whose unique key is definition and intended time, *)
(* and then invoke the service.                                            *)
(*                                                                         *)
(* now counts the intended instants that have passed; everything else      *)
(* happens between two of them, so what a step at `now` sets is later than *)
(* the instant now and earlier than now + 1.  One user edits the schedule  *)
(* at a time: an edit is one step.                                         *)
(***************************************************************************)
EXTENDS Naturals, FiniteSets

CONSTANTS
    Kinds,        \* kinds of schedule considered, of "skill" and "platform"
    Definitions,  \* schedule definitions; each has a fingerprint of its own
    Intervals,    \* those that repeat after an interval, from their activation
    Every,        \* that interval
    Calendar,     \* the instants of the daily and weekly ones
    Requests,     \* Run Now requests
    MaxTime,      \* bound: instants
    MaxEdits,     \* bound: edits
    MaxCrashes    \* bound: process deaths

ASSUME KindsAssumption == Kinds \subseteq {"skill", "platform"}
ASSUME BoundsAssumption ==
    /\ MaxTime \in Nat \ {0} /\ Every \in Nat \ {0}
    /\ MaxEdits \in Nat /\ MaxCrashes \in Nat
ASSUME CalendarAssumption ==
    Intervals \subseteq Definitions /\ Calendar \in [Definitions -> SUBSET (1..MaxTime)]

Keys    == Definitions \X (1..MaxTime)
Items   == Keys \cup Requests
Never   == MaxTime + 1   \* active_since_at is NULL: no instant is later
NoJob   == "none"
Workers == {"auto", "catchup"}   \* the threads of the job and of a catch-up
Threads == Workers \cup Requests
ASSUME NamesAssumption ==
    Requests \cap (Workers \cup Keys) = {} /\ NoJob \notin Definitions

VARIABLES
    kind,      \* what is scheduled
    enabled,   \* Skill.enabled and the active status, or the state's enabled
    def,       \* the definition in the schedule's row
    fp,        \* ScheduleRuntimeState.definition_fingerprint
    since,     \* ScheduleRuntimeState.active_since_at; fixes the interval's anchor
    occ,       \* ScheduleOccurrence.status, "none" for no row
    effects,   \* history: how often the service was invoked for it
    now,
    server,    \* how far start() has come: down, recovered, loaded, up
    startAt,   \* startup_at
    job,       \* the definition of the registered job's trigger
    jobSince,  \* and its start
    due,       \* the job's next run time has passed
    pc,        \* where each thread is
    key,       \* the occurrence a worker has in hand
    seen,      \* the definition execute_schedule read
    inForce,   \* history: the definitions enabled at each instant
    boundary,  \* history: when the service was last enabled or edited
    dropped,   \* history: instants whose firing APScheduler dropped
    gap,       \* history: instants after startup_at that no job was there for
    raced,     \* history: a firing put the state of an earlier definition back
    edits, crashes

rows   == <<enabled, def, fp, since>>
jobs   == <<job, jobSince, due>>
claims == <<occ, effects>>
trace  == <<inForce, boundary, dropped, gap, raced>>
vars == <<kind, rows, claims, now, server, startAt, jobs, pc, key, seen, trace, edits,
          crashes>>

OnSchedule(d, t, from) ==
    IF d \in Intervals THEN t > from /\ (t - from) % Every = 0 ELSE t \in Calendar[d]

\* The intended instants after the activation and up to a time; the latest of them.
DueTimes(d, from, to) == {t \in 1..to : t > from /\ OnSchedule(d, t, from)}
IsLatest(t, d, from, to) ==
    t \in DueTimes(d, from, to) /\ \A u \in DueTimes(d, from, to) : u <= t

Goto(t, p) == pc' = [pc EXCEPT ![t] = p]
ItemOf(t) == IF t \in Requests THEN t ELSE key[t]
Up == server = "up"

Init ==
    /\ kind \in Kinds
    /\ enabled \in BOOLEAN /\ def \in Definitions
    /\ fp = def /\ since = (IF enabled THEN 0 ELSE Never)
    /\ occ = [i \in Items |-> "none"] /\ effects = [i \in Items |-> 0]
    /\ now = 0 /\ server = "down" /\ startAt = 0
    /\ job = NoJob /\ jobSince = 0 /\ due = FALSE
    /\ pc = [t \in Threads |-> "idle"]
    /\ key = [w \in Workers |-> <<def, 1>>] /\ seen = def
    /\ inForce = [t \in 1..MaxTime |-> {}] /\ boundary = 0
    /\ dropped = {} /\ gap = {} /\ raced = FALSE
    /\ edits = 0 /\ crashes = 0

-----------------------------------------------------------------------------
(* Time and APScheduler. *)

\* The next intended instant passes; the job is to fire if its trigger names it.
Tick ==
    /\ now < MaxTime /\ now' = now + 1
    /\ inForce' = [inForce EXCEPT ![now + 1] = IF enabled THEN {def} ELSE {}]
    /\ due' = (due \/ (job # NoJob /\ OnSchedule(job, now + 1, jobSince)))
    /\ gap' = IF server = "recovered" THEN gap \cup {now + 1} ELSE gap
    /\ UNCHANGED <<kind, rows, claims, server, startAt, job, jobSince, pc, key, seen,
                   boundary, dropped, raced, edits, crashes>>

\* Late firings coalesce into one; with max_instances = 1 one that comes while the
\* last is still running is dropped.
Fire ==
    /\ due /\ due' = FALSE
    /\ \/ pc["auto"] = "idle" /\ Goto("auto", "read") /\ UNCHANGED dropped
       \/ pc["auto"] # "idle" /\ dropped' = dropped \cup (1..now) /\ UNCHANGED pc
    /\ UNCHANGED <<kind, rows, claims, now, server, startAt, job, jobSince, key, seen,
                   inForce, boundary, gap, raced, edits, crashes>>

-----------------------------------------------------------------------------
(* execute_schedule and execute_platform_service. *)

\* A skill's schedule is read in a statement of its own.
ReadSchedule ==
    /\ kind = "skill" /\ pc["auto"] = "read"
    /\ seen' = def
    /\ Goto("auto", IF enabled THEN "ensure" ELSE "idle")
    /\ UNCHANGED <<kind, rows, claims, now, server, startAt, jobs, key, trace, edits,
                   crashes>>

\* _ensure_schedule_state finds the state of another definition, or of a disabled
\* service: it writes its own definition and a new activation, which leaves nothing due.
Mismatch(d) == fp # d \/ since = Never
ResetState(d) == fp' = d /\ since' = now

EnsureResets ==
    /\ kind = "skill" /\ pc["auto"] = "ensure" /\ Mismatch(seen)
    /\ ResetState(seen) /\ raced' = TRUE
    /\ Goto("auto", "idle")
    /\ UNCHANGED <<kind, enabled, def, claims, now, server, startAt, jobs, key, seen,
                   inForce, boundary, dropped, gap, edits, crashes>>

\* _latest_due_at: go on to claim the latest instant of definition d, if any is due.
ClaimLatest(w, d, at) ==
    \/ \E t \in 1..MaxTime :
          /\ IsLatest(t, d, since, at)
          /\ key' = [key EXCEPT ![w] = <<d, t>>] /\ Goto(w, "claim")
    \/ /\ DueTimes(d, since, at) = {}
       /\ Goto(w, "idle") /\ UNCHANGED key

EnsureSkill ==
    /\ kind = "skill" /\ pc["auto"] = "ensure" /\ ~Mismatch(seen)
    /\ ClaimLatest("auto", seen, now)
    /\ UNCHANGED <<kind, rows, claims, now, server, startAt, jobs, seen, trace, edits,
                   crashes>>

\* A platform schedule has one row: it is read at once and agrees with itself.
EnsurePlatform ==
    /\ kind = "platform" /\ pc["auto"] = "read"
    /\ \/ enabled /\ ClaimLatest("auto", def, now)
       \/ ~enabled /\ Goto("auto", "idle") /\ UNCHANGED key
    /\ UNCHANGED <<kind, rows, claims, now, server, startAt, jobs, seen, trace, edits,
                   crashes>>

-----------------------------------------------------------------------------
(* The occurrence: _claim_occurrence to _finish_occurrence. *)

ClaimAnyway(i) == TRUE   \* mutant of Unclaimed
Unclaimed(i) == occ[i] = "none"

\* occurrence_key is unique: of two claims one gets the IntegrityError.
Claim(t) ==
    /\ pc[t] = "claim"
    /\ \/ /\ Unclaimed(ItemOf(t))
          /\ occ' = [occ EXCEPT ![ItemOf(t)] = "claimed"] /\ Goto(t, "begin")
       \/ /\ ~Unclaimed(ItemOf(t))
          /\ Goto(t, "idle") /\ UNCHANGED occ
    /\ UNCHANGED <<kind, rows, effects, now, server, startAt, jobs, key, seen, trace, edits,
                   crashes>>

\* The catch-up of a skill looks again whether its schedule is active.
Inactive(t) == t = "catchup" /\ kind = "skill" /\ ~enabled

Begin(t) ==
    /\ pc[t] = "begin"
    /\ IF Inactive(t)
       THEN occ' = [occ EXCEPT ![ItemOf(t)] = "ended"] /\ Goto(t, "idle")
       ELSE occ' = [occ EXCEPT ![ItemOf(t)] = "running"] /\ Goto(t, "invoke")
    /\ UNCHANGED <<kind, rows, effects, now, server, startAt, jobs, key, seen, trace, edits,
                   crashes>>

\* The service runs.  A skill must still be enabled, and not be refused by its
\* permissions or by the operation lock.
Invoke(t) ==
    /\ pc[t] = "invoke" /\ (kind = "skill" => enabled)
    /\ effects' = [effects EXCEPT ![ItemOf(t)] = @ + 1]
    /\ Goto(t, "work")
    /\ UNCHANGED <<kind, rows, occ, now, server, startAt, jobs, key, seen, trace, edits,
                   crashes>>

Blocked(t) ==
    /\ pc[t] = "invoke" /\ kind = "skill"
    /\ occ' = [occ EXCEPT ![ItemOf(t)] = "ended"] /\ Goto(t, "idle")
    /\ UNCHANGED <<kind, rows, effects, now, server, startAt, jobs, key, seen, trace, edits,
                   crashes>>

\* Its result or its failure ends the occurrence.
Finish(t) ==
    /\ pc[t] = "work"
    /\ occ' = [occ EXCEPT ![ItemOf(t)] = "ended"] /\ Goto(t, "idle")
    /\ UNCHANGED <<kind, rows, effects, now, server, startAt, jobs, key, seen, trace, edits,
                   crashes>>

-----------------------------------------------------------------------------
(* Requests, which are served once start() has returned. *)

\* Run Now of a platform service claims an instant of its own.
RunNow(r) ==
    /\ kind = "platform" /\ Up /\ pc[r] = "idle" /\ occ[r] = "none"
    /\ enabled /\ \A i \in Items : occ[i] # "running"
    /\ Goto(r, "claim")
    /\ UNCHANGED <<kind, rows, claims, now, server, startAt, jobs, key, seen, trace, edits,
                   crashes>>

\* Enable and disable take the operation lock of a skill.
LockFree == kind = "skill" => \A t \in Threads : pc[t] # "work"
EditStep ==
    /\ Up /\ edits < MaxEdits /\ edits' = edits + 1
    /\ UNCHANGED <<kind, claims, now, server, startAt, pc, key, seen, inForce, gap, raced,
                   crashes>>

KeepSince == since' = IF since = Never THEN now ELSE since  \* mutant of Activate
Activate == since' = now

Enable ==
    /\ EditStep /\ LockFree
    /\ enabled' = TRUE /\ fp' = def /\ Activate /\ boundary' = now
    /\ job' = def /\ jobSince' = since' /\ due' = FALSE
    /\ UNCHANGED <<def, dropped>>

Disable ==
    /\ EditStep /\ LockFree
    /\ enabled' = FALSE /\ fp' = def /\ since' = Never
    /\ job' = NoJob /\ due' = FALSE
    /\ UNCHANGED <<def, jobSince, boundary, dropped>>

\* Timing, timezone or input change, and with them the fingerprint; a platform
\* schedule starts anew also when they do not.
Update(d) ==
    /\ EditStep /\ (kind = "skill" => d # def)
    /\ def' = d /\ fp' = d
    /\ IF enabled
       THEN Activate /\ boundary' = now /\ job' = d /\ jobSince' = since' /\ due' = FALSE
       ELSE since' = Never /\ UNCHANGED <<boundary, jobs>>
    /\ UNCHANGED <<enabled, dropped>>

\* Another name: the state stays, and the job is registered anew, which forgets a
\* firing that was to come.
Rename ==
    /\ EditStep /\ kind = "skill" /\ enabled
    /\ job' = def /\ jobSince' = since /\ due' = FALSE
    /\ dropped' = IF due THEN dropped \cup (1..now) ELSE dropped
    /\ UNCHANGED <<rows, boundary>>

-----------------------------------------------------------------------------
(* start() *)

Crash ==
    /\ server # "down" /\ crashes < MaxCrashes
    /\ server' = "down" /\ crashes' = crashes + 1
    /\ job' = NoJob /\ due' = FALSE /\ pc' = [t \in Threads |-> "idle"]
    /\ UNCHANGED <<kind, rows, claims, now, startAt, jobSince, key, seen, trace, edits>>

LeftOpen == [i \in Items |-> IF occ[i] = "running" THEN "ended" ELSE occ[i]]  \* mutant of Recovered
Recovered == [i \in Items |-> IF occ[i] \in {"claimed", "running"} THEN "ended" ELSE occ[i]]

\* recover_interrupted_occurrences
Recover ==
    /\ server = "down" /\ server' = "recovered"
    /\ occ' = Recovered /\ startAt' = now
    /\ UNCHANGED <<kind, rows, effects, now, jobs, pc, key, seen, trace, edits, crashes>>

\* A firing left the state of another definition behind, or an activation missing.
StaleState == kind = "skill" /\ Mismatch(def)

\* load_active_schedules, register_platform_services; building an interval's trigger
\* looks at the state, and resets a stale one.
LoadJobs ==
    /\ server = "recovered" /\ server' = "loaded"
    /\ IF enabled /\ StaleState /\ def \in Intervals
       THEN ResetState(def) /\ raced' = TRUE
       ELSE UNCHANGED <<fp, since, raced>>
    /\ IF enabled THEN job' = def /\ jobSince' = since' ELSE UNCHANGED <<job, jobSince>>
    /\ UNCHANGED <<kind, enabled, def, claims, now, startAt, due, pc, key, seen, inForce,
                   boundary, dropped, gap, edits, crashes>>

\* queue_startup_catchups: the latest instant up to startup_at, if nobody claimed it.
SkillsOnly == enabled /\ kind = "skill" /\ ~StaleState  \* mutant of CatchUpDue
CatchUpDue == enabled /\ ~StaleState

QueueCatchUp ==
    /\ server = "loaded" /\ server' = "up" /\ CatchUpDue
    /\ \E t \in 1..MaxTime :
          /\ IsLatest(t, def, since, startAt) /\ Unclaimed(<<def, t>>)
          /\ occ' = [occ EXCEPT ![<<def, t>>] = "claimed"]
          /\ key' = [key EXCEPT !["catchup"] = <<def, t>>]
    /\ Goto("catchup", "begin")
    /\ UNCHANGED <<kind, rows, effects, now, startAt, jobs, seen, trace, edits, crashes>>

NoCatchUp ==
    /\ server = "loaded" /\ server' = "up"
    /\ CatchUpDue => ~\E t \in 1..MaxTime :
                         IsLatest(t, def, since, startAt) /\ Unclaimed(<<def, t>>)
    /\ \/ enabled /\ StaleState /\ ResetState(def) /\ raced' = TRUE
       \/ ~(enabled /\ StaleState) /\ UNCHANGED <<fp, since, raced>>
    /\ UNCHANGED <<kind, enabled, def, claims, now, startAt, jobs, pc, key, seen, inForce,
                   boundary, dropped, gap, edits, crashes>>

-----------------------------------------------------------------------------
Firing == ReadSchedule \/ EnsureResets \/ EnsureSkill \/ EnsurePlatform
Execute(t) == Claim(t) \/ Begin(t) \/ Invoke(t) \/ Blocked(t) \/ Finish(t)
Start == Recover \/ LoadJobs \/ QueueCatchUp \/ NoCatchUp
Edit == Enable \/ Disable \/ (\E d \in Definitions : Update(d)) \/ Rename

Next ==
    \/ Tick \/ Fire \/ Firing \/ Start \/ Edit \/ Crash
    \/ \E t \in Threads : Execute(t)
    \/ \E r \in Requests : RunNow(r)

Spec == Init /\ [][Next]_vars
\* Threads run, runs end (they have a deadline) and the backend is started again.
FairSpec ==
    /\ Spec /\ WF_vars(Fire) /\ WF_vars(Firing) /\ WF_vars(Start)
    /\ \A t \in Threads : WF_vars(Execute(t))

-----------------------------------------------------------------------------
\* The values of the rows, the job and the threads.
TypeOK ==
    /\ kind \in Kinds /\ enabled \in BOOLEAN
    /\ def \in Definitions /\ fp \in Definitions /\ since \in 0..Never
    /\ occ \in [Items -> {"none", "claimed", "running", "ended"}] /\ effects \in [Items -> Nat]
    /\ now \in 0..MaxTime /\ startAt \in 0..now
    /\ server \in {"down", "recovered", "loaded", "up"}
    /\ job \in Definitions \cup {NoJob} /\ jobSince \in 0..Never /\ due \in BOOLEAN
    /\ pc \in [Threads -> {"idle", "read", "ensure", "claim", "begin", "invoke", "work"}]
    /\ key \in [Workers -> Keys] /\ seen \in Definitions
    /\ inForce \in [1..MaxTime -> SUBSET Definitions] /\ boundary \in 0..MaxTime
    /\ dropped \subseteq 1..MaxTime /\ gap \subseteq 1..MaxTime /\ raced \in BOOLEAN
    /\ edits \in 0..MaxEdits /\ crashes \in 0..MaxCrashes

\* docs/runtime/scheduling.md: "times during the disabled period are not run", and an
\* edit is a new "active boundary": an intended time is claimed only if the service
\* was enabled with that very definition when it passed.
NoBackfill == \A d \in Definitions, t \in 1..MaxTime :
    occ[<<d, t>>] # "none" => inForce[t] = {d}

Phase(i) == CASE occ[i] = "none" -> "waiting"
              [] occ[i] \in {"claimed", "running"} -> "claimed"
              [] OTHER -> "settled"
Ledger == INSTANCE OnceEffect WITH Items <- Items,
    phase <- [i \in Items |-> Phase(i)], effects <- effects

\* "An occurrence is never invoked again after it has been claimed", whether a firing,
\* a catch-up, a restart or Run Now had it: the rows implement OnceEffect.
LedgerSpec == Ledger!Spec

\* The latest instant since the service was last enabled or edited.
IsDue(d, t) == enabled /\ def = d /\ IsLatest(t, d, boundary, now)
\* No firing is on its way: nothing will claim it before a later instant or a restart.
Quiet == Up /\ ~due /\ \A w \in Workers : pc[w] = "idle"

\* Each intended time of an enabled service gets its run, at the latest by the catch-up
\* of the next start, unless a later one has come or its last run was still going on.
\* Excepted are the instants of a start between startup_at and the registration of the
\* jobs, and what follows a firing that took an edited definition for the current one.
LatestIsClaimed ==
    Quiet => \A d \in Definitions, t \in 1..MaxTime :
        IsDue(d, t) => occ[<<d, t>>] # "none" \/ t \in dropped \cup gap \/ raced

\* What was claimed comes to an end, by its thread or by the next start.
ClaimedEnds ==
    \A i \in Items : occ[i] \in {"claimed", "running"} ~> occ[i] = "ended"

\* docs/runtime/scheduling.md: of a platform service a job "permits only one concurrent
\* instance", and Run Now refuses with "Service is already running".
OneInstance == kind = "platform" => Cardinality({t \in Threads : pc[t] = "work"}) <= 1
=============================================================================
