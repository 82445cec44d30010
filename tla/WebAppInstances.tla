-------------------------- MODULE WebAppInstances --------------------------
(***************************************************************************)
(* WebAppRuntimeService: the instances of one web application skill, their *)
(* containers and their sessions.  Requests open, stop, disable and        *)
(* activate under the skill's operation lock; the gateway and the idle     *)
(* maintenance thread work without it.  An action lasts from one call that *)
(* leaves the process (Docker, a health check, the application) or one     *)
(* commit to the next.                                                     *)
(***************************************************************************)
EXTENDS Naturals, FiniteSets

CONSTANTS
    Requests,      \* request threads
    Versions,      \* versions of the skill
    MaxInstances,  \* bound: instances ever started
    MaxRequests,   \* bound: requests in a behaviour
    MaxCrashes,    \* bound: process deaths
    MaxFaults      \* bound: failed removals, Docker commands without an end, and
                   \* errors that end the maintenance

ASSUME WebAppConstants ==
    /\ MaxInstances \in Nat /\ MaxRequests \in Nat /\ MaxCrashes \in Nat /\ MaxFaults \in Nat
    /\ Versions # {}
    /\ "idle" \notin Requests /\ "none" \notin Requests /\ "dead" \notin Requests

Threads == Requests \cup {"idle"}  \* and web_app_runtime_maintenance
Ids == 1..MaxInstances
Installed == CHOOSE v \in Versions : TRUE  \* the version installed first

VARIABLES
    serving,   \* startup has run recover_stale_instances
    enabled,   \* Skill.enabled
    active,    \* Skill.active_version_id
    lock,      \* holder of the SkillOperationLock; "dead" when that died or is lost
    status,    \* WebAppInstance.status; "none" before the row exists
    version,   \* WebAppInstance.version_id
    known,     \* the row has container_id and relay_container_id
    session,   \* the instance has an active WebAppSession
    container, \* the Docker container or local process of the instance
    code,      \* the version whose package it runs
    orphans,   \* containers given up: a removal failed, or the ids were never stored
    pc, op,    \* where each thread is ("lost": it does nothing more), and in which request
    mine,      \* the instance it works on; 0 is none
    todo,      \* the instances it has yet to stop
    package,   \* the version whose directory it read, or is to activate
    requests, crashes, faults

skillVars == <<enabled, active>>
rowVars == <<status, version, known, session>>
boxVars == <<container, code, orphans>>
workVars == <<op, mine, todo, package>>
boundVars == <<requests, crashes, faults>>
vars == <<serving, skillVars, lock, rowVars, boxVars, pc, workVars, boundVars>>

Init ==
    /\ serving = TRUE /\ enabled = TRUE /\ active = Installed /\ lock = "none"
    /\ status = [i \in Ids |-> "none"] /\ version = [i \in Ids |-> active]
    /\ known = [i \in Ids |-> FALSE] /\ session = [i \in Ids |-> FALSE]
    /\ container = [i \in Ids |-> "none"] /\ code = [i \in Ids |-> active] /\ orphans = {}
    /\ pc = [t \in Threads |-> "ready"] /\ op = [t \in Threads |-> "none"]
    /\ mine = [t \in Threads |-> 0] /\ todo = [t \in Threads |-> {}]
    /\ package = [t \in Threads |-> active]
    /\ requests = 0 /\ crashes = 0 /\ faults = 0

-----------------------------------------------------------------------------
Goto(t, l) == pc' = [pc EXCEPT ![t] = l]

ACTIVE_INSTANCE_STATUSES == {"starting", "ready", "healthy", "unhealthy"}
Active == {i \in Ids : status[i] \in ACTIVE_INSTANCE_STATUSES}
Healthy == {i \in Ids : status[i] = "healthy" /\ version[i] = active}
Latest(S) == {i \in S : \A j \in S : j <= i}

\* A check of an application that runs may fail all the same.
Responds(i) == IF container[i] = "up" THEN {TRUE, FALSE} ELSE {FALSE}

Request(t, o) ==
    /\ serving /\ t \in Requests /\ pc[t] = "ready" /\ requests < MaxRequests
    /\ requests' = requests + 1 /\ op' = [op EXCEPT ![t] = o]

\* The thread is through with its request.
Done(t) ==
    /\ Goto(t, "ready") /\ op' = [op EXCEPT ![t] = "none"] /\ mine' = [mine EXCEPT ![t] = 0]
    /\ package' = [package EXCEPT ![t] = Installed] /\ UNCHANGED todo

\* acquire: a lock is in the way for two hours after its holder died.
NotAcquired(t) == lock' = t  \* mutant of Acquire
Acquire(t) == lock \in {"none", "dead"} /\ lock' = t
Busy == lock # "none" /\ UNCHANGED lock

WithoutUnhealthy == {i \in Active : status[i] # "unhealthy"}  \* mutant of ToStop
ToStop == Active

\* stop_skill_instances and _active_instances load their list here.
StopAll(t) == todo' = [todo EXCEPT ![t] = ToStop] /\ Goto(t, "stop")

-----------------------------------------------------------------------------
(* open_session *)

OpenRead(t) ==
    /\ Request(t, "open") /\ enabled
    /\ package' = [package EXCEPT ![t] = active]
    /\ \/ \E i \in Latest(Healthy) : mine' = [mine EXCEPT ![t] = i] /\ Goto(t, "probe")
       \/ Healthy = {} /\ mine' = [mine EXCEPT ![t] = 0] /\ Goto(t, "acquire")
    /\ UNCHANGED <<serving, skillVars, lock, rowVars, boxVars, todo, crashes, faults>>

Probe(t) ==
    /\ pc[t] = "probe"
    /\ \E ok \in Responds(mine[t]) : Goto(t, IF ok THEN "session" ELSE "acquire")
    /\ UNCHANGED <<serving, skillVars, lock, rowVars, boxVars, workVars, boundVars>>

OpenLock(t) ==
    /\ pc[t] = "acquire"
    /\ \/ Acquire(t) /\ Goto(t, "recheck") /\ UNCHANGED workVars
       \/ Busy /\ Done(t)
    /\ UNCHANGED <<serving, skillVars, rowVars, boxVars, boundVars>>

\* The commit of the lock has expired the skill: its pointer is read again, its
\* package directory is not.
Recheck(t) ==
    /\ pc[t] = "recheck"
    /\ \/ /\ \E i \in Latest(Healthy) : mine' = [mine EXCEPT ![t] = i]
          /\ Goto(t, "reprobe") /\ UNCHANGED todo
       \/ Healthy = {} /\ StopAll(t) /\ UNCHANGED mine
    /\ UNCHANGED <<serving, skillVars, lock, rowVars, boxVars, op, package, boundVars>>

Reprobe(t) ==
    /\ pc[t] = "reprobe"
    /\ \E ok \in Responds(mine[t]) :
          \/ ok /\ Goto(t, "release") /\ UNCHANGED todo
          \/ ~ok /\ StopAll(t)
    /\ UNCHANGED <<serving, skillVars, lock, rowVars, boxVars, op, mine, package, boundVars>>

Unused == {i \in Ids : status[i] = "none"}
First(S) == {i \in S : \A j \in S : i <= j}

\* _start_instance: the row, the launch, its ids, the readiness check
InsertRow(t) ==
    /\ pc[t] = "stop" /\ todo[t] = {} /\ op[t] = "open"
    /\ \E i \in First(Unused) :
       /\ mine' = [mine EXCEPT ![t] = i]
       /\ status' = [status EXCEPT ![i] = "starting"]
       /\ version' = [version EXCEPT ![i] = active]
    /\ Goto(t, "launch")
    /\ UNCHANGED <<serving, skillVars, lock, known, session, boxVars, op, todo, package, boundVars>>

Launch(t) ==
    /\ pc[t] = "launch"
    /\ \/ /\ container' = [container EXCEPT ![mine[t]] = "up"]
          /\ code' = [code EXCEPT ![mine[t]] = package[t]]
          /\ Goto(t, "launched")
       \/ Goto(t, "failed") /\ UNCHANGED <<container, code>>
    /\ UNCHANGED <<serving, skillVars, lock, rowVars, orphans, workVars, boundVars>>

IdsLater(i) == UNCHANGED known  \* mutant of IdsStored
IdsStored(i) == known' = [known EXCEPT ![i] = TRUE]

StoreIds(t) ==
    /\ pc[t] = "launched" /\ Goto(t, "check")
    /\ IdsStored(mine[t])
    /\ status' = [status EXCEPT ![mine[t]] = "ready"]
    /\ UNCHANGED <<serving, skillVars, lock, version, session, boxVars, workVars, boundVars>>

\* launcher.stop: without stored ids there is nothing it could remove.
Removed(i) ==
    /\ container' = [container EXCEPT ![i] = IF known[i] THEN "gone" ELSE @]
    /\ UNCHANGED <<orphans, faults>>
RemovalFails(i) ==
    /\ known[i] /\ container[i] = "up" /\ faults < MaxFaults
    /\ orphans' = orphans \cup {i} /\ faults' = faults + 1
    /\ UNCHANGED container

Check(t) ==
    /\ pc[t] = "check"
    /\ \E ok \in Responds(mine[t]) :
          \/ /\ ok /\ status' = [status EXCEPT ![mine[t]] = "healthy"] /\ Goto(t, "release")
             /\ UNCHANGED <<container, orphans, faults>>
          \/ /\ ~ok /\ Goto(t, "failed") /\ UNCHANGED status
             /\ Removed(mine[t]) \/ RemovalFails(mine[t])
    /\ UNCHANGED <<serving, skillVars, lock, version, known, session, code, workVars, requests, crashes>>

StartFailed(t) ==
    /\ pc[t] = "failed" /\ Goto(t, "end")
    /\ status' = [status EXCEPT ![mine[t]] = "failed"]
    /\ UNCHANGED <<serving, skillVars, lock, version, known, session, boxVars, workVars, boundVars>>

\* release: deletes whatever lock the skill has.
Release(t) ==
    /\ pc[t] \in {"release", "end"} /\ lock' = "none"
    /\ \/ pc[t] = "release" /\ Goto(t, "session") /\ UNCHANGED workVars
       \/ pc[t] = "end" /\ Done(t)
    /\ UNCHANGED <<serving, skillVars, rowVars, boxVars, boundVars>>

\* The session is opened on whatever has become of the instance by now.
OpenSession(t) ==
    /\ pc[t] = "session" /\ Done(t)
    /\ session' = [session EXCEPT ![mine[t]] = TRUE]
    /\ UNCHANGED <<serving, skillVars, lock, status, version, known, boxVars, boundVars>>

-----------------------------------------------------------------------------
(* stop_instance, and the requests and threads that stop *)

\* The first instance is judged as its list was loaded, the next ones afresh.
StopCall(t) ==
    /\ pc[t] = "stop"
    /\ \E i \in todo[t] :
          /\ todo' = [todo EXCEPT ![t] = @ \ {i}] /\ mine' = [mine EXCEPT ![t] = i]
          /\ \/ i \in Active /\ Goto(t, "stopped") /\ (Removed(i) \/ RemovalFails(i))
             \/ i \notin Active /\ UNCHANGED <<pc, container, orphans, faults>>
    /\ UNCHANGED <<serving, skillVars, lock, rowVars, code, op, package, requests, crashes>>

StopCommit(t) ==
    /\ pc[t] = "stopped" /\ Goto(t, "stop")
    /\ \E s \in {"stopped", "failed"} : status' = [status EXCEPT ![mine[t]] = s]
    /\ session' = [session EXCEPT ![mine[t]] = FALSE]
    /\ UNCHANGED <<serving, skillVars, lock, version, known, boxVars, workVars, boundVars>>

\* The stop, disable and activate requests take the lock before anything else,
\* and change nothing while it is busy.
BeginLocked(t, o) ==
    /\ Request(t, o) /\ Acquire(t) /\ Goto(t, "list")
    /\ o = "disable" => enabled
    /\ \E v \in Versions :
          /\ IF o = "activate" THEN v # active ELSE v = Installed
          /\ package' = [package EXCEPT ![t] = v]
    /\ UNCHANGED <<serving, skillVars, rowVars, boxVars, mine, todo, crashes, faults>>

ListActive(t) ==
    /\ pc[t] = "list" /\ StopAll(t)
    /\ UNCHANGED <<serving, skillVars, lock, rowVars, boxVars, op, mine, package, boundVars>>

\* What follows the stops: an activation commits just before the release, a
\* disabling together with it.
Stopped(t) ==
    /\ pc[t] = "stop" /\ todo[t] = {} /\ op[t] \in {"stop", "activate"}
    /\ active' = IF op[t] = "activate" THEN package[t] ELSE active
    /\ Goto(t, "end")
    /\ UNCHANGED <<serving, enabled, lock, rowVars, boxVars, workVars, boundVars>>

Disabled(t) ==
    /\ pc[t] = "stop" /\ todo[t] = {} /\ op[t] = "disable"
    /\ enabled' = FALSE /\ lock' = "none" /\ Done(t)
    /\ UNCHANGED <<serving, active, rowVars, boxVars, boundVars>>

Enable ==
    /\ serving /\ ~enabled /\ enabled' = TRUE /\ requests < MaxRequests
    /\ requests' = requests + 1
    /\ UNCHANGED <<serving, active, lock, rowVars, boxVars, pc, workVars, crashes, faults>>

\* stop_idle_instances; a start is over before its instance counts as idle.
HealthyOnly == {i \in Ids : status[i] = "healthy"}  \* mutant of MaybeIdle
MaybeIdle == Active
Starting(i) == \E t \in Requests : mine[t] = i /\ pc[t] \in {"launch", "launched", "check", "failed"}

IdleList ==
    /\ serving /\ pc["idle"] = "ready"
    /\ \E S \in SUBSET {i \in MaybeIdle : ~Starting(i)} :
          S # {} /\ todo' = [todo EXCEPT !["idle"] = S]
    /\ Goto("idle", "stop")
    /\ UNCHANGED <<serving, skillVars, lock, rowVars, boxVars, op, mine, package, boundVars>>

IdleDone ==
    /\ pc["idle"] = "stop" /\ todo["idle"] = {} /\ Done("idle")
    /\ UNCHANGED <<serving, skillVars, lock, rowVars, boxVars, boundVars>>

-----------------------------------------------------------------------------
(* The gateway *)

\* resolve_gateway_session
Servable(i) == session[i] /\ status[i] = "healthy" /\ enabled /\ active = version[i]

Resolve(t) ==
    /\ Request(t, "gateway")
    /\ \E i \in Ids : Servable(i) /\ mine' = [mine EXCEPT ![t] = i]
    /\ Goto(t, "upstream")
    /\ UNCHANGED <<serving, skillVars, lock, rowVars, boxVars, todo, package, crashes, faults>>

\* mark_unhealthy decides on the status that was loaded before the request.
Answered(t) ==
    /\ pc[t] = "upstream" /\ Done(t)
    /\ \E ok \in Responds(mine[t]) :
          \/ ok /\ UNCHANGED <<status, session>>
          \/ /\ ~ok /\ status' = [status EXCEPT ![mine[t]] = "unhealthy"]
             /\ session' = [session EXCEPT ![mine[t]] = FALSE]
    /\ UNCHANGED <<serving, skillVars, lock, version, known, boxVars, boundVars>>

-----------------------------------------------------------------------------
(* The world *)

AppExits(i) ==
    /\ container[i] = "up" /\ container' = [container EXCEPT ![i] = "gone"]
    /\ UNCHANGED <<serving, skillVars, lock, rowVars, code, orphans, pc, workVars, boundVars>>

\* No Docker command has a timeout: one that does not return by the time others
\* take the instance for idle, or the lock for stale, is taken never to return.
\* It may have had its effect.
Lose(t) ==
    /\ Goto(t, "lost") /\ op' = [op EXCEPT ![t] = "none"] /\ mine' = [mine EXCEPT ![t] = 0]
    /\ package' = [package EXCEPT ![t] = Installed] /\ todo' = [todo EXCEPT ![t] = {}]
    /\ lock' = IF lock = t THEN "dead" ELSE lock
    /\ faults < MaxFaults /\ faults' = faults + 1
    /\ UNCHANGED <<serving, skillVars, requests, crashes>>

RunHangs(t) ==
    /\ pc[t] = "launch" /\ Lose(t)
    /\ \/ /\ container' = [container EXCEPT ![mine[t]] = "up"]
          /\ code' = [code EXCEPT ![mine[t]] = package[t]] /\ orphans' = orphans \cup {mine[t]}
       \/ UNCHANGED boxVars
    /\ UNCHANGED rowVars

RemovalHangs(t, i) ==
    /\ \/ pc[t] = "stop" /\ i \in todo[t] \cap Active
       \/ pc[t] = "check" /\ i = mine[t]
    /\ known[i] /\ Lose(t)
    /\ container' = [container EXCEPT ![i] = "gone"] \/ UNCHANGED container
    /\ UNCHANGED <<rowVars, code, orphans>>

\* web_app_runtime_maintenance catches nothing: a read or a commit of
\* stop_idle_instances that raises ends it, until the backend is started again.
MaintenanceEnds ==
    /\ serving /\ pc["idle"] \in {"ready", "stop", "stopped"} /\ Lose("idle")
    /\ UNCHANGED <<rowVars, boxVars>>

\* The process dies; containers stay, and those without stored ids are lost.
Crash ==
    /\ crashes < MaxCrashes /\ crashes' = crashes + 1 /\ serving' = FALSE
    /\ lock' = IF lock = "none" THEN "none" ELSE "dead"
    /\ pc' = [t \in Threads |-> "ready"] /\ todo' = [t \in Threads |-> {}]
    /\ op' = [t \in Threads |-> "none"] /\ mine' = [t \in Threads |-> 0]
    /\ package' = [t \in Threads |-> Installed]
    /\ orphans' = orphans \cup {i \in Ids : container[i] = "up" /\ ~known[i]}
    /\ UNCHANGED <<skillVars, rowVars, container, code, requests, faults>>

\* recover_stale_instances, before the first request is served
Recover ==
    /\ ~serving /\ serving' = TRUE
    /\ status' = [i \in Ids |-> IF i \in Active THEN "stopped" ELSE status[i]]
    /\ session' = [i \in Ids |-> session[i] /\ i \notin Active]
    /\ container' = [i \in Ids |-> IF i \in Active /\ known[i] THEN "gone" ELSE container[i]]
    /\ UNCHANGED <<skillVars, lock, version, known, code, orphans, pc, workVars, boundVars>>

Work(t) ==
    \/ Probe(t) \/ OpenLock(t) \/ Recheck(t) \/ Reprobe(t) \/ InsertRow(t) \/ Launch(t)
    \/ StoreIds(t) \/ Check(t) \/ StartFailed(t) \/ Release(t) \/ OpenSession(t)
    \/ StopCall(t) \/ StopCommit(t) \/ ListActive(t) \/ Stopped(t) \/ Disabled(t) \/ Answered(t)

Arrive(t) ==
    \/ OpenRead(t) \/ Resolve(t)
    \/ \E o \in {"stop", "disable", "activate"} : BeginLocked(t, o)

Next ==
    \/ \E t \in Threads : Work(t)
    \/ \E t \in Requests : Arrive(t)
    \/ IdleList \/ IdleDone \/ Enable \/ Crash \/ Recover \/ MaintenanceEnds
    \/ \E i \in Ids : AppExits(i)
    \/ \E t \in Threads : RunHangs(t) \/ \E i \in Ids : RemovalHangs(t, i)

Spec == Init /\ [][Next]_vars

\* A thread that is not lost goes on: health checks and gateway requests have a
\* timeout, and Docker commands return or lose their thread (RunHangs,
\* RemovalHangs).  Each round of the maintenance, while it lives (MaintenanceEnds),
\* lists every instance that nobody has used for the idle timeout; strong fairness,
\* since a round that stops others is between two lists.  A dead backend is started
\* again.
IdleListed(i) == IdleList /\ i \in todo'["idle"]
FairSpec ==
    /\ Spec /\ WF_vars(Recover) /\ WF_vars(IdleDone)
    /\ \A t \in Threads : WF_vars(Work(t))
    /\ \A i \in Ids : SF_vars(IdleListed(i))
-----------------------------------------------------------------------------
WithInstance == {"probe", "reprobe", "launch", "launched", "check", "failed", "release", "session",
                 "stopped", "upstream"}

\* Type correctness of rows, containers and threads.
TypeOK ==
    /\ serving \in BOOLEAN /\ enabled \in BOOLEAN /\ active \in Versions
    /\ lock \in Threads \cup {"none", "dead"}
    /\ status \in [Ids -> ACTIVE_INSTANCE_STATUSES \cup {"none", "stopped", "failed"}]
    /\ version \in [Ids -> Versions] /\ code \in [Ids -> Versions]
    /\ known \in [Ids -> BOOLEAN] /\ session \in [Ids -> BOOLEAN]
    /\ container \in [Ids -> {"none", "up", "gone"}] /\ orphans \subseteq Ids
    /\ pc \in [Threads -> {"ready", "probe", "acquire", "recheck", "reprobe", "stop", "launch",
                           "launched", "check", "failed", "release", "end", "session", "stopped",
                           "list", "upstream", "lost"}]
    /\ op \in [Threads -> {"none", "open", "stop", "disable", "activate", "gateway"}]
    /\ mine \in [Threads -> 0..MaxInstances]
    /\ \A t \in Threads : pc[t] \in WithInstance => mine[t] \in Ids
    /\ todo \in [Threads -> SUBSET Ids]
    /\ package \in [Threads -> Versions]
    /\ requests \in 0..MaxRequests /\ crashes \in 0..MaxCrashes /\ faults \in 0..MaxFaults

Running == {i \in Ids : container[i] = "up"} \ orphans

\* A skill has one application running at most, though the gateway, the idle
\* thread and the opens that reuse an instance do without the lock
\* (_start_instance after the stops of open_session).
OneRuns == Cardinality(Running) <= 1

\* A container that runs is one the backend still means to stop: its row is
\* active, through every stop, death and recovery (stop_instance,
\* recover_stale_instances).
NothingLeaks == Running \subseteq Active

\* Nothing of the skill runs when its active version changes or it is disabled
\* (web_applications.md: stop, then switch the pointer or persist enabled).
QuietSwitch ==
    [][(active' # active \/ (enabled /\ ~enabled')) => Running = {}]_vars

\* An instance nobody uses any more comes to an end, also one whose start was cut
\* off by a death or a Docker command that never returned, or that a late gateway
\* request marked unhealthy again; unless the maintenance itself is lost, and then
\* from the next start of the backend on (stop_idle_instances).
IdleEnds == \A i \in Ids : i \in Active ~> i \notin Active \/ pc["idle"] = "lost"

\* web_applications.md: "Idle timeout | Stop the instance and close active
\* sessions", whatever one round of the maintenance met before
\* (web_app_runtime_maintenance).
IdleTimeoutStops == \A i \in Ids : i \in Active ~> i \notin Active

\* web_applications.md, Activate: a later open starts the new version.  What the
\* gateway serves runs the package of the active version.
ServedIsActive == \A i \in Ids : Servable(i) => code[i] = active
=============================================================================
