----------------------- MODULE WebAppInstances_proofs -----------------------
(***************************************************************************)
(* Safety of the web application instances for any number of requests,     *)
(* versions and instances, and for any number of process deaths and of     *)
(* removals that fail; and of the operation lock of a skill, for any       *)
(* number of threads.  The names of the two components are kept apart for  *)
(* this module to extend both; no proof about one uses the other.          *)
(***************************************************************************)
EXTENDS WebAppInstances, SkillLocks, FiniteSetTheorems, TLAPS

Starts == {"launch", "launched", "check", "failed"}
Stops == {"stop", "stopped"}
Locked == Starts \cup Stops \cup {"recheck", "reprobe", "release", "end", "list"}

\* The lock excludes: a request in its locked part is the lock's holder.  The
\* maintenance thread only ever stops, and a dead process does nothing.
LockInv ==
    /\ \A t \in Requests : pc[t] \in Locked => lock = t
    /\ pc["idle"] \in Stops \cup {"ready", "lost"} /\ op["idle"] = "none"
    /\ ~serving => \A t \in Threads : pc[t] = "ready"

\* What the maintenance thread has in hand is neither a start nor a row yet to
\* be inserted.
HandInv ==
    /\ \A i \in todo["idle"] : status[i] # "none"
    /\ pc["idle"] = "stopped" => mine["idle"] \in Ids /\ status[mine["idle"]] # "none"
    /\ \A t \in Requests : pc[t] \in Starts =>
          /\ mine[t] \in Active /\ mine[t] \notin todo["idle"]
          /\ pc["idle"] = "stopped" => mine["idle"] # mine[t]

\* What runs has an active row and, once it was launched, its ids; a start has
\* nothing beside it, and the stops leave only what they still have to do.
RunInv ==
    /\ \A i \in Running : i \in Active
    /\ \A i, j \in Running : i = j
    /\ \A i \in Running : known[i] \/ \E t \in Requests : pc[t] = "launched" /\ mine[t] = i
    /\ \A t \in Requests : pc[t] = "launch" => Running = {}
    /\ \A t \in Requests : pc[t] \in Stops => Running \subseteq todo[t]
    /\ \A t \in Requests : pc[t] = "failed" => mine[t] \notin Running
    /\ \A t \in Threads : pc[t] = "stopped" => mine[t] \notin Running

LEMMA InstalledVersion == Installed \in Versions
  BY WebAppConstants, Zenon DEF Installed

LEMMA TypeInit == Init => TypeOK
<1> SUFFICES ASSUME Init PROVE TypeOK
  OBVIOUS
<1>1. serving \in BOOLEAN /\ enabled \in BOOLEAN
  BY Zenon DEF Init
<1>2. known \in [Ids -> BOOLEAN] /\ session \in [Ids -> BOOLEAN]
  BY DEF Init
<1>3. active \in Versions
  BY InstalledVersion DEF Init
<1>4. requests = 0 /\ crashes = 0 /\ faults = 0 /\ lock = "none" /\ orphans = {}
  BY DEF Init
<1>5. /\ status = [i \in Ids |-> "none"] /\ version = [i \in Ids |-> active]
      /\ container = [i \in Ids |-> "none"] /\ code = [i \in Ids |-> active]
      /\ pc = [t \in Threads |-> "ready"] /\ op = [t \in Threads |-> "none"]
      /\ mine = [t \in Threads |-> 0] /\ todo = [t \in Threads |-> {}]
      /\ package = [t \in Threads |-> active]
  BY DEF Init
<1> QED
  BY <1>1, <1>2, <1>3, <1>4, <1>5, WebAppConstants DEF TypeOK, WithInstance

LEMMA TypeStep == TypeOK /\ [Next]_vars => TypeOK'
<1> SUFFICES ASSUME TypeOK, [Next]_vars PROVE TypeOK'
  OBVIOUS
<1> USE WebAppConstants, InstalledVersion
    DEF TypeOK, WithInstance, Threads, ACTIVE_INSTANCE_STATUSES, Goto, Done,
      skillVars, rowVars, boxVars,
        workVars, boundVars
<1> \A i \in Ids : i \in 0..MaxInstances
  BY DEF Ids
<1>1. ASSUME NEW t \in Requests, OpenRead(t) PROVE TypeOK'
  BY <1>1 DEF OpenRead, Request, Latest, Healthy
<1>2. ASSUME NEW t \in Requests, Resolve(t) PROVE TypeOK'
  BY <1>2 DEF Resolve, Request, Servable
<1>3. ASSUME NEW t \in Requests, NEW o \in {"stop", "disable", "activate"}, BeginLocked(t, o)
      PROVE  TypeOK'
  BY <1>3 DEF BeginLocked, Request, Acquire
<1>4. ASSUME IdleList PROVE TypeOK'
  BY <1>4 DEF IdleList, MaybeIdle, Active
<1>5. ASSUME IdleDone PROVE TypeOK'
  BY <1>5 DEF IdleDone
<1>6. ASSUME Enable PROVE TypeOK'
  BY <1>6 DEF Enable
<1>7. ASSUME Crash PROVE TypeOK'
  <2>1. serving' \in BOOLEAN
    BY <1>7, Zenon DEF Crash
  <2>2. UNCHANGED <<enabled, active, status, version, known, session, container, code, requests, faults>>
    BY <1>7 DEF Crash
  <2>3. /\ lock' \in Threads \cup {"none", "dead"} /\ orphans' \subseteq Ids
        /\ crashes' \in 0..MaxCrashes
        /\ pc' = [t \in Threads |-> "ready"] /\ todo' = [t \in Threads |-> {}]
        /\ op' = [t \in Threads |-> "none"] /\ mine' = [t \in Threads |-> 0]
        /\ package' = [t \in Threads |-> Installed]
    BY <1>7 DEF Crash
  <2> QED
    BY <2>1, <2>2, <2>3
<1>8. ASSUME Recover PROVE TypeOK'
  BY <1>8 DEF Recover, Active
<1>9. ASSUME NEW i \in Ids, AppExits(i) PROVE TypeOK'
  BY <1>9 DEF AppExits
<1>10. ASSUME NEW t \in Threads, Work(t) PROVE TypeOK'
  <2>1. CASE Probe(t)
    BY <2>1 DEF Probe, Responds
  <2>2. CASE OpenLock(t)
    BY <2>2 DEF OpenLock, Acquire, Busy
  <2>3. CASE Recheck(t)
    BY <2>3 DEF Recheck, StopAll, ToStop, Active, Latest, Healthy
  <2>4. CASE Reprobe(t)
    BY <2>4 DEF Reprobe, Responds, StopAll, ToStop, Active
  <2>5. CASE InsertRow(t)
    BY <2>5 DEF InsertRow, First, Unused
  <2>6. CASE Launch(t)
    BY <2>6 DEF Launch
  <2>7. CASE StoreIds(t)
    BY <2>7 DEF StoreIds, IdsStored
  <2>8. CASE Check(t)
    <3>0. mine[t] \in Ids
      BY <2>8 DEF Check
    <3>1. /\ status' = status \/ status' = [status EXCEPT ![mine[t]] = "healthy"]
          /\ pc' \in {[pc EXCEPT ![t] = "release"], [pc EXCEPT ![t] = "failed"]}
          /\ UNCHANGED <<serving, enabled, active, lock, version, known, session, code, op, mine, todo,
                         package, requests, crashes>>
      BY <2>8 DEF Check
    <3>2. (Removed(mine[t]) \/ RemovalFails(mine[t])) \/ UNCHANGED <<container, orphans, faults>>
      BY <2>8 DEF Check
    <3>3. container' \in [Ids -> {"none", "up", "gone"}]
      BY <3>2 DEF Removed, RemovalFails
    <3>4. orphans' \subseteq Ids /\ faults' \in 0..MaxFaults
      BY <3>2, <3>0 DEF Removed, RemovalFails
    <3> QED
      BY <3>1, <3>3, <3>4, <3>0
  <2>9. CASE StartFailed(t)
    BY <2>9 DEF StartFailed
  <2>10. CASE Release(t)
    BY <2>10 DEF Release
  <2>11. CASE OpenSession(t)
    <3>1. session' \in [Ids -> BOOLEAN]
      <4>1. session' = [session EXCEPT ![mine[t]] = TRUE]
        BY <2>11 DEF OpenSession
      <4> QED
        BY <4>1, Zenon
    <3> QED
      BY <2>11, <3>1 DEF OpenSession
  <2>12. CASE StopCall(t)
    BY <2>12 DEF StopCall, Removed, RemovalFails
  <2>13. CASE StopCommit(t)
    <3>1. session' \in [Ids -> BOOLEAN]
      <4>1. session' = [session EXCEPT ![mine[t]] = FALSE]
        BY <2>13 DEF StopCommit
      <4> QED
        BY <4>1, Zenon
    <3> QED
      BY <2>13, <3>1 DEF StopCommit
  <2>14. CASE ListActive(t)
    BY <2>14 DEF ListActive, StopAll, ToStop, Active
  <2>15. CASE Stopped(t)
    BY <2>15 DEF Stopped
  <2>16. CASE Disabled(t)
    <3>1. enabled' \in BOOLEAN
      BY <2>16, Zenon DEF Disabled
    <3> QED
      BY <2>16, <3>1 DEF Disabled
  <2>17. CASE Answered(t)
    <3>1. session' \in [Ids -> BOOLEAN]
      <4>1. session' = [session EXCEPT ![mine[t]] = FALSE] \/ session' = session
        BY <2>17 DEF Answered
      <4> QED
        BY <4>1, Zenon
    <3> QED
      BY <2>17, <3>1 DEF Answered
  <2> QED
    BY <1>10, <2>1, <2>2, <2>3, <2>4, <2>5, <2>6, <2>7, <2>8, <2>9, <2>10, <2>11,
      <2>12, <2>13, <2>14, <2>15, <2>16, <2>17 DEF Work
<1>12. ASSUME NEW t \in Threads, RunHangs(t) PROVE TypeOK'
  BY <1>12 DEF RunHangs, Lose
<1>13. ASSUME NEW t \in Threads, NEW i \in Ids, RemovalHangs(t, i) PROVE TypeOK'
  BY <1>13 DEF RemovalHangs, Lose
<1>14. ASSUME MaintenanceEnds PROVE TypeOK'
  BY <1>14 DEF MaintenanceEnds, Lose
<1>11. CASE UNCHANGED vars
  BY <1>11 DEF vars
<1> QED
  BY <1>1, <1>2, <1>3, <1>4, <1>5, <1>6, <1>7, <1>8, <1>9, <1>10, <1>11, <1>12,
    <1>13, <1>14 DEF Next, Arrive
LEMMA LockStep == TypeOK /\ LockInv /\ [Next]_vars => LockInv'
<1> SUFFICES ASSUME TypeOK, LockInv, [Next]_vars PROVE LockInv'
  OBVIOUS
<1> USE WebAppConstants
    DEF LockInv, TypeOK, Threads, Locked, Stops, Starts, Goto, Done, skillVars,
      rowVars, boxVars,
        workVars, boundVars
<1>1. ASSUME NEW t \in Requests, OpenRead(t) PROVE LockInv'
  BY <1>1 DEF OpenRead, Request, Latest, Healthy
<1>2. ASSUME NEW t \in Requests, Resolve(t) PROVE LockInv'
  BY <1>2 DEF Resolve, Request, Servable
<1>3. ASSUME NEW t \in Requests, NEW o \in {"stop", "disable", "activate"}, BeginLocked(t, o)
      PROVE  LockInv'
  BY <1>3 DEF BeginLocked, Request, Acquire
<1>4. ASSUME IdleList PROVE LockInv'
  BY <1>4 DEF IdleList, MaybeIdle, Starting
<1>5. ASSUME IdleDone PROVE LockInv'
  BY <1>5 DEF IdleDone
<1>6. ASSUME Enable PROVE LockInv'
  BY <1>6 DEF Enable
<1>7. ASSUME Crash PROVE LockInv'
  BY <1>7 DEF Crash
<1>8. ASSUME Recover PROVE LockInv'
  BY <1>8 DEF Recover
<1>9. ASSUME NEW i \in Ids, AppExits(i) PROVE LockInv'
  BY <1>9 DEF AppExits
<1>10. ASSUME NEW t \in Threads, Work(t) PROVE LockInv'
  <2>1. CASE Probe(t)
    BY <2>1 DEF Probe, Responds
  <2>2. CASE OpenLock(t)
    BY <2>2 DEF OpenLock, Acquire, Busy
  <2>3. CASE Recheck(t)
    BY <2>3 DEF Recheck, StopAll, ToStop, Latest, Healthy
  <2>4. CASE Reprobe(t)
    BY <2>4 DEF Reprobe, Responds, StopAll, ToStop
  <2>5. CASE InsertRow(t)
    BY <2>5 DEF InsertRow, First, Unused
  <2>6. CASE Launch(t)
    BY <2>6 DEF Launch
  <2>7. CASE StoreIds(t)
    BY <2>7 DEF StoreIds, IdsStored
  <2>8. CASE Check(t)
    BY <2>8 DEF Check, Responds, Removed, RemovalFails
  <2>9. CASE StartFailed(t)
    BY <2>9 DEF StartFailed
  <2>10. CASE Release(t)
    BY <2>10 DEF Release
  <2>11. CASE OpenSession(t)
    BY <2>11 DEF OpenSession
  <2>12. CASE StopCall(t)
    BY <2>12 DEF StopCall, Removed, RemovalFails
  <2>13. CASE StopCommit(t)
    BY <2>13 DEF StopCommit
  <2>14. CASE ListActive(t)
    BY <2>14 DEF ListActive, StopAll, ToStop
  <2>15. CASE Stopped(t)
    BY <2>15 DEF Stopped
  <2>16. CASE Disabled(t)
    BY <2>16 DEF Disabled
  <2>17. CASE Answered(t)
    BY <2>17 DEF Answered, Responds
  <2> QED
    BY <1>10, <2>1, <2>2, <2>3, <2>4, <2>5, <2>6, <2>7, <2>8, <2>9, <2>10, <2>11,
      <2>12, <2>13, <2>14, <2>15, <2>16, <2>17 DEF Work
<1>12. ASSUME NEW t \in Threads, RunHangs(t) PROVE LockInv'
  BY <1>12 DEF RunHangs, Lose
<1>13. ASSUME NEW t \in Threads, NEW i \in Ids, RemovalHangs(t, i) PROVE LockInv'
  BY <1>13 DEF RemovalHangs, Lose
<1>14. ASSUME MaintenanceEnds PROVE LockInv'
  BY <1>14 DEF MaintenanceEnds, Lose
<1>11. CASE UNCHANGED vars
  BY <1>11 DEF vars
<1> QED
  BY <1>1, <1>2, <1>3, <1>4, <1>5, <1>6, <1>7, <1>8, <1>9, <1>10, <1>11, <1>12,
    <1>13, <1>14 DEF Next, Arrive

LEMMA HandStep == TypeOK /\ LockInv /\ HandInv /\ [Next]_vars => HandInv'
<1> SUFFICES ASSUME TypeOK, LockInv, HandInv, [Next]_vars PROVE HandInv'
  OBVIOUS
<1> USE WebAppConstants
    DEF HandInv, LockInv, TypeOK, Active, ACTIVE_INSTANCE_STATUSES, WithInstance, 
        Threads, Locked, Stops, Starts, Goto, Done, skillVars, rowVars,
        boxVars, workVars, boundVars
<1>1. ASSUME NEW t \in Requests, OpenRead(t) PROVE HandInv'
  BY <1>1 DEF OpenRead, Request, Latest, Healthy
<1>2. ASSUME NEW t \in Requests, Resolve(t) PROVE HandInv'
  BY <1>2 DEF Resolve, Request, Servable
<1>3. ASSUME NEW t \in Requests, NEW o \in {"stop", "disable", "activate"}, BeginLocked(t, o)
      PROVE  HandInv'
  BY <1>3 DEF BeginLocked, Request, Acquire
<1>4. ASSUME IdleList PROVE HandInv'
  BY <1>4 DEF IdleList, MaybeIdle, Starting
<1>5. ASSUME IdleDone PROVE HandInv'
  BY <1>5 DEF IdleDone
<1>6. ASSUME Enable PROVE HandInv'
  BY <1>6 DEF Enable
<1>7. ASSUME Crash PROVE HandInv'
  BY <1>7 DEF Crash
<1>8. ASSUME Recover PROVE HandInv'
  BY <1>8 DEF Recover
<1>9. ASSUME NEW i \in Ids, AppExits(i) PROVE HandInv'
  BY <1>9 DEF AppExits
<1>10. ASSUME NEW t \in Threads, Work(t) PROVE HandInv'
  <2>1. CASE Probe(t)
    BY <2>1 DEF Probe, Responds
  <2>2. CASE OpenLock(t)
    BY <2>2 DEF OpenLock, Acquire, Busy
  <2>3. CASE Recheck(t)
    BY <2>3 DEF Recheck, StopAll, ToStop, Latest, Healthy
  <2>4. CASE Reprobe(t)
    BY <2>4 DEF Reprobe, Responds, StopAll, ToStop
  <2>5. CASE InsertRow(t)
    BY <2>5 DEF InsertRow, First, Unused
  <2>6. CASE Launch(t)
    BY <2>6 DEF Launch
  <2>7. CASE StoreIds(t)
    BY <2>7 DEF StoreIds, IdsStored
  <2>8. CASE Check(t)
    BY <2>8 DEF Check, Responds, Removed, RemovalFails
  <2>9. CASE StartFailed(t)
    BY <2>9 DEF StartFailed
  <2>10. CASE Release(t)
    BY <2>10 DEF Release
  <2>11. CASE OpenSession(t)
    BY <2>11 DEF OpenSession
  <2>12. CASE StopCall(t)
    BY <2>12 DEF StopCall, Removed, RemovalFails
  <2>13. CASE StopCommit(t)
    BY <2>13 DEF StopCommit
  <2>14. CASE ListActive(t)
    BY <2>14 DEF ListActive, StopAll, ToStop
  <2>15. CASE Stopped(t)
    BY <2>15 DEF Stopped
  <2>16. CASE Disabled(t)
    BY <2>16 DEF Disabled
  <2>17. CASE Answered(t)
    BY <2>17 DEF Answered, Responds
  <2> QED
    BY <1>10, <2>1, <2>2, <2>3, <2>4, <2>5, <2>6, <2>7, <2>8, <2>9, <2>10, <2>11,
      <2>12, <2>13, <2>14, <2>15, <2>16, <2>17 DEF Work
<1>12. ASSUME NEW t \in Threads, RunHangs(t) PROVE HandInv'
  BY <1>12 DEF RunHangs, Lose
<1>13. ASSUME NEW t \in Threads, NEW i \in Ids, RemovalHangs(t, i) PROVE HandInv'
  BY <1>13 DEF RemovalHangs, Lose
<1>14. ASSUME MaintenanceEnds PROVE HandInv'
  BY <1>14 DEF MaintenanceEnds, Lose
<1>11. CASE UNCHANGED vars
  BY <1>11 DEF vars
<1> QED
  BY <1>1, <1>2, <1>3, <1>4, <1>5, <1>6, <1>7, <1>8, <1>9, <1>10, <1>11, <1>12,
    <1>13, <1>14 DEF Next, Arrive

LEMMA RunStep == TypeOK /\ LockInv /\ HandInv /\ RunInv /\ [Next]_vars => RunInv'
<1> SUFFICES ASSUME TypeOK, LockInv, HandInv, RunInv, [Next]_vars PROVE RunInv'
  OBVIOUS
<1> USE WebAppConstants
    DEF RunInv, Running, HandInv, LockInv, TypeOK, Active, ACTIVE_INSTANCE_STATUSES,
        WithInstance, Threads, Locked, Stops, Starts, Goto, Done, skillVars,
        rowVars, boxVars,
        workVars, boundVars
<1>1. ASSUME NEW t \in Requests, OpenRead(t) PROVE RunInv'
  BY <1>1 DEF OpenRead, Request, Latest, Healthy
<1>2. ASSUME NEW t \in Requests, Resolve(t) PROVE RunInv'
  BY <1>2 DEF Resolve, Request, Servable
<1>3. ASSUME NEW t \in Requests, NEW o \in {"stop", "disable", "activate"}, BeginLocked(t, o)
      PROVE  RunInv'
  BY <1>3 DEF BeginLocked, Request, Acquire
<1>4. ASSUME IdleList PROVE RunInv'
  BY <1>4 DEF IdleList, MaybeIdle, Starting
<1>5. ASSUME IdleDone PROVE RunInv'
  BY <1>5 DEF IdleDone
<1>6. ASSUME Enable PROVE RunInv'
  BY <1>6 DEF Enable
<1>7. ASSUME Crash PROVE RunInv'
  BY <1>7 DEF Crash
<1>8. ASSUME Recover PROVE RunInv'
  BY <1>8 DEF Recover
<1>9. ASSUME NEW i \in Ids, AppExits(i) PROVE RunInv'
  BY <1>9 DEF AppExits
<1>10. ASSUME NEW t \in Threads, Work(t) PROVE RunInv'
  <2>1. CASE Probe(t)
    BY <2>1 DEF Probe, Responds
  <2>2. CASE OpenLock(t)
    BY <2>2 DEF OpenLock, Acquire, Busy
  <2>3. CASE Recheck(t)
    BY <2>3 DEF Recheck, StopAll, ToStop, Latest, Healthy
  <2>4. CASE Reprobe(t)
    BY <2>4 DEF Reprobe, Responds, StopAll, ToStop
  <2>5. CASE InsertRow(t)
    BY <2>5 DEF InsertRow, First, Unused
  <2>6. CASE Launch(t)
    BY <2>6 DEF Launch
  <2>7. CASE StoreIds(t)
    BY <2>7 DEF StoreIds, IdsStored
  <2>8. CASE Check(t)
    BY <2>8 DEF Check, Responds, Removed, RemovalFails
  <2>9. CASE StartFailed(t)
    BY <2>9 DEF StartFailed
  <2>10. CASE Release(t)
    BY <2>10 DEF Release
  <2>11. CASE OpenSession(t)
    BY <2>11 DEF OpenSession
  <2>12. CASE StopCall(t)
    BY <2>12 DEF StopCall, Removed, RemovalFails
  <2>13. CASE StopCommit(t)
    BY <2>13 DEF StopCommit
  <2>14. CASE ListActive(t)
    BY <2>14 DEF ListActive, StopAll, ToStop
  <2>15. CASE Stopped(t)
    BY <2>15 DEF Stopped
  <2>16. CASE Disabled(t)
    BY <2>16 DEF Disabled
  <2>17. CASE Answered(t)
    BY <2>17 DEF Answered, Responds
  <2> QED
    BY <1>10, <2>1, <2>2, <2>3, <2>4, <2>5, <2>6, <2>7, <2>8, <2>9, <2>10, <2>11,
      <2>12, <2>13, <2>14, <2>15, <2>16, <2>17 DEF Work
<1>12. ASSUME NEW t \in Threads, RunHangs(t) PROVE RunInv'
  BY <1>12 DEF RunHangs, Lose
<1>13. ASSUME NEW t \in Threads, NEW i \in Ids, RemovalHangs(t, i) PROVE RunInv'
  BY <1>13 DEF RemovalHangs, Lose
<1>14. ASSUME MaintenanceEnds PROVE RunInv'
  BY <1>14 DEF MaintenanceEnds, Lose
<1>11. CASE UNCHANGED vars
  BY <1>11 DEF vars
<1> QED
  BY <1>1, <1>2, <1>3, <1>4, <1>5, <1>6, <1>7, <1>8, <1>9, <1>10, <1>11, <1>12,
    <1>13, <1>14 DEF Next, Arrive

\* Every conjunct of the inductive invariant, in every state.
LEMMA Invariants == Spec => [](TypeOK /\ LockInv /\ HandInv /\ RunInv)
<1>1. Init => TypeOK /\ LockInv /\ HandInv /\ RunInv
  <2> SUFFICES ASSUME Init PROVE TypeOK /\ LockInv /\ HandInv /\ RunInv
    OBVIOUS
  <2>1. TypeOK
    BY TypeInit
  <2>2. serving = TRUE
    BY Zenon DEF Init
  <2>3. LockInv
    BY <2>2, WebAppConstants DEF Init, LockInv, Threads, Locked, Stops, Starts
  <2>4. Running = {}
    BY DEF Init, Running
  <2>5. HandInv /\ RunInv
    BY <2>4, WebAppConstants DEF Init, HandInv, RunInv, Threads, Starts, Stops
  <2> QED
    BY <2>1, <2>3, <2>5
<1>2. TypeOK /\ LockInv /\ HandInv /\ RunInv /\ [Next]_vars
        => (TypeOK /\ LockInv /\ HandInv /\ RunInv)'
  BY TypeStep, LockStep, HandStep, RunStep
<1> QED
  BY <1>1, <1>2, PTL DEF Spec

THEOREM TypeCorrect == Spec => []TypeOK
  BY Invariants, PTL

\* One application of a skill at most, whatever the requests, the gateway, the
\* maintenance thread and the deaths of the process do.
THEOREM AtMostOneRuns == Spec => []OneRuns
<1>1. TypeOK /\ RunInv => OneRuns
  <2> SUFFICES ASSUME RunInv PROVE Cardinality(Running) <= 1
    BY DEF OneRuns
  <2>1. CASE Running = {}
    BY <2>1, FS_EmptySet
  <2>2. CASE Running # {}
    <3>1. PICK i \in Running : Running = {i}
      BY <2>2 DEF RunInv
    <3>2. Cardinality({i}) = 1
      BY FS_Singleton
    <3> QED
      BY <3>1, <3>2
  <2> QED
    BY <2>1, <2>2
<1> QED
  BY <1>1, Invariants, PTL

\* No stop, failed start, death or recovery leaves an application running on a
\* row that the backend no longer means to stop.
THEOREM NoLeak == Spec => []NothingLeaks
<1>1. RunInv => NothingLeaks
  BY DEF RunInv, NothingLeaks
<1> QED
  BY <1>1, Invariants, PTL

\* The version changes, and the skill is disabled, with nothing running.
THEOREM SwitchIsQuiet == Spec => QuietSwitch
<1>1. ASSUME TypeOK, LockInv, RunInv, [Next]_vars
      PROVE (active' # active \/ (enabled /\ ~enabled')) => Running = {}
  <2> USE <1>1 DEF skillVars, rowVars, boxVars, workVars, boundVars
  <2>1. ASSUME NEW t \in Threads, Stopped(t) \/ Disabled(t) PROVE Running = {}
    <3>1. pc[t] = "stop" /\ todo[t] = {} /\ op[t] # "none"
      BY <2>1 DEF Stopped, Disabled
    <3>2. t \in Requests
      BY <3>1 DEF LockInv, Threads
    <3> QED
      BY <3>1, <3>2 DEF RunInv, Stops
  <2>2. ASSUME NEW t \in Threads, Work(t), ~(Stopped(t) \/ Disabled(t))
        PROVE UNCHANGED skillVars
    BY <2>2, Zenon
    DEF Work, Probe, OpenLock, Recheck, Reprobe, InsertRow, Launch, StoreIds,
      Check, StartFailed,
        Release, OpenSession, StopCall, StopCommit, ListActive, Answered
  <2>3. ASSUME NEW t \in Requests, Arrive(t) PROVE UNCHANGED skillVars
    BY <2>3, Zenon DEF Arrive, OpenRead, Resolve, BeginLocked
  <2>4. ASSUME IdleList \/ IdleDone \/ Crash \/ Recover \/ MaintenanceEnds
                 \/ \E i \in Ids : AppExits(i)
        PROVE UNCHANGED skillVars
    BY <2>4, Zenon DEF IdleList, IdleDone, Crash, Recover, MaintenanceEnds, Lose, AppExits
  <2>8. ASSUME NEW t \in Threads,
               RunHangs(t) \/ \E i \in Ids : RemovalHangs(t, i)
        PROVE UNCHANGED skillVars
    BY <2>8, Zenon DEF RunHangs, RemovalHangs, Lose
  <2>5. ASSUME Enable PROVE enabled' /\ active' = active
    BY <2>5, Zenon DEF Enable
  <2>6. CASE UNCHANGED vars
    BY <2>6, Zenon DEF vars
  <2>7. UNCHANGED skillVars => active' = active /\ enabled' = enabled
    BY Zenon
  <2> QED
    BY <2>1, <2>2, <2>3, <2>4, <2>5, <2>6, <2>7, <2>8, Zenon DEF Next, vars
<1> QED
  BY <1>1, Invariants, PTL DEF Spec, QuietSwitch

-----------------------------------------------------------------------------
(* The operation lock of a skill itself (SkillLocks), for any number of      *)
(* threads, long operations or not, and any number of agings, deaths and     *)
(* failed commits.                                                           *)

Held == {"held", "running", "release"}

\* While the backend is down nothing runs.
DownInv == ~up => \A t \in Operators : place[t] = "idle"

\* Before the first lock turns stale nobody clears one, and the holder is alone.
FreshInv == agings = 0 =>
    /\ ~stale
    /\ \A t \in Operators : place[t] \notin {"stale", "delete"}
    /\ \A t \in Operators : place[t] \in Held => row # "free"
    /\ \A t, u \in Operators : place[t] \in Held /\ place[u] \in Held => t = u

LEMMA LockTypeInit == LockInit => LockTypeOK
<1> SUFFICES ASSUME LockInit PROVE LockTypeOK
  OBVIOUS
<1>1. stale \in BOOLEAN /\ up \in BOOLEAN /\ ~stale
  BY Zenon DEF LockInit
<1>2. row = "free" /\ agings = 0 /\ deaths = 0
  BY DEF LockInit
<1>5. unended = {} /\ losses = 0
  BY DEF LockInit
<1>3. run \in [Operators -> {"none"} \cup Runs] /\ doing \in [Operators -> Operations]
  BY DEF LockInit, Operations
<1>4. place = [t \in Operators |-> "idle"]
  BY DEF LockInit
<1> QED
  BY <1>1, <1>2, <1>3, <1>4, <1>5, LockBounds DEF LockTypeOK

LEMMA LockTypeStep == LockTypeOK /\ [LockNext]_lockVars => LockTypeOK'
<1> SUFFICES ASSUME LockTypeOK, [LockNext]_lockVars PROVE LockTypeOK'
  OBVIOUS
<1> USE LockBounds DEF LockTypeOK, Operations, Runs, upsets
<1>1. ASSUME NEW t \in Operators, CheckRun(t) PROVE LockTypeOK'
  BY <1>1 DEF CheckRun, MoveTo
<1>2. ASSUME NEW t \in Operators, ReadLock(t) PROVE LockTypeOK'
  BY <1>2 DEF ReadLock, Expired, MoveTo
<1>3. ASSUME NEW t \in Operators, CheckStale(t) PROVE LockTypeOK'
  BY <1>3 DEF CheckStale, MoveTo
<1>4. ASSUME NEW t \in Operators, DeleteStale(t) PROVE LockTypeOK'
  BY <1>4 DEF DeleteStale, DeleteLock, MoveTo
<1>5. ASSUME NEW t \in Operators, LookFor(t) PROVE LockTypeOK'
  BY <1>5 DEF LookFor, MoveTo
<1>6. ASSUME NEW t \in Operators, Insert(t) PROVE LockTypeOK'
  BY <1>6 DEF Insert, KeyIsFree, MoveTo
<1>7. ASSUME NEW t \in Operators, BeginRun(t) PROVE LockTypeOK'
  BY <1>7 DEF BeginRun, MoveTo
<1>8. ASSUME NEW t \in Operators, EndRun(t) PROVE LockTypeOK'
  BY <1>8 DEF EndRun, FinishRun, MoveTo
<1>9. ASSUME NEW t \in Operators, Finish(t) PROVE LockTypeOK'
  BY <1>9 DEF Finish, MoveTo
<1>10. ASSUME NEW t \in Operators, ReleaseLock(t) PROVE LockTypeOK'
  BY <1>10 DEF ReleaseLock, DeleteLock, MoveTo
<1>11. ASSUME Age PROVE LockTypeOK'
  <2>1. stale' \in BOOLEAN
    BY <1>11, Zenon DEF Age
  <2>2. agings' \in 0..MaxAgings /\ row' # "free"
    BY <1>11 DEF Age
  <2>3. UNCHANGED <<row, run, place, doing, up, deaths, unended, losses>>
    BY <1>11 DEF Age
  <2> QED
    BY <2>1, <2>2, <2>3
<1>12. ASSUME Die PROVE LockTypeOK'
  <2>1. up' \in BOOLEAN
    BY <1>12, Zenon DEF Die
  <2>2. deaths' \in 0..MaxDeaths /\ place' = [t \in Operators |-> "idle"]
    BY <1>12 DEF Die
  <2>3. UNCHANGED <<row, stale, run, doing, agings, losses>> /\ unended' = {}
    BY <1>12 DEF Die
  <2> QED
    BY <2>1, <2>2, <2>3
<1>13. ASSUME RecoverLocks PROVE LockTypeOK'
  <2>1. up' \in BOOLEAN
    BY <1>13, Zenon DEF RecoverLocks
  <2>2. (row' = "free" /\ ~stale') \/ UNCHANGED <<row, stale>>
    BY <1>13 DEF RecoverLocks, DeleteLock
  <2>3. stale' \in BOOLEAN
    <3>1. stale' = FALSE \/ stale' = stale
      BY <1>13, Zenon DEF RecoverLocks, DeleteLock
    <3> QED
      BY <3>1, Zenon
  <2>4. run' \in [Operators -> {"none"} \cup Runs]
    BY <1>13 DEF RecoverLocks, Interrupted
  <2>5. UNCHANGED <<place, doing, agings, deaths, unended, losses>>
    BY <1>13 DEF RecoverLocks
  <2> QED
    BY <2>1, <2>2, <2>3, <2>4, <2>5
<1>14. CASE UNCHANGED lockVars
  BY <1>14 DEF lockVars, upsets
<1>15. ASSUME NEW t \in Operators, TakeLock(t) \/ Perform(t) PROVE LockTypeOK'
  BY <1>15, <1>1, <1>2, <1>3, <1>4, <1>5, <1>6, <1>7, <1>8, <1>9, <1>10
  DEF TakeLock, Perform
<1>16. ASSUME NEW t \in Operators, LeaveBehind(t) PROVE LockTypeOK'
  BY <1>16 DEF LeaveBehind, EndFails, ReleaseFails, CommitFails, MoveTo
<1> QED
  BY <1>11, <1>12, <1>13, <1>14, <1>15, <1>16 DEF LockNext

LEMMA LockDownStep == LockTypeOK /\ DownInv /\ [LockNext]_lockVars => DownInv'
<1> SUFFICES ASSUME LockTypeOK, DownInv, [LockNext]_lockVars PROVE DownInv'
  OBVIOUS
<1> USE DEF DownInv, LockTypeOK, upsets
<1>1. ASSUME NEW t \in Operators, CheckRun(t) PROVE DownInv'
  BY <1>1 DEF CheckRun, MoveTo
<1>2. ASSUME NEW t \in Operators, ReadLock(t) PROVE DownInv'
  BY <1>2 DEF ReadLock, Expired, MoveTo
<1>3. ASSUME NEW t \in Operators, CheckStale(t) PROVE DownInv'
  BY <1>3 DEF CheckStale, MoveTo
<1>4. ASSUME NEW t \in Operators, DeleteStale(t) PROVE DownInv'
  BY <1>4 DEF DeleteStale, DeleteLock, MoveTo
<1>5. ASSUME NEW t \in Operators, LookFor(t) PROVE DownInv'
  BY <1>5 DEF LookFor, MoveTo
<1>6. ASSUME NEW t \in Operators, Insert(t) PROVE DownInv'
  BY <1>6 DEF Insert, KeyIsFree, MoveTo
<1>7. ASSUME NEW t \in Operators, BeginRun(t) PROVE DownInv'
  BY <1>7 DEF BeginRun, MoveTo
<1>8. ASSUME NEW t \in Operators, EndRun(t) PROVE DownInv'
  BY <1>8 DEF EndRun, FinishRun, MoveTo
<1>9. ASSUME NEW t \in Operators, Finish(t) PROVE DownInv'
  BY <1>9 DEF Finish, MoveTo
<1>10. ASSUME NEW t \in Operators, ReleaseLock(t) PROVE DownInv'
  BY <1>10 DEF ReleaseLock, DeleteLock, MoveTo
<1>11. ASSUME Age PROVE DownInv'
  BY <1>11 DEF Age
<1>12. ASSUME Die PROVE DownInv'
  BY <1>12 DEF Die
<1>13. ASSUME RecoverLocks PROVE DownInv'
  BY <1>13 DEF RecoverLocks, Interrupted, DeleteLock
<1>14. CASE UNCHANGED lockVars
  BY <1>14 DEF lockVars, upsets
<1>15. ASSUME NEW t \in Operators, TakeLock(t) \/ Perform(t) PROVE DownInv'
  BY <1>15, <1>1, <1>2, <1>3, <1>4, <1>5, <1>6, <1>7, <1>8, <1>9, <1>10
  DEF TakeLock, Perform
<1>16. ASSUME NEW t \in Operators, LeaveBehind(t) PROVE DownInv'
  BY <1>16 DEF LeaveBehind, EndFails, ReleaseFails, CommitFails, MoveTo
<1> QED
  BY <1>11, <1>12, <1>13, <1>14, <1>15, <1>16 DEF LockNext

LEMMA LockFreshStep == LockTypeOK /\ DownInv /\ FreshInv /\ [LockNext]_lockVars => FreshInv'
<1> SUFFICES ASSUME LockTypeOK, DownInv, FreshInv, [LockNext]_lockVars
             PROVE  FreshInv'
  OBVIOUS
<1> USE DEF FreshInv, DownInv, LockTypeOK, Held, Operations, Runs, upsets
<1>1. ASSUME NEW t \in Operators, CheckRun(t) PROVE FreshInv'
  BY <1>1 DEF CheckRun, MoveTo
<1>2. ASSUME NEW t \in Operators, ReadLock(t) PROVE FreshInv'
  BY <1>2 DEF ReadLock, Expired, MoveTo
<1>3. ASSUME NEW t \in Operators, CheckStale(t) PROVE FreshInv'
  BY <1>3 DEF CheckStale, MoveTo
<1>4. ASSUME NEW t \in Operators, DeleteStale(t) PROVE FreshInv'
  BY <1>4 DEF DeleteStale, DeleteLock, MoveTo
<1>5. ASSUME NEW t \in Operators, LookFor(t) PROVE FreshInv'
  BY <1>5 DEF LookFor, MoveTo
<1>6. ASSUME NEW t \in Operators, Insert(t) PROVE FreshInv'
  BY <1>6 DEF Insert, KeyIsFree, MoveTo
<1>7. ASSUME NEW t \in Operators, BeginRun(t) PROVE FreshInv'
  BY <1>7 DEF BeginRun, MoveTo
<1>8. ASSUME NEW t \in Operators, EndRun(t) PROVE FreshInv'
  BY <1>8 DEF EndRun, FinishRun, MoveTo
<1>9. ASSUME NEW t \in Operators, Finish(t) PROVE FreshInv'
  BY <1>9 DEF Finish, MoveTo
<1>10. ASSUME NEW t \in Operators, ReleaseLock(t) PROVE FreshInv'
  BY <1>10 DEF ReleaseLock, DeleteLock, MoveTo
<1>11. ASSUME Age PROVE FreshInv'
  BY <1>11 DEF Age
<1>12. ASSUME Die PROVE FreshInv'
  BY <1>12 DEF Die
<1>13. ASSUME RecoverLocks PROVE FreshInv'
  BY <1>13 DEF RecoverLocks, Interrupted, DeleteLock
<1>14. CASE UNCHANGED lockVars
  BY <1>14 DEF lockVars, upsets
<1>15. ASSUME NEW t \in Operators, TakeLock(t) \/ Perform(t) PROVE FreshInv'
  BY <1>15, <1>1, <1>2, <1>3, <1>4, <1>5, <1>6, <1>7, <1>8, <1>9, <1>10
  DEF TakeLock, Perform
<1>16. ASSUME NEW t \in Operators, LeaveBehind(t) PROVE FreshInv'
  BY <1>16 DEF LeaveBehind, EndFails, ReleaseFails, CommitFails, MoveTo
<1> QED
  BY <1>11, <1>12, <1>13, <1>14, <1>15, <1>16 DEF LockNext

LEMMA ScheduledStep ==
    LockTypeOK /\ DownInv /\ ScheduledRunIsLive /\ [LockNext]_lockVars => ScheduledRunIsLive'
<1> SUFFICES ASSUME LockTypeOK, DownInv, ScheduledRunIsLive, [LockNext]_lockVars
             PROVE  ScheduledRunIsLive'
  OBVIOUS
<1> USE DEF ScheduledRunIsLive, DownInv, LockTypeOK, Runs, upsets
<1>1. ASSUME NEW t \in Operators, CheckRun(t) PROVE ScheduledRunIsLive'
  BY <1>1 DEF CheckRun, MoveTo
<1>2. ASSUME NEW t \in Operators, ReadLock(t) PROVE ScheduledRunIsLive'
  BY <1>2 DEF ReadLock, Expired, MoveTo
<1>3. ASSUME NEW t \in Operators, CheckStale(t) PROVE ScheduledRunIsLive'
  BY <1>3 DEF CheckStale, MoveTo
<1>4. ASSUME NEW t \in Operators, DeleteStale(t) PROVE ScheduledRunIsLive'
  BY <1>4 DEF DeleteStale, DeleteLock, MoveTo
<1>5. ASSUME NEW t \in Operators, LookFor(t) PROVE ScheduledRunIsLive'
  BY <1>5 DEF LookFor, MoveTo
<1>6. ASSUME NEW t \in Operators, Insert(t) PROVE ScheduledRunIsLive'
  BY <1>6 DEF Insert, KeyIsFree, MoveTo
<1>7. ASSUME NEW t \in Operators, BeginRun(t) PROVE ScheduledRunIsLive'
  BY <1>7 DEF BeginRun, MoveTo
<1>8. ASSUME NEW t \in Operators, EndRun(t) PROVE ScheduledRunIsLive'
  BY <1>8 DEF EndRun, FinishRun, MoveTo
<1>9. ASSUME NEW t \in Operators, Finish(t) PROVE ScheduledRunIsLive'
  BY <1>9 DEF Finish, MoveTo
<1>10. ASSUME NEW t \in Operators, ReleaseLock(t) PROVE ScheduledRunIsLive'
  BY <1>10 DEF ReleaseLock, DeleteLock, MoveTo
<1>11. ASSUME Age PROVE ScheduledRunIsLive'
  BY <1>11 DEF Age
<1>12. ASSUME Die PROVE ScheduledRunIsLive'
  BY <1>12 DEF Die
<1>13. ASSUME RecoverLocks PROVE ScheduledRunIsLive'
  BY <1>13 DEF RecoverLocks, Interrupted, DeleteLock
<1>14. CASE UNCHANGED lockVars
  BY <1>14 DEF lockVars, upsets
<1>15. ASSUME NEW t \in Operators, TakeLock(t) \/ Perform(t)
       PROVE  ScheduledRunIsLive'
  BY <1>15, <1>1, <1>2, <1>3, <1>4, <1>5, <1>6, <1>7, <1>8, <1>9, <1>10
  DEF TakeLock, Perform
<1>16. ASSUME NEW t \in Operators, LeaveBehind(t) PROVE ScheduledRunIsLive'
  BY <1>16 DEF LeaveBehind, EndFails, ReleaseFails, CommitFails, MoveTo
<1> QED
  BY <1>11, <1>12, <1>13, <1>14, <1>15, <1>16 DEF LockNext

\* Rows and threads keep to their values, and a lock is stale only while it exists.
THEOREM LocksTypeCorrect == LockSpec => []LockTypeOK
<1>1. LockInit => LockTypeOK
  BY LockTypeInit
<1>2. LockTypeOK /\ [LockNext]_lockVars => LockTypeOK'
  BY LockTypeStep
<1> QED
  BY <1>1, <1>2, PTL DEF LockSpec

LEMMA AloneFew == FreshInv => NoOverlapWhileFresh
<1> SUFFICES ASSUME FreshInv, agings = 0 PROVE Cardinality(Holders) <= 1
  BY DEF NoOverlapWhileFresh
<1>1. CASE Holders = {}
  BY <1>1, FS_EmptySet
<1>2. CASE Holders # {}
  <2>1. PICK t \in Holders : TRUE
    BY <1>2
  <2>2. Holders = {t}
    BY <2>1 DEF Holders, FreshInv, Held
  <2>3. Cardinality({t}) = 1
    BY FS_Singleton
  <2> QED
    BY <2>2, <2>3
<1> QED
  BY <1>1, <1>2

\* acquire's check, look and insert leave no gap between any number of threads:
\* until a lock is first over two hours old, one operation holds the skill.
THEOREM FreshLocksExclude == LockSpec => []NoOverlapWhileFresh
<1>1. LockInit => LockTypeOK /\ DownInv /\ FreshInv
  BY LockTypeInit DEF LockInit, DownInv, FreshInv, Held
<1>2. LockTypeOK /\ DownInv /\ FreshInv /\ [LockNext]_lockVars => (LockTypeOK /\ DownInv /\ FreshInv)'
  BY LockTypeStep, LockDownStep, LockFreshStep
<1> QED
  BY <1>1, <1>2, AloneFew, PTL DEF LockSpec

\* No restart leaves an active run of a schedule behind, which would refuse every later
\* operation on the skill: one that is not in progress failed to end in this process.
THEOREM ScheduledRunsLive == LockSpec => []ScheduledRunIsLive
<1>1. LockInit => LockTypeOK /\ DownInv /\ ScheduledRunIsLive
  BY LockTypeInit DEF LockInit, DownInv, ScheduledRunIsLive
<1>2. /\ LockTypeOK /\ DownInv /\ ScheduledRunIsLive /\ [LockNext]_lockVars
      => (LockTypeOK /\ DownInv /\ ScheduledRunIsLive)'
  BY LockTypeStep, LockDownStep, ScheduledStep
<1> QED
  BY <1>1, <1>2, PTL DEF LockSpec
=============================================================================
