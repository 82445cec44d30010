-------------------- MODULE ScheduleOccurrences_proofs --------------------
(***************************************************************************)
(* Safety of a schedule for any definitions, instants, edits, requests and *)
(* crashes: its occurrences implement OnceEffect, no instant of a disabled *)
(* or differently defined period is claimed, and the latest instant of an  *)
(* enabled service is not missed.                                          *)
(***************************************************************************)
EXTENDS ScheduleOccurrences, TLAPS

LEMMA TypeInit == Init => TypeOK
<1> SUFFICES ASSUME Init PROVE TypeOK
  OBVIOUS
<1> USE BoundsAssumption DEF Never
<1>1. <<def, 1>> \in Keys
  BY DEF Init, Keys
<1>2. key \in [Workers -> Keys]
  BY <1>1 DEF Init
<1>3. pc \in [Threads -> {"idle", "read", "ensure", "claim", "begin", "invoke", "work"}]
  BY DEF Init
<1>4. occ \in [Items -> {"none", "claimed", "running", "ended"}] /\ effects \in [Items -> Nat]
  BY DEF Init
<1>5. inForce \in [1..MaxTime -> SUBSET Definitions] /\ dropped = {} /\ gap = {}
  BY DEF Init
<1>6. due \in BOOLEAN /\ raced \in BOOLEAN
  BY Zenon DEF Init
<1>7. /\ kind \in Kinds /\ enabled \in BOOLEAN
      /\ def \in Definitions /\ fp = def /\ seen = def /\ since \in 0..Never
  BY DEF Init
<1>8. /\ now = 0 /\ startAt = 0 /\ jobSince = 0 /\ boundary = 0 /\ edits = 0 /\ crashes = 0
      /\ server = "down" /\ job = NoJob
  BY DEF Init
<1> QED
  BY <1>2, <1>3, <1>4, <1>5, <1>6, <1>7, <1>8 DEF TypeOK

\* The occurrence a thread has in hand is one of the rows'.
LEMMA ItemTyped == ASSUME TypeOK, NEW t \in Threads PROVE ItemOf(t) \in Items
BY DEF TypeOK, ItemOf, Items, Threads

\* What _latest_due_at finds is an instant between the activation and the time asked.
LEMMA LatestIsDue ==
    ASSUME NEW t, NEW d, NEW from, NEW to, IsLatest(t, d, from, to)
    PROVE  t \in 1..to /\ t > from
BY DEF IsLatest, DueTimes

LEMMA ClaimLatestTyped ==
    ASSUME TypeOK, NEW w \in Workers, NEW d \in Definitions, NEW at, ClaimLatest(w, d, at)
    PROVE  /\ key' \in [Workers -> Keys]
           /\ pc' \in [Threads -> {"idle", "read", "ensure", "claim", "begin", "invoke",
                                   "work"}]
<1>1. CASE \E t \in 1..MaxTime : IsLatest(t, d, since, at)
                /\ key' = [key EXCEPT ![w] = <<d, t>>] /\ Goto(w, "claim")
  <2>1. PICK t \in 1..MaxTime : key' = [key EXCEPT ![w] = <<d, t>>] /\ Goto(w, "claim")
    BY <1>1
  <2>2. PICK k \in Keys : k = <<d, t>>
    BY DEF Keys
  <2>3. key' = [key EXCEPT ![w] = k]
    BY <2>1, <2>2
  <2>4. key' \in [Workers -> Keys]
    BY <2>2, <2>3 DEF TypeOK
  <2> QED
    BY <2>1, <2>4 DEF Goto, TypeOK
<1>2. CASE Goto(w, "idle") /\ UNCHANGED key
  BY <1>2 DEF Goto, TypeOK
<1> QED
  BY <1>1, <1>2 DEF ClaimLatest

LEMMA TypeStep == TypeOK /\ [Next]_vars => TypeOK'
<1> SUFFICES ASSUME TypeOK, [Next]_vars PROVE TypeOK'
  OBVIOUS
<1> USE BoundsAssumption DEF rows, jobs, claims, trace, Never
<1>1. ASSUME Tick PROVE TypeOK'
  <2>1. inForce' \in [1..MaxTime -> SUBSET Definitions]
    BY <1>1 DEF Tick, TypeOK
  <2>2. now' \in 0..MaxTime /\ startAt' \in 0..now' /\ gap' \subseteq 1..MaxTime
    BY <1>1 DEF Tick, TypeOK
  <2>3. due' \in BOOLEAN
    BY <1>1 DEF Tick, TypeOK
  <2> QED
    BY <1>1, <2>1, <2>2, <2>3 DEF Tick, TypeOK
<1>2. ASSUME Fire PROVE TypeOK'
  <2>1. due' \in BOOLEAN
    BY <1>2, Zenon DEF Fire
  <2>2. pc' \in [Threads -> {"idle", "read", "ensure", "claim", "begin", "invoke", "work"}]
    BY <1>2 DEF Fire, Goto, TypeOK
  <2>3. dropped' \subseteq 1..MaxTime
    <3>1. 1..now \subseteq 1..MaxTime
      BY DEF TypeOK
    <3>2. dropped' = dropped \/ dropped' = dropped \cup (1..now)
      BY <1>2, Zenon DEF Fire
    <3> QED
      BY <3>1, <3>2 DEF TypeOK
  <2>4. UNCHANGED <<kind, rows, claims, now, server, startAt, job, jobSince, key, seen,
                    inForce, boundary, gap, raced, edits, crashes>>
    BY <1>2 DEF Fire
  <2> QED
    BY <2>1, <2>2, <2>3, <2>4 DEF TypeOK
<1>3. ASSUME ReadSchedule PROVE TypeOK'
  BY <1>3 DEF ReadSchedule, Goto, TypeOK
<1>4. ASSUME EnsureResets PROVE TypeOK'
  <2>1. raced' \in BOOLEAN
    BY <1>4, Zenon DEF EnsureResets
  <2>2. pc' \in [Threads -> {"idle", "read", "ensure", "claim", "begin", "invoke", "work"}]
    BY <1>4 DEF EnsureResets, Goto, TypeOK
  <2>3. fp' \in Definitions /\ since' \in 0..Never
    BY <1>4 DEF EnsureResets, ResetState, TypeOK
  <2>4. UNCHANGED <<kind, enabled, def, claims, now, server, startAt, jobs, key, seen,
                    inForce, boundary, dropped, gap, edits, crashes>>
    BY <1>4 DEF EnsureResets
  <2> QED
    BY <2>1, <2>2, <2>3, <2>4 DEF TypeOK
<1>5. ASSUME EnsureSkill PROVE TypeOK'
  BY <1>5, ClaimLatestTyped DEF EnsureSkill, Workers, TypeOK
<1>6. ASSUME EnsurePlatform PROVE TypeOK'
  BY <1>6, ClaimLatestTyped DEF EnsurePlatform, Workers, Goto, TypeOK
<1>7. ASSUME NEW t \in Threads, Claim(t) PROVE TypeOK'
  <2>1. PICK i \in Items : i = ItemOf(t)
    BY ItemTyped
  <2> QED
    BY <1>7, <2>1 DEF Claim, Goto, TypeOK
<1>8. ASSUME NEW t \in Threads, Begin(t) PROVE TypeOK'
  <2>1. PICK i \in Items : i = ItemOf(t)
    BY ItemTyped
  <2> QED
    BY <1>8, <2>1 DEF Begin, Goto, TypeOK
<1>9. ASSUME NEW t \in Threads, Invoke(t) PROVE TypeOK'
  <2>1. PICK i \in Items : i = ItemOf(t)
    BY ItemTyped
  <2> QED
    BY <1>9, <2>1 DEF Invoke, Goto, TypeOK
<1>10. ASSUME NEW t \in Threads, Blocked(t) PROVE TypeOK'
  <2>1. PICK i \in Items : i = ItemOf(t)
    BY ItemTyped
  <2> QED
    BY <1>10, <2>1 DEF Blocked, Goto, TypeOK
<1>11. ASSUME NEW t \in Threads, Finish(t) PROVE TypeOK'
  <2>1. PICK i \in Items : i = ItemOf(t)
    BY ItemTyped
  <2> QED
    BY <1>11, <2>1 DEF Finish, Goto, TypeOK
<1>12. ASSUME NEW r \in Requests, RunNow(r) PROVE TypeOK'
  BY <1>12 DEF RunNow, Goto, TypeOK
<1>13. ASSUME Enable PROVE TypeOK'
  <2>1. due' \in BOOLEAN /\ enabled' \in BOOLEAN
    BY <1>13, Zenon DEF Enable, EditStep, Activate, TypeOK
  <2> QED
    BY <1>13, <2>1 DEF Enable, EditStep, Activate, TypeOK
<1>14. ASSUME Disable PROVE TypeOK'
  <2>1. due' \in BOOLEAN /\ enabled' \in BOOLEAN
    BY <1>14, Zenon DEF Disable, EditStep, TypeOK
  <2> QED
    BY <1>14, <2>1 DEF Disable, EditStep, TypeOK
<1>15. ASSUME NEW d \in Definitions, Update(d) PROVE TypeOK'
  <2>1. due' \in BOOLEAN
    BY <1>15, Zenon DEF Update, jobs, TypeOK
  <2> QED
    BY <1>15, <2>1 DEF Update, EditStep, Activate, TypeOK
<1>16. ASSUME Rename PROVE TypeOK'
  <2>1. due' \in BOOLEAN /\ enabled' \in BOOLEAN
    BY <1>16, Zenon DEF Rename, EditStep, TypeOK
  <2>2. dropped' \subseteq 1..MaxTime /\ edits' \in 0..MaxEdits
    BY <1>16 DEF Rename, EditStep, TypeOK
  <2>3. job' \in Definitions /\ jobSince' \in 0..Never
    BY <1>16 DEF Rename, EditStep, TypeOK
  <2>4. UNCHANGED <<rows, boundary, kind, claims, now, server, startAt, pc, key, seen,
                    inForce, gap, raced, crashes>>
    BY <1>16 DEF Rename, EditStep
  <2> QED
    BY <2>1, <2>2, <2>3, <2>4 DEF TypeOK
<1>17. ASSUME Crash PROVE TypeOK'
  <2>1. due' \in BOOLEAN /\ enabled' \in BOOLEAN
    BY <1>17, Zenon DEF Crash, TypeOK
  <2> QED
    BY <1>17, <2>1 DEF Crash, TypeOK
<1>18. ASSUME Recover PROVE TypeOK'
  <2>1. Recovered \in [Items -> {"none", "claimed", "running", "ended"}]
    BY DEF Recovered, TypeOK
  <2> QED
    BY <1>18, <2>1 DEF Recover, TypeOK
<1>19. ASSUME LoadJobs PROVE TypeOK'
  <2>1. raced' \in BOOLEAN
    BY <1>19, Zenon DEF LoadJobs, TypeOK
  <2>2. fp' \in Definitions /\ since' \in 0..Never
    BY <1>19 DEF LoadJobs, ResetState, TypeOK
  <2>3. job' \in Definitions \cup {NoJob} /\ jobSince' \in 0..Never
    BY <1>19 DEF LoadJobs, ResetState, TypeOK
  <2>4. server' = "loaded" /\
        UNCHANGED <<kind, enabled, def, claims, now, startAt, due, pc, key, seen, inForce,
                    boundary, dropped, gap, edits, crashes>>
    BY <1>19 DEF LoadJobs
  <2> QED
    BY <2>1, <2>2, <2>3, <2>4 DEF TypeOK
<1>20. ASSUME QueueCatchUp PROVE TypeOK'
  <2>1. PICK t \in 1..MaxTime : /\ occ' = [occ EXCEPT ![<<def, t>>] = "claimed"]
                                /\ key' = [key EXCEPT !["catchup"] = <<def, t>>]
    BY <1>20 DEF QueueCatchUp
  <2>2. PICK k \in Keys : k = <<def, t>>
    BY DEF Keys, TypeOK
  <2>3. key' = [key EXCEPT !["catchup"] = k] /\ occ' = [occ EXCEPT ![k] = "claimed"]
    BY <2>1, <2>2
  <2>4. key' \in [Workers -> Keys]
    BY <2>2, <2>3 DEF TypeOK
  <2> QED
    BY <1>20, <2>2, <2>3, <2>4 DEF QueueCatchUp, Goto, TypeOK
<1>21. ASSUME NoCatchUp PROVE TypeOK'
  <2>1. raced' \in BOOLEAN
    BY <1>21, Zenon DEF NoCatchUp, TypeOK
  <2> QED
    BY <1>21, <2>1 DEF NoCatchUp, ResetState, TypeOK
<1>22. CASE UNCHANGED vars
  BY <1>22 DEF vars, TypeOK
<1>23. ASSUME NEW t \in Threads, Execute(t) PROVE TypeOK'
  BY <1>23, <1>7, <1>8, <1>9, <1>10, <1>11 DEF Execute
<1>24. ASSUME Firing PROVE TypeOK'
  BY <1>24, <1>3, <1>4, <1>5, <1>6 DEF Firing
<1>25. ASSUME Start PROVE TypeOK'
  BY <1>25, <1>18, <1>19, <1>20, <1>21 DEF Start
<1>26. ASSUME Edit PROVE TypeOK'
  BY <1>26, <1>13, <1>14, <1>15, <1>16 DEF Edit
<1> QED
  BY <1>1, <1>2, <1>12, <1>17, <1>22, <1>23, <1>24, <1>25, <1>26 DEF Next

\* Every column keeps to the values its readers know.
THEOREM TypeCorrect == Spec => []TypeOK
<1> QED
  BY TypeInit, TypeStep, PTL DEF Spec

-----------------------------------------------------------------------------
\* Until the jobs are registered nothing fires and no thread runs.
DownInv == server \in {"down", "recovered"} =>
    job = NoJob /\ ~due /\ \A t \in Threads : pc[t] = "idle"

LEMMA DownStep == TypeOK /\ DownInv /\ [Next]_vars => DownInv'
<1> SUFFICES ASSUME TypeOK, DownInv, [Next]_vars PROVE DownInv'
  OBVIOUS
<1> USE DEF DownInv, rows, jobs, claims, trace
<1>1. ASSUME Tick PROVE DownInv'
  BY <1>1 DEF Tick, TypeOK, Threads, Workers
<1>2. ASSUME Fire PROVE DownInv'
  BY <1>2 DEF Fire, Goto, TypeOK, Threads, Workers
<1>3. ASSUME ReadSchedule PROVE DownInv'
  BY <1>3 DEF ReadSchedule, Goto, TypeOK, Threads, Workers
<1>4. ASSUME EnsureResets PROVE DownInv'
  BY <1>4 DEF EnsureResets, Goto, TypeOK, Threads, Workers
<1>5. ASSUME EnsureSkill PROVE DownInv'
  BY <1>5 DEF EnsureSkill, ClaimLatest, Goto, TypeOK, Threads, Workers
<1>6. ASSUME EnsurePlatform PROVE DownInv'
  BY <1>6 DEF EnsurePlatform, ClaimLatest, Goto, TypeOK, Threads, Workers
<1>7. ASSUME NEW t \in Threads, Claim(t) PROVE DownInv'
  BY <1>7 DEF Claim, Goto, TypeOK, Threads, Workers
<1>8. ASSUME NEW t \in Threads, Begin(t) PROVE DownInv'
  BY <1>8 DEF Begin, Goto, TypeOK, Threads, Workers
<1>9. ASSUME NEW t \in Threads, Invoke(t) PROVE DownInv'
  BY <1>9 DEF Invoke, Goto, TypeOK, Threads, Workers
<1>10. ASSUME NEW t \in Threads, Blocked(t) PROVE DownInv'
  BY <1>10 DEF Blocked, Goto, TypeOK, Threads, Workers
<1>11. ASSUME NEW t \in Threads, Finish(t) PROVE DownInv'
  BY <1>11 DEF Finish, Goto, TypeOK, Threads, Workers
<1>12. ASSUME NEW r \in Requests, RunNow(r) PROVE DownInv'
  BY <1>12 DEF RunNow, Goto, Up, TypeOK, Threads, Workers
<1>13. ASSUME Enable PROVE DownInv'
  BY <1>13 DEF Enable, EditStep, Up, TypeOK, Threads, Workers
<1>14. ASSUME Disable PROVE DownInv'
  BY <1>14 DEF Disable, EditStep, Up, TypeOK, Threads, Workers
<1>15. ASSUME NEW d \in Definitions, Update(d) PROVE DownInv'
  BY <1>15 DEF Update, EditStep, Up, TypeOK, Threads, Workers
<1>16. ASSUME Rename PROVE DownInv'
  BY <1>16 DEF Rename, EditStep, Up, TypeOK, Threads, Workers
<1>17. ASSUME Crash PROVE DownInv'
  BY <1>17 DEF Crash, TypeOK, Threads, Workers
<1>18. ASSUME Recover PROVE DownInv'
  BY <1>18 DEF Recover, TypeOK, Threads, Workers
<1>19. ASSUME LoadJobs PROVE DownInv'
  BY <1>19 DEF LoadJobs, TypeOK, Threads, Workers
<1>20. ASSUME QueueCatchUp PROVE DownInv'
  BY <1>20 DEF QueueCatchUp, Goto, TypeOK, Threads, Workers
<1>21. ASSUME NoCatchUp PROVE DownInv'
  BY <1>21 DEF NoCatchUp, TypeOK, Threads, Workers
<1>22. CASE UNCHANGED vars
  BY <1>22 DEF vars
<1>23. ASSUME NEW t \in Threads, Execute(t) PROVE DownInv'
  BY <1>23, <1>7, <1>8, <1>9, <1>10, <1>11 DEF Execute
<1>24. ASSUME Firing PROVE DownInv'
  BY <1>24, <1>3, <1>4, <1>5, <1>6 DEF Firing
<1>25. ASSUME Start PROVE DownInv'
  BY <1>25, <1>18, <1>19, <1>20, <1>21 DEF Start
<1>26. ASSUME Edit PROVE DownInv'
  BY <1>26, <1>13, <1>14, <1>15, <1>16 DEF Edit
<1> QED
  BY <1>1, <1>2, <1>12, <1>17, <1>22, <1>23, <1>24, <1>25, <1>26 DEF Next

\* A thread in an occurrence holds a row of its own, whose status and effect say how
\* far it has come; only a server that is up runs a catch-up.
Holders == {"begin", "invoke", "work"}

HoldInv ==
    /\ \A t \in Threads : pc[t] = "begin" => occ[ItemOf(t)] = "claimed"
    /\ \A t \in Threads : pc[t] \in {"invoke", "work"} => occ[ItemOf(t)] = "running"
    /\ \A t \in Threads : pc[t] = "invoke" => effects[ItemOf(t)] = 0
    /\ \A t, u \in Threads : pc[t] \in Holders /\ pc[u] \in Holders /\ t # u =>
         ItemOf(t) # ItemOf(u)
    /\ server # "up" => pc["catchup"] = "idle"
    /\ \A i \in Items : effects[i] <= 1
    /\ \A i \in Items : occ[i] \in {"none", "claimed"} => effects[i] = 0

\* A step keeps it that leaves the rows alone and takes nobody into an occurrence.
LEMMA HoldQuiet ==
    ASSUME HoldInv, UNCHANGED <<occ, effects>>,
           \A t \in Threads : pc'[t] \in Holders => pc'[t] = pc[t] /\ ItemOf(t)' = ItemOf(t),
           server' # "up" => pc'["catchup"] = "idle"
    PROVE  HoldInv'
BY DEF HoldInv, Holders

\* So does one that goes on with the occurrence of one thread.
LEMMA HoldOn ==
    ASSUME TypeOK, HoldInv, NEW t \in Threads, NEW i \in Items, i = ItemOf(t),
           UNCHANGED <<key, server>>, pc[t] # "idle", pc[t] \in Holders \/ occ[i] = "none",
           \A u \in Threads \ {t} : pc'[u] = pc[u],
           \A j \in Items \ {i} : occ'[j] = occ[j] /\ effects'[j] = effects[j],
           \/ pc'[t] = "idle" /\ occ'[i] = "ended" /\ effects'[i] <= 1
           \/ pc'[t] = "begin" /\ occ'[i] = "claimed" /\ effects'[i] = 0
           \/ pc'[t] = "invoke" /\ occ'[i] = "running" /\ effects'[i] = 0
           \/ pc'[t] = "work" /\ occ'[i] = "running" /\ effects'[i] = 1
    PROVE  HoldInv'
<1>1. \A u \in Threads : ItemOf(u)' = ItemOf(u) /\ ItemOf(u) \in Items
  BY ItemTyped DEF ItemOf
<1>2. \A u \in Threads \ {t} : pc[u] \in Holders => ItemOf(u) # i
  BY DEF HoldInv, Holders
<1>3. \A u \in Threads \ {t} : pc[u] \in Holders =>
          occ'[ItemOf(u)] = occ[ItemOf(u)] /\ effects'[ItemOf(u)] = effects[ItemOf(u)]
  BY <1>1, <1>2
<1>4. \A j \in Items : effects'[j] <= 1 /\ (occ'[j] \in {"none", "claimed"} => effects'[j] = 0)
  BY DEF HoldInv
<1>5. \A u \in Threads :
        /\ pc'[u] = "begin" => occ'[ItemOf(u)] = "claimed"
        /\ pc'[u] \in {"invoke", "work"} => occ'[ItemOf(u)] = "running"
        /\ pc'[u] = "invoke" => effects'[ItemOf(u)] = 0
  BY <1>3 DEF HoldInv, Holders
<1>6. \A u, v \in Threads : pc'[u] \in Holders /\ pc'[v] \in Holders /\ u # v =>
        ItemOf(u) # ItemOf(v)
  BY <1>2 DEF HoldInv
<1>7. server' # "up" => pc'["catchup"] = "idle"
  BY DEF HoldInv, Threads, Workers
<1> QED
  BY <1>1, <1>4, <1>5, <1>6, <1>7 DEF HoldInv

LEMMA HoldStep == TypeOK /\ DownInv /\ HoldInv /\ [Next]_vars => HoldInv'
<1> SUFFICES ASSUME TypeOK, DownInv, HoldInv, [Next]_vars PROVE HoldInv'
  OBVIOUS
<1> USE DEF rows, jobs, claims, trace
<1>1. ASSUME Tick PROVE HoldInv'
  <2>1. \A t \in Threads : pc'[t] \in Holders => pc'[t] = pc[t]
    BY <1>1 DEF Tick, Holders, TypeOK
  <2>2. \A t \in Threads : ItemOf(t)' = ItemOf(t)
    BY <1>1 DEF Tick, ItemOf
  <2>4. server' # "up" => pc'["catchup"] = "idle"
    BY <1>1 DEF Tick, HoldInv, Threads, Workers, TypeOK
  <2>5. UNCHANGED <<occ, effects>>
    BY <1>1 DEF Tick
  <2> QED
    BY <2>1, <2>2, <2>4, <2>5, HoldQuiet
<1>2. ASSUME Fire PROVE HoldInv'
  <2>1. \A t \in Threads : pc'[t] \in Holders => pc'[t] = pc[t]
    BY <1>2 DEF Fire, Goto, Holders, TypeOK
  <2>2. \A t \in Threads : ItemOf(t)' = ItemOf(t)
    BY <1>2 DEF Fire, ItemOf
  <2>4. server' # "up" => pc'["catchup"] = "idle"
    BY <1>2 DEF Fire, Goto, HoldInv, Threads, Workers, TypeOK
  <2>5. UNCHANGED <<occ, effects>>
    BY <1>2 DEF Fire
  <2> QED
    BY <2>1, <2>2, <2>4, <2>5, HoldQuiet
<1>3. ASSUME ReadSchedule PROVE HoldInv'
  <2>1. \A t \in Threads : pc'[t] \in Holders => pc'[t] = pc[t]
    BY <1>3 DEF ReadSchedule, Goto, Holders, TypeOK
  <2>2. \A t \in Threads : ItemOf(t)' = ItemOf(t)
    BY <1>3 DEF ReadSchedule, ItemOf
  <2>4. server' # "up" => pc'["catchup"] = "idle"
    BY <1>3 DEF ReadSchedule, Goto, HoldInv, Threads, Workers, TypeOK
  <2>5. UNCHANGED <<occ, effects>>
    BY <1>3 DEF ReadSchedule
  <2> QED
    BY <2>1, <2>2, <2>4, <2>5, HoldQuiet
<1>4. ASSUME EnsureResets PROVE HoldInv'
  <2>1. \A t \in Threads : pc'[t] \in Holders => pc'[t] = pc[t]
    BY <1>4 DEF EnsureResets, Goto, Holders, TypeOK
  <2>2. \A t \in Threads : ItemOf(t)' = ItemOf(t)
    BY <1>4 DEF EnsureResets, ItemOf
  <2>4. server' # "up" => pc'["catchup"] = "idle"
    BY <1>4 DEF EnsureResets, Goto, HoldInv, Threads, Workers, TypeOK
  <2>5. UNCHANGED <<occ, effects>>
    BY <1>4 DEF EnsureResets
  <2> QED
    BY <2>1, <2>2, <2>4, <2>5, HoldQuiet
<1>5. ASSUME EnsureSkill PROVE HoldInv'
  <2>1. \A t \in Threads : pc'[t] \in Holders => pc'[t] = pc[t]
    BY <1>5 DEF EnsureSkill, ClaimLatest, Goto, Holders, TypeOK
  <2>2. \A t \in Threads \ {"auto"} : ItemOf(t)' = ItemOf(t)
    BY <1>5 DEF EnsureSkill, ClaimLatest, Goto, ItemOf, Threads, TypeOK
  <2>3. pc'["auto"] \notin Holders
    BY <1>5 DEF EnsureSkill, ClaimLatest, Goto, Holders, Threads, Workers, TypeOK
  <2>4. server' # "up" => pc'["catchup"] = "idle"
    BY <1>5 DEF EnsureSkill, ClaimLatest, Goto, HoldInv, Threads, Workers, TypeOK
  <2>5. UNCHANGED <<occ, effects>>
    BY <1>5 DEF EnsureSkill
  <2> QED
    BY <2>1, <2>2, <2>3, <2>4, <2>5, HoldQuiet
<1>6. ASSUME EnsurePlatform PROVE HoldInv'
  <2>1. \A t \in Threads : pc'[t] \in Holders => pc'[t] = pc[t]
    BY <1>6 DEF EnsurePlatform, ClaimLatest, Goto, Holders, TypeOK
  <2>2. \A t \in Threads \ {"auto"} : ItemOf(t)' = ItemOf(t)
    BY <1>6 DEF EnsurePlatform, ClaimLatest, Goto, ItemOf, Threads, TypeOK
  <2>3. pc'["auto"] \notin Holders
    BY <1>6 DEF EnsurePlatform, ClaimLatest, Goto, Holders, Threads, Workers, TypeOK
  <2>4. server' # "up" => pc'["catchup"] = "idle"
    BY <1>6 DEF EnsurePlatform, ClaimLatest, Goto, HoldInv, Threads, Workers, TypeOK
  <2>5. UNCHANGED <<occ, effects>>
    BY <1>6 DEF EnsurePlatform
  <2> QED
    BY <2>1, <2>2, <2>3, <2>4, <2>5, HoldQuiet
<1>7. ASSUME NEW t \in Threads, Claim(t) PROVE HoldInv'
  <2>1. PICK i \in Items : i = ItemOf(t)
    BY ItemTyped
  <2>2. UNCHANGED <<key, server>> /\ pc[t] = "claim" /\ effects' = effects
    BY <1>7 DEF Claim
  <2>3. \A u \in Threads \ {t} : pc'[u] = pc[u]
    BY <1>7 DEF Claim, Goto, TypeOK
  <2>4. CASE occ[i] = "none"
    <3>1. \A j \in Items \ {i} : occ'[j] = occ[j]
      BY <1>7, <2>1 DEF Claim, TypeOK
    <3>2. pc'[t] = "begin" /\ occ'[i] = "claimed" /\ effects[i] = 0
      BY <1>7, <2>1, <2>4 DEF Claim, Unclaimed, Goto, HoldInv, TypeOK
    <3> QED
      BY <2>1, <2>2, <2>3, <2>4, <3>1, <3>2, HoldOn
  <2>5. CASE occ[i] # "none"
    <3>1. pc'[t] = "idle" /\ occ' = occ
      BY <1>7, <2>1, <2>5 DEF Claim, Unclaimed, Goto, TypeOK
    <3>2. \A u \in Threads : ItemOf(u)' = ItemOf(u)
      BY <2>2 DEF ItemOf
    <3> QED
      BY <2>2, <2>3, <3>1, <3>2 DEF HoldInv, Holders, Threads, Workers
  <2> QED
    BY <2>4, <2>5
<1>8. ASSUME NEW t \in Threads, Begin(t) PROVE HoldInv'
  <2>1. PICK i \in Items : i = ItemOf(t)
    BY ItemTyped
  <2>2. UNCHANGED <<key, server>> /\ pc[t] = "begin" /\ effects' = effects
    BY <1>8 DEF Begin
  <2>3. \A u \in Threads \ {t} : pc'[u] = pc[u]
    BY <1>8 DEF Begin, Goto, TypeOK
  <2>4. \A j \in Items \ {i} : occ'[j] = occ[j]
    BY <1>8, <2>1 DEF Begin, TypeOK
  <2>5. effects[i] = 0
    BY <2>1, <2>2 DEF HoldInv
  <2>6. \/ pc'[t] = "idle" /\ occ'[i] = "ended"
        \/ pc'[t] = "invoke" /\ occ'[i] = "running"
    BY <1>8, <2>1 DEF Begin, Goto, TypeOK
  <2> QED
    BY <2>1, <2>2, <2>3, <2>4, <2>5, <2>6, HoldOn DEF Holders
<1>9. ASSUME NEW t \in Threads, Invoke(t) PROVE HoldInv'
  <2>1. PICK i \in Items : i = ItemOf(t)
    BY ItemTyped
  <2>2. /\ UNCHANGED <<key, server, occ>> /\ pc[t] = "invoke"
        /\ effects' = [effects EXCEPT ![i] = @ + 1] /\ pc' = [pc EXCEPT ![t] = "work"]
    BY <1>9, <2>1 DEF Invoke, Goto
  <2>3. occ[i] = "running" /\ effects[i] = 0
    BY <2>1, <2>2 DEF HoldInv
  <2>4. \A j \in Items \ {i} : effects'[j] = effects[j]
    BY <2>2 DEF TypeOK
  <2>5. pc'[t] = "work" /\ effects'[i] = 1 /\ \A u \in Threads \ {t} : pc'[u] = pc[u]
    BY <2>2, <2>3 DEF TypeOK
  <2> QED
    BY <2>1, <2>2, <2>3, <2>4, <2>5, HoldOn DEF Holders
<1>10. ASSUME NEW t \in Threads, Blocked(t) PROVE HoldInv'
  <2>1. PICK i \in Items : i = ItemOf(t)
    BY ItemTyped
  <2>2. /\ UNCHANGED <<key, server, effects>> /\ pc[t] = "invoke"
        /\ occ' = [occ EXCEPT ![i] = "ended"] /\ pc' = [pc EXCEPT ![t] = "idle"]
    BY <1>10, <2>1 DEF Blocked, Goto
  <2>3. \A u \in Threads \ {t} : pc'[u] = pc[u]
    BY <2>2 DEF TypeOK
  <2>4. pc'[t] = "idle" /\ occ'[i] = "ended" /\ \A j \in Items \ {i} : occ'[j] = occ[j]
    BY <2>2 DEF TypeOK
  <2> QED
    BY <2>1, <2>2, <2>3, <2>4, HoldOn DEF HoldInv, Holders
<1>11. ASSUME NEW t \in Threads, Finish(t) PROVE HoldInv'
  <2>1. PICK i \in Items : i = ItemOf(t)
    BY ItemTyped
  <2>2. /\ UNCHANGED <<key, server, effects>> /\ pc[t] = "work"
        /\ occ' = [occ EXCEPT ![i] = "ended"] /\ pc' = [pc EXCEPT ![t] = "idle"]
    BY <1>11, <2>1 DEF Finish, Goto
  <2>3. \A u \in Threads \ {t} : pc'[u] = pc[u]
    BY <2>2 DEF TypeOK
  <2>4. pc'[t] = "idle" /\ occ'[i] = "ended" /\ \A j \in Items \ {i} : occ'[j] = occ[j]
    BY <2>2 DEF TypeOK
  <2> QED
    BY <2>1, <2>2, <2>3, <2>4, HoldOn DEF HoldInv, Holders
<1>12. ASSUME NEW r \in Requests, RunNow(r) PROVE HoldInv'
  <2>1. \A t \in Threads : pc'[t] \in Holders => pc'[t] = pc[t]
    BY <1>12 DEF RunNow, Goto, Up, Holders, TypeOK
  <2>2. \A t \in Threads : ItemOf(t)' = ItemOf(t)
    BY <1>12 DEF RunNow, ItemOf
  <2>4. server' # "up" => pc'["catchup"] = "idle"
    BY <1>12, NamesAssumption DEF RunNow, Goto, Up, HoldInv, Threads, Workers, TypeOK
  <2>5. UNCHANGED <<occ, effects>>
    BY <1>12 DEF RunNow
  <2> QED
    BY <2>1, <2>2, <2>4, <2>5, HoldQuiet
<1>13. ASSUME Enable PROVE HoldInv'
  <2>1. \A t \in Threads : pc'[t] \in Holders => pc'[t] = pc[t]
    BY <1>13 DEF Enable, EditStep, Up, Holders, TypeOK
  <2>2. \A t \in Threads : ItemOf(t)' = ItemOf(t)
    BY <1>13 DEF Enable, ItemOf, EditStep
  <2>4. server' # "up" => pc'["catchup"] = "idle"
    BY <1>13 DEF Enable, EditStep, Up, HoldInv, Threads, Workers, TypeOK
  <2>5. UNCHANGED <<occ, effects>>
    BY <1>13 DEF Enable, EditStep
  <2> QED
    BY <2>1, <2>2, <2>4, <2>5, HoldQuiet
<1>14. ASSUME Disable PROVE HoldInv'
  <2>1. \A t \in Threads : pc'[t] \in Holders => pc'[t] = pc[t]
    BY <1>14 DEF Disable, EditStep, Up, Holders, TypeOK
  <2>2. \A t \in Threads : ItemOf(t)' = ItemOf(t)
    BY <1>14 DEF Disable, ItemOf, EditStep
  <2>4. server' # "up" => pc'["catchup"] = "idle"
    BY <1>14 DEF Disable, EditStep, Up, HoldInv, Threads, Workers, TypeOK
  <2>5. UNCHANGED <<occ, effects>>
    BY <1>14 DEF Disable, EditStep
  <2> QED
    BY <2>1, <2>2, <2>4, <2>5, HoldQuiet
<1>15. ASSUME NEW d \in Definitions, Update(d) PROVE HoldInv'
  <2>1. \A t \in Threads : pc'[t] \in Holders => pc'[t] = pc[t]
    BY <1>15 DEF Update, EditStep, Up, Holders, TypeOK
  <2>2. \A t \in Threads : ItemOf(t)' = ItemOf(t)
    BY <1>15 DEF Update, ItemOf, EditStep
  <2>4. server' # "up" => pc'["catchup"] = "idle"
    BY <1>15 DEF Update, EditStep, Up, HoldInv, Threads, Workers, TypeOK
  <2>5. UNCHANGED <<occ, effects>>
    BY <1>15 DEF Update, EditStep
  <2> QED
    BY <2>1, <2>2, <2>4, <2>5, HoldQuiet
<1>16. ASSUME Rename PROVE HoldInv'
  <2>1. \A t \in Threads : pc'[t] \in Holders => pc'[t] = pc[t]
    BY <1>16 DEF Rename, EditStep, Up, Holders, TypeOK
  <2>2. \A t \in Threads : ItemOf(t)' = ItemOf(t)
    BY <1>16 DEF Rename, ItemOf, EditStep
  <2>4. server' # "up" => pc'["catchup"] = "idle"
    BY <1>16 DEF Rename, EditStep, Up, HoldInv, Threads, Workers, TypeOK
  <2>5. UNCHANGED <<occ, effects>>
    BY <1>16 DEF Rename, EditStep
  <2> QED
    BY <2>1, <2>2, <2>4, <2>5, HoldQuiet
<1>17. ASSUME Crash PROVE HoldInv'
  <2>1. \A t \in Threads : pc'[t] \in Holders => pc'[t] = pc[t]
    BY <1>17 DEF Crash, Holders, TypeOK
  <2>2. \A t \in Threads : ItemOf(t)' = ItemOf(t)
    BY <1>17 DEF Crash, ItemOf
  <2>4. server' # "up" => pc'["catchup"] = "idle"
    BY <1>17 DEF Crash, HoldInv, Threads, Workers, TypeOK
  <2>5. UNCHANGED <<occ, effects>>
    BY <1>17 DEF Crash
  <2> QED
    BY <2>1, <2>2, <2>4, <2>5, HoldQuiet
<1>18. ASSUME Recover PROVE HoldInv'
  <2>1. \A t \in Threads : pc'[t] = "idle"
    BY <1>18 DEF Recover, DownInv
  <2>2. \A i \in Items : occ'[i] \in {"none", "claimed"} => occ[i] = "none"
    BY <1>18 DEF Recover, Recovered, TypeOK
  <2> QED
    BY <1>18, <2>1, <2>2 DEF Recover, HoldInv, Holders, Threads, Workers
<1>19. ASSUME LoadJobs PROVE HoldInv'
  <2>1. \A t \in Threads : pc'[t] \in Holders => pc'[t] = pc[t]
    BY <1>19 DEF LoadJobs, Holders, TypeOK
  <2>2. \A t \in Threads : ItemOf(t)' = ItemOf(t)
    BY <1>19 DEF LoadJobs, ItemOf
  <2>4. server' # "up" => pc'["catchup"] = "idle"
    BY <1>19 DEF LoadJobs, HoldInv, Threads, Workers, TypeOK
  <2>5. UNCHANGED <<occ, effects>>
    BY <1>19 DEF LoadJobs
  <2> QED
    BY <2>1, <2>2, <2>4, <2>5, HoldQuiet
<1>20. ASSUME QueueCatchUp PROVE HoldInv'
  <2>1. PICK t \in 1..MaxTime : /\ occ[<<def, t>>] = "none"
                                /\ occ' = [occ EXCEPT ![<<def, t>>] = "claimed"]
                                /\ key' = [key EXCEPT !["catchup"] = <<def, t>>]
    BY <1>20 DEF QueueCatchUp, Unclaimed
  <2>2. PICK k \in Keys : k = <<def, t>>
    BY DEF Keys, TypeOK
  <2>3. /\ occ[k] = "none" /\ occ' = [occ EXCEPT ![k] = "claimed"]
        /\ key' = [key EXCEPT !["catchup"] = k] /\ k \in Items
    BY <2>1, <2>2 DEF Items
  <2>4. "catchup" \in Workers /\ "catchup" \in Threads /\ "catchup" \notin Requests
    BY NamesAssumption DEF Workers, Threads
  <2>5. ItemOf("catchup")' = k
    BY <2>3, <2>4 DEF ItemOf, TypeOK
  <2>6. \A u \in Threads \ {"catchup"} : ItemOf(u)' = ItemOf(u) /\ pc'[u] = pc[u]
    BY <1>20, <2>3 DEF QueueCatchUp, Goto, ItemOf, Threads, TypeOK
  <2>7. \A u \in Threads \ {"catchup"} : pc[u] \in Holders => ItemOf(u) # k
    BY <2>3 DEF HoldInv, Holders
  <2>8. \A j \in Items \ {k} : occ'[j] = occ[j]
    BY <2>3 DEF TypeOK
  <2>9. /\ occ'[k] = "claimed" /\ pc'["catchup"] = "begin" /\ effects' = effects
        /\ server' = "up" /\ effects[k] = 0
    BY <1>20, <2>3, <2>4 DEF QueueCatchUp, Goto, HoldInv, TypeOK
  <2>10. \A u \in Threads : ItemOf(u) \in Items
    BY ItemTyped
  <2> QED
    BY <2>3, <2>5, <2>6, <2>7, <2>8, <2>9, <2>10 DEF HoldInv, Holders
<1>21. ASSUME NoCatchUp PROVE HoldInv'
  <2>1. \A t \in Threads : pc'[t] \in Holders => pc'[t] = pc[t]
    BY <1>21 DEF NoCatchUp, Holders, TypeOK
  <2>2. \A t \in Threads : ItemOf(t)' = ItemOf(t)
    BY <1>21 DEF NoCatchUp, ItemOf
  <2>4. server' # "up" => pc'["catchup"] = "idle"
    BY <1>21 DEF NoCatchUp, HoldInv, Threads, Workers, TypeOK
  <2>5. UNCHANGED <<occ, effects>>
    BY <1>21 DEF NoCatchUp
  <2> QED
    BY <2>1, <2>2, <2>4, <2>5, HoldQuiet
<1>22. CASE UNCHANGED vars
  <2>1. \A t \in Threads : ItemOf(t)' = ItemOf(t)
    BY <1>22 DEF vars, ItemOf
  <2> QED
    BY <1>22, <2>1 DEF vars, HoldInv
<1>23. ASSUME NEW t \in Threads, Execute(t) PROVE HoldInv'
  BY <1>23, <1>7, <1>8, <1>9, <1>10, <1>11 DEF Execute
<1>24. ASSUME Firing PROVE HoldInv'
  BY <1>24, <1>3, <1>4, <1>5, <1>6 DEF Firing
<1>25. ASSUME Start PROVE HoldInv'
  BY <1>25, <1>18, <1>19, <1>20, <1>21 DEF Start
<1>26. ASSUME Edit PROVE HoldInv'
  BY <1>26, <1>13, <1>14, <1>15, <1>16 DEF Edit
<1> QED
  BY <1>1, <1>2, <1>12, <1>17, <1>22, <1>23, <1>24, <1>25, <1>26 DEF Next

LEMMA HoldInit == Init => DownInv /\ HoldInv
<1>1. Init => job = NoJob /\ ~due /\ pc = [t \in Threads |-> "idle"]
  BY Zenon DEF Init
<1>2. Init => occ = [i \in Items |-> "none"] /\ effects = [i \in Items |-> 0]
  BY DEF Init
<1> QED
  BY <1>1, <1>2 DEF DownInv, HoldInv, Holders, Threads, Workers

LEMMA HoldInductive == Spec => [](TypeOK /\ DownInv /\ HoldInv)
<1>1. TypeOK /\ DownInv /\ HoldInv /\ [Next]_vars => (TypeOK /\ DownInv /\ HoldInv)'
  BY TypeStep, DownStep, HoldStep
<1> QED
  BY <1>1, TypeInit, HoldInit, PTL DEF Spec

-----------------------------------------------------------------------------
LEMMA LedgerInit == Init => Ledger!Init
BY DEF Init, Ledger!Init, Phase

\* A step that leaves the rows and the effects alone is a stutter of the ledger.
LEMMA LedgerStutter ==
    ASSUME UNCHANGED <<occ, effects>> PROVE UNCHANGED Ledger!vars
BY DEF Ledger!vars, Phase

\* A step that ends one open occurrence settles it.
LEMMA LedgerSettle ==
    ASSUME TypeOK, NEW i \in Items, occ[i] \in {"claimed", "running"},
           occ' = [occ EXCEPT ![i] = "ended"], effects' = effects
    PROVE  Ledger!Next
<1>1. Phase(i) = "claimed" /\ Phase(i)' = "settled"
  BY DEF Phase, TypeOK
<1>2. \A j \in Items \ {i} : Phase(j)' = Phase(j)
  BY DEF Phase, TypeOK
<1>3. Ledger!Settle({i})
  BY <1>1, <1>2 DEF Ledger!Settle
<1> QED
  BY <1>3 DEF Ledger!Next

\* A step that inserts one row claims it.
LEMMA LedgerClaim ==
    ASSUME TypeOK, NEW i \in Items, occ[i] = "none",
           occ' = [occ EXCEPT ![i] = "claimed"], effects' = effects
    PROVE  Ledger!Next
<1>1. Phase(i) = "waiting" /\ Phase(i)' = "claimed"
  BY DEF Phase, TypeOK
<1>2. \A j \in Items \ {i} : Phase(j)' = Phase(j)
  BY DEF Phase, TypeOK
<1>3. Ledger!Claim(i)
  BY <1>1, <1>2 DEF Ledger!Claim
<1> QED
  BY <1>3 DEF Ledger!Next

LEMMA LedgerStep ==
    TypeOK /\ DownInv /\ HoldInv /\ [Next]_vars => [Ledger!Next]_(Ledger!vars)
<1> SUFFICES ASSUME TypeOK, DownInv, HoldInv, [Next]_vars
             PROVE  Ledger!Next \/ UNCHANGED Ledger!vars
  OBVIOUS
<1> USE DEF rows, jobs, claims, trace
<1>1. ASSUME Tick PROVE Ledger!Next \/ UNCHANGED Ledger!vars
  BY <1>1, LedgerStutter DEF Tick
<1>2. ASSUME Fire PROVE Ledger!Next \/ UNCHANGED Ledger!vars
  BY <1>2, LedgerStutter DEF Fire
<1>3. ASSUME ReadSchedule PROVE Ledger!Next \/ UNCHANGED Ledger!vars
  BY <1>3, LedgerStutter DEF ReadSchedule
<1>4. ASSUME EnsureResets PROVE Ledger!Next \/ UNCHANGED Ledger!vars
  BY <1>4, LedgerStutter DEF EnsureResets
<1>5. ASSUME EnsureSkill PROVE Ledger!Next \/ UNCHANGED Ledger!vars
  BY <1>5, LedgerStutter DEF EnsureSkill
<1>6. ASSUME EnsurePlatform PROVE Ledger!Next \/ UNCHANGED Ledger!vars
  BY <1>6, LedgerStutter DEF EnsurePlatform
<1>7. ASSUME NEW t \in Threads, Claim(t) PROVE Ledger!Next \/ UNCHANGED Ledger!vars
  <2>1. PICK i \in Items : i = ItemOf(t)
    BY ItemTyped
  <2>2. CASE occ[i] = "none"
    BY <1>7, <2>1, <2>2, LedgerClaim DEF Claim, Unclaimed
  <2>3. CASE occ[i] # "none"
    BY <1>7, <2>1, <2>3, LedgerStutter DEF Claim, Unclaimed
  <2> QED
    BY <2>2, <2>3
<1>8. ASSUME NEW t \in Threads, Begin(t) PROVE Ledger!Next \/ UNCHANGED Ledger!vars
  <2>1. PICK i \in Items : i = ItemOf(t)
    BY ItemTyped
  <2>2. occ[i] = "claimed" /\ effects' = effects
    BY <1>8, <2>1 DEF Begin, HoldInv
  <2>3. CASE Inactive(t)
    BY <1>8, <2>1, <2>2, <2>3, LedgerSettle DEF Begin
  <2>4. CASE ~Inactive(t)
    <3>1. Phase(i)' = Phase(i) /\ \A j \in Items \ {i} : Phase(j)' = Phase(j)
      BY <1>8, <2>1, <2>2, <2>4 DEF Begin, Phase, TypeOK
    <3> QED
      BY <2>2, <3>1 DEF Ledger!vars
  <2> QED
    BY <2>3, <2>4
<1>9. ASSUME NEW t \in Threads, Invoke(t) PROVE Ledger!Next \/ UNCHANGED Ledger!vars
  <2>1. PICK i \in Items : i = ItemOf(t)
    BY ItemTyped
  <2>2. pc[t] = "invoke" /\ occ' = occ /\ effects' = [effects EXCEPT ![i] = @ + 1]
    BY <1>9, <2>1 DEF Invoke
  <2>3. Phase(i) = "claimed" /\ effects[i] = 0
    BY <2>1, <2>2 DEF HoldInv, Phase
  <2>4. effects' = [effects EXCEPT ![i] = 1]
    BY <2>2, <2>3 DEF TypeOK
  <2>5. \A j \in Items : Phase(j)' = Phase(j)
    BY <2>2 DEF Phase
  <2>6. Ledger!Perform(i)
    BY <2>3, <2>4, <2>5 DEF Ledger!Perform
  <2> QED
    BY <2>6 DEF Ledger!Next
<1>10. ASSUME NEW t \in Threads, Blocked(t) PROVE Ledger!Next \/ UNCHANGED Ledger!vars
  <2>1. PICK i \in Items : i = ItemOf(t)
    BY ItemTyped
  <2>2. /\ pc[t] = "invoke" /\ effects' = effects
        /\ occ' = [occ EXCEPT ![i] = "ended"]
    BY <1>10, <2>1 DEF Blocked
  <2> QED
    BY <2>1, <2>2, LedgerSettle DEF HoldInv
<1>11. ASSUME NEW t \in Threads, Finish(t) PROVE Ledger!Next \/ UNCHANGED Ledger!vars
  <2>1. PICK i \in Items : i = ItemOf(t)
    BY ItemTyped
  <2>2. /\ pc[t] = "work" /\ effects' = effects
        /\ occ' = [occ EXCEPT ![i] = "ended"]
    BY <1>11, <2>1 DEF Finish
  <2> QED
    BY <2>1, <2>2, LedgerSettle DEF HoldInv
<1>12. ASSUME NEW r \in Requests, RunNow(r) PROVE Ledger!Next \/ UNCHANGED Ledger!vars
  BY <1>12, LedgerStutter DEF RunNow
<1>13. ASSUME Enable PROVE Ledger!Next \/ UNCHANGED Ledger!vars
  BY <1>13, LedgerStutter DEF Enable, EditStep
<1>14. ASSUME Disable PROVE Ledger!Next \/ UNCHANGED Ledger!vars
  BY <1>14, LedgerStutter DEF Disable, EditStep
<1>15. ASSUME NEW d \in Definitions, Update(d) PROVE Ledger!Next \/ UNCHANGED Ledger!vars
  BY <1>15, LedgerStutter DEF Update, EditStep
<1>16. ASSUME Rename PROVE Ledger!Next \/ UNCHANGED Ledger!vars
  BY <1>16, LedgerStutter DEF Rename, EditStep
<1>17. ASSUME Crash PROVE Ledger!Next \/ UNCHANGED Ledger!vars
  BY <1>17, LedgerStutter DEF Crash
<1>18. ASSUME Recover PROVE Ledger!Next \/ UNCHANGED Ledger!vars
  <2> DEFINE S == {i \in Items : occ[i] \in {"claimed", "running"}}
  <2>1. \A i \in S : Phase(i) = "claimed" /\ Phase(i)' = "settled"
    BY <1>18 DEF Recover, Recovered, Phase
  <2>2. \A i \in Items \ S : Phase(i)' = Phase(i)
    BY <1>18 DEF Recover, Recovered, Phase
  <2>3. effects' = effects /\ S \in SUBSET Items
    BY <1>18 DEF Recover
  <2>4. Ledger!Settle(S)
    BY <2>1, <2>2, <2>3 DEF Ledger!Settle
  <2> QED
    BY <2>3, <2>4 DEF Ledger!Next
<1>19. ASSUME LoadJobs PROVE Ledger!Next \/ UNCHANGED Ledger!vars
  BY <1>19, LedgerStutter DEF LoadJobs
<1>20. ASSUME QueueCatchUp PROVE Ledger!Next \/ UNCHANGED Ledger!vars
  <2>1. PICK t \in 1..MaxTime : /\ occ[<<def, t>>] = "none"
                                /\ occ' = [occ EXCEPT ![<<def, t>>] = "claimed"]
    BY <1>20 DEF QueueCatchUp, Unclaimed
  <2>2. PICK i \in Items : i = <<def, t>>
    BY DEF Items, Keys, TypeOK
  <2>3. effects' = effects
    BY <1>20 DEF QueueCatchUp
  <2> QED
    BY <2>1, <2>2, <2>3, LedgerClaim
<1>21. ASSUME NoCatchUp PROVE Ledger!Next \/ UNCHANGED Ledger!vars
  BY <1>21, LedgerStutter DEF NoCatchUp
<1>22. CASE UNCHANGED vars
  BY <1>22, LedgerStutter DEF vars
<1>23. ASSUME NEW t \in Threads, Execute(t) PROVE Ledger!Next \/ UNCHANGED Ledger!vars
  BY <1>23, <1>7, <1>8, <1>9, <1>10, <1>11 DEF Execute
<1>24. ASSUME Firing PROVE Ledger!Next \/ UNCHANGED Ledger!vars
  BY <1>24, <1>3, <1>4, <1>5, <1>6 DEF Firing
<1>25. ASSUME Start PROVE Ledger!Next \/ UNCHANGED Ledger!vars
  BY <1>25, <1>18, <1>19, <1>20, <1>21 DEF Start
<1>26. ASSUME Edit PROVE Ledger!Next \/ UNCHANGED Ledger!vars
  BY <1>26, <1>13, <1>14, <1>15, <1>16 DEF Edit
<1> QED
  BY <1>1, <1>2, <1>12, <1>17, <1>22, <1>23, <1>24, <1>25, <1>26 DEF Next

\* The occurrences implement the ledger of effects: each intended time and each Run Now
\* is claimed once and invoked at most once, whatever claims it and whenever the process
\* dies.
THEOREM ImplementsLedger == Spec => LedgerSpec
<1>1. TypeOK /\ DownInv /\ HoldInv /\ [Next]_vars => [Ledger!Next]_(Ledger!vars)
  BY LedgerStep
<1> QED
  BY <1>1, LedgerInit, HoldInductive, PTL DEF Spec, LedgerSpec, Ledger!Spec

-----------------------------------------------------------------------------
\* The definition in force since a time, up to now.
InForce(d, from) == \A t \in 1..MaxTime : from < t /\ t <= now => inForce[t] = {d}
\* An occurrence whose time has passed while its definition was in force.
Passed(k) ==
    \A d \in Definitions, t \in 1..MaxTime : k = <<d, t>> => t <= now /\ inForce[t] = {d}

\* The state's activation bounds a period of its fingerprint, provided the fingerprint
\* is the schedule's; a firing that goes on with what it read finds it so.
PeriodInv ==
    /\ kind = "platform" => fp = def
    /\ enabled /\ fp = def => InForce(def, since)
    /\ pc["auto"] = "ensure" /\ fp = seen /\ since # Never => enabled /\ def = seen

\* Hence what is to be claimed, and what was, passed in force.
ClaimInv ==
    /\ pc["auto"] = "claim" => Passed(key["auto"])
    /\ pc["catchup"] # "claim"
    /\ \A k \in Keys : occ[k] # "none" => Passed(k)

LEMMA PeriodStep == TypeOK /\ DownInv /\ PeriodInv /\ [Next]_vars => PeriodInv'
<1> SUFFICES ASSUME TypeOK, DownInv, PeriodInv, [Next]_vars PROVE PeriodInv'
  OBVIOUS
<1> USE BoundsAssumption DEF PeriodInv, InForce, rows, jobs, claims, trace, Never, Workers, Threads
<1>1. ASSUME Tick PROVE PeriodInv'
  BY <1>1 DEF Tick, Goto, TypeOK
<1>2. ASSUME Fire PROVE PeriodInv'
  BY <1>2 DEF Fire, Goto, TypeOK
<1>3. ASSUME ReadSchedule PROVE PeriodInv'
  BY <1>3 DEF ReadSchedule, Goto, TypeOK
<1>4. ASSUME EnsureResets PROVE PeriodInv'
  BY <1>4 DEF EnsureResets, ResetState, Mismatch, Goto, TypeOK
<1>5. ASSUME EnsureSkill PROVE PeriodInv'
  BY <1>5 DEF EnsureSkill, ClaimLatest, Goto, TypeOK
<1>6. ASSUME EnsurePlatform PROVE PeriodInv'
  BY <1>6 DEF EnsurePlatform, ClaimLatest, Goto, TypeOK
<1>7. ASSUME NEW t \in Threads, Claim(t) PROVE PeriodInv'
  BY <1>7 DEF Claim, Goto, TypeOK
<1>8. ASSUME NEW t \in Threads, Begin(t) PROVE PeriodInv'
  BY <1>8 DEF Begin, Goto, TypeOK
<1>9. ASSUME NEW t \in Threads, Invoke(t) PROVE PeriodInv'
  BY <1>9 DEF Invoke, Goto, TypeOK
<1>10. ASSUME NEW t \in Threads, Blocked(t) PROVE PeriodInv'
  BY <1>10 DEF Blocked, Goto, TypeOK
<1>11. ASSUME NEW t \in Threads, Finish(t) PROVE PeriodInv'
  BY <1>11 DEF Finish, Goto, TypeOK
<1>12. ASSUME NEW r \in Requests, RunNow(r) PROVE PeriodInv'
  BY <1>12 DEF RunNow, Goto, TypeOK
<1>13. ASSUME Enable PROVE PeriodInv'
  BY <1>13 DEF Enable, EditStep, Activate, Goto, TypeOK
<1>14. ASSUME Disable PROVE PeriodInv'
  BY <1>14 DEF Disable, EditStep, Goto, TypeOK
<1>15. ASSUME NEW d \in Definitions, Update(d) PROVE PeriodInv'
  BY <1>15 DEF Update, EditStep, Activate, Goto, TypeOK
<1>16. ASSUME Rename PROVE PeriodInv'
  BY <1>16 DEF Rename, EditStep, Goto, TypeOK
<1>17. ASSUME Crash PROVE PeriodInv'
  BY <1>17 DEF Crash, Goto, TypeOK
<1>18. ASSUME Recover PROVE PeriodInv'
  BY <1>18 DEF Recover, Goto, TypeOK
<1>19. ASSUME LoadJobs PROVE PeriodInv'
  BY <1>19 DEF LoadJobs, ResetState, StaleState, Mismatch, Goto, TypeOK
<1>20. ASSUME QueueCatchUp PROVE PeriodInv'
  BY <1>20 DEF QueueCatchUp, Goto, TypeOK
<1>21. ASSUME NoCatchUp PROVE PeriodInv'
  BY <1>21 DEF NoCatchUp, ResetState, StaleState, Mismatch, Goto, TypeOK
<1>22. CASE UNCHANGED vars
  BY <1>22 DEF vars
<1>23. ASSUME NEW t \in Threads, Execute(t) PROVE PeriodInv'
  BY <1>23, <1>7, <1>8, <1>9, <1>10, <1>11 DEF Execute
<1>24. ASSUME Firing PROVE PeriodInv'
  BY <1>24, <1>3, <1>4, <1>5, <1>6 DEF Firing
<1>25. ASSUME Start PROVE PeriodInv'
  BY <1>25, <1>18, <1>19, <1>20, <1>21 DEF Start
<1>26. ASSUME Edit PROVE PeriodInv'
  BY <1>26, <1>13, <1>14, <1>15, <1>16 DEF Edit
<1> QED
  BY <1>1, <1>2, <1>12, <1>17, <1>22, <1>23, <1>24, <1>25, <1>26 DEF Next

\* What a firing takes as the latest due instant has passed in force.
LEMMA LatestPassed ==
    ASSUME TypeOK, NEW d \in Definitions, NEW t \in 1..MaxTime, NEW to \in 0..now,
           IsLatest(t, d, since, to), InForce(d, since)
    PROVE  Passed(<<d, t>>)
<1>1. t > since /\ t <= now
  BY LatestIsDue DEF TypeOK
<1> QED
  BY <1>1 DEF InForce, Passed

\* A step keeps it that inserts no row and takes the job's thread to no claim.
LEMMA ClaimQuiet ==
    ASSUME ClaimInv, UNCHANGED <<now, inForce>>,
           pc'["auto"] = "claim" => pc["auto"] = "claim" /\ key'["auto"] = key["auto"],
           pc'["catchup"] # "claim",
           \A k \in Keys : occ'[k] # "none" => occ[k] # "none"
    PROVE  ClaimInv'
<1>1. \A k : Passed(k) => Passed(k)'
  BY DEF Passed
<1> QED
  BY <1>1 DEF ClaimInv

\* So does one that looks for the latest due instant of the definition in force.
LEMMA ClaimChosen ==
    ASSUME TypeOK, ClaimInv, NEW d \in Definitions, InForce(d, since),
           UNCHANGED <<now, inForce, occ>>, ClaimLatest("auto", d, now)
    PROVE  ClaimInv'
<1>0. "auto" \in Threads /\ "catchup" \in Threads /\ "auto" # "catchup"
  BY DEF Threads, Workers
<1>1. CASE \E t \in 1..MaxTime : /\ IsLatest(t, d, since, now)
                                 /\ key' = [key EXCEPT !["auto"] = <<d, t>>]
                                 /\ Goto("auto", "claim")
  <2>1. PICK t \in 1..MaxTime : /\ IsLatest(t, d, since, now)
                                /\ key' = [key EXCEPT !["auto"] = <<d, t>>]
                                /\ Goto("auto", "claim")
    BY <1>1
  <2>2. Passed(<<d, t>>)
    BY <2>1, LatestPassed DEF TypeOK
  <2>3. PICK k : k = <<d, t>>
    OBVIOUS
  <2>4. key'["auto"] = k /\ pc'["catchup"] = pc["catchup"]
    BY <1>0, <2>1, <2>3 DEF Goto, TypeOK, Workers
  <2>5. Passed(k)' /\ \A j : Passed(j) => Passed(j)'
    BY <2>2, <2>3 DEF Passed
  <2> QED
    BY <2>4, <2>5 DEF ClaimInv
<1>2. CASE Goto("auto", "idle") /\ UNCHANGED key
  BY <1>0, <1>2, ClaimQuiet DEF Goto, ClaimInv, TypeOK
<1> QED
  BY <1>1, <1>2 DEF ClaimLatest

LEMMA ClaimStep ==
    TypeOK /\ DownInv /\ HoldInv /\ PeriodInv /\ ClaimInv /\ [Next]_vars => ClaimInv'
<1> SUFFICES ASSUME TypeOK, DownInv, HoldInv, PeriodInv, ClaimInv, [Next]_vars
             PROVE  ClaimInv'
  OBVIOUS
<1> USE DEF rows, jobs, claims, trace
<1>0. "auto" \in Threads /\ "catchup" \in Threads /\ "auto" # "catchup"
  BY DEF Threads, Workers
<1>1. ASSUME Tick PROVE ClaimInv'
  <2>1. \A k : Passed(k) => Passed(k)'
    BY <1>1, BoundsAssumption DEF Tick, Passed, TypeOK
  <2> QED
    BY <1>1, <2>1 DEF Tick, ClaimInv
<1>2. ASSUME Fire PROVE ClaimInv'
  <2>1. UNCHANGED <<now, inForce, key, occ>>
    BY <1>2 DEF Fire
  <2>2. pc'["auto"] = "claim" => pc["auto"] = "claim"
    BY <1>2, <1>0 DEF Fire, Goto, TypeOK
  <2>3. pc'["catchup"] # "claim"
    BY <1>2, <1>0 DEF Fire, Goto, TypeOK, ClaimInv
  <2> QED
    BY <2>1, <2>2, <2>3, ClaimQuiet
<1>3. ASSUME ReadSchedule PROVE ClaimInv'
  <2>1. UNCHANGED <<now, inForce, key, occ>>
    BY <1>3 DEF ReadSchedule
  <2>2. pc'["auto"] = "claim" => pc["auto"] = "claim"
    BY <1>3, <1>0 DEF ReadSchedule, Goto, TypeOK
  <2>3. pc'["catchup"] # "claim"
    BY <1>3, <1>0 DEF ReadSchedule, Goto, TypeOK, ClaimInv
  <2> QED
    BY <2>1, <2>2, <2>3, ClaimQuiet
<1>4. ASSUME EnsureResets PROVE ClaimInv'
  <2>1. UNCHANGED <<now, inForce, key, occ>>
    BY <1>4 DEF EnsureResets
  <2>2. pc'["auto"] = "claim" => pc["auto"] = "claim"
    BY <1>4, <1>0 DEF EnsureResets, Goto, TypeOK
  <2>3. pc'["catchup"] # "claim"
    BY <1>4, <1>0 DEF EnsureResets, Goto, TypeOK, ClaimInv
  <2> QED
    BY <2>1, <2>2, <2>3, ClaimQuiet
<1>5. ASSUME EnsureSkill PROVE ClaimInv'
  <2>1. InForce(seen, since) /\ seen \in Definitions
    BY <1>5 DEF EnsureSkill, Mismatch, PeriodInv, TypeOK
  <2>2. ClaimLatest("auto", seen, now) /\ UNCHANGED <<occ, now, inForce>>
    BY <1>5 DEF EnsureSkill
  <2> QED
    BY <2>1, <2>2, ClaimChosen
<1>6. ASSUME EnsurePlatform PROVE ClaimInv'
  <2>1. CASE enabled
    <3>1. InForce(def, since) /\ def \in Definitions
      BY <1>6, <2>1 DEF EnsurePlatform, PeriodInv, TypeOK
    <3>2. ClaimLatest("auto", def, now) /\ UNCHANGED <<occ, now, inForce>>
      BY <1>6, <2>1 DEF EnsurePlatform
    <3> QED
      BY <3>1, <3>2, ClaimChosen
  <2>2. CASE ~enabled
    BY <1>6, <1>0, <2>2, ClaimQuiet DEF EnsurePlatform, Goto, ClaimInv, TypeOK
  <2> QED
    BY <2>1, <2>2
<1>7. ASSUME NEW t \in Threads, Claim(t) PROVE ClaimInv'
  <2>1. UNCHANGED <<now, inForce, key>> /\ pc'["auto"] \in {pc["auto"], "begin", "idle"}
    BY <1>7, <1>0 DEF Claim, Goto, TypeOK
  <2>2. pc'["catchup"] # "claim"
    BY <1>7, <1>0 DEF Claim, Goto, ClaimInv, TypeOK
  <2>3. \A k : Passed(k) => Passed(k)'
    BY <2>1 DEF Passed
  <2>4. ItemOf(t) \in Keys => Passed(ItemOf(t))
    BY <1>7, NamesAssumption DEF Claim, ClaimInv, ItemOf, Threads, Workers
  <2>5. PICK i \in Items : i = ItemOf(t)
    BY ItemTyped
  <2>6. \A k \in Keys : occ'[k] # "none" => k = i \/ occ[k] # "none"
    BY <1>7, <2>5 DEF Claim, Items, TypeOK
  <2> QED
    BY <2>1, <2>2, <2>3, <2>4, <2>5, <2>6 DEF ClaimInv
<1>8. ASSUME NEW t \in Threads, Begin(t) PROVE ClaimInv'
  <2>1. PICK i \in Items : i = ItemOf(t)
    BY ItemTyped
  <2>2. occ[i] # "none" /\ pc[t] \in Holders
    BY <1>8, <2>1 DEF Begin, HoldInv, Holders
  <2>3. \A k \in Keys : occ'[k] # "none" => occ[k] # "none"
    <3>1. \A k \in Items : k # i => occ'[k] = occ[k]
      BY <1>8, <2>1 DEF Begin, TypeOK
    <3> QED
      BY <2>2, <3>1 DEF Items
  <2>4. UNCHANGED <<now, inForce, key>> /\ \A u \in Threads : pc'[u] = "claim" => pc[u] = "claim"
    BY <1>8 DEF Begin, Goto, TypeOK
  <2> QED
    BY <1>0, <2>3, <2>4, ClaimQuiet DEF ClaimInv
<1>9. ASSUME NEW t \in Threads, Invoke(t) PROVE ClaimInv'
  <2>1. PICK i \in Items : i = ItemOf(t)
    BY ItemTyped
  <2>2. occ[i] # "none" /\ pc[t] \in Holders
    BY <1>9, <2>1 DEF Invoke, HoldInv, Holders
  <2>3. \A k \in Keys : occ'[k] # "none" => occ[k] # "none"
    BY <1>9, <2>1, <2>2 DEF Invoke, TypeOK
  <2>4. UNCHANGED <<now, inForce, key>> /\ \A u \in Threads : pc'[u] = "claim" => pc[u] = "claim"
    BY <1>9 DEF Invoke, Goto, TypeOK
  <2> QED
    BY <1>0, <2>3, <2>4, ClaimQuiet DEF ClaimInv
<1>10. ASSUME NEW t \in Threads, Blocked(t) PROVE ClaimInv'
  <2>1. PICK i \in Items : i = ItemOf(t)
    BY ItemTyped
  <2>2. occ[i] # "none" /\ pc[t] \in Holders
    BY <1>10, <2>1 DEF Blocked, HoldInv, Holders
  <2>3. \A k \in Keys : occ'[k] # "none" => occ[k] # "none"
    BY <1>10, <2>1, <2>2 DEF Blocked, TypeOK
  <2>4. UNCHANGED <<now, inForce, key>> /\ \A u \in Threads : pc'[u] = "claim" => pc[u] = "claim"
    BY <1>10 DEF Blocked, Goto, TypeOK
  <2> QED
    BY <1>0, <2>3, <2>4, ClaimQuiet DEF ClaimInv
<1>11. ASSUME NEW t \in Threads, Finish(t) PROVE ClaimInv'
  <2>1. PICK i \in Items : i = ItemOf(t)
    BY ItemTyped
  <2>2. occ[i] # "none" /\ pc[t] \in Holders
    BY <1>11, <2>1 DEF Finish, HoldInv, Holders
  <2>3. \A k \in Keys : occ'[k] # "none" => occ[k] # "none"
    BY <1>11, <2>1, <2>2 DEF Finish, TypeOK
  <2>4. UNCHANGED <<now, inForce, key>> /\ \A u \in Threads : pc'[u] = "claim" => pc[u] = "claim"
    BY <1>11 DEF Finish, Goto, TypeOK
  <2> QED
    BY <1>0, <2>3, <2>4, ClaimQuiet DEF ClaimInv
<1>12. ASSUME NEW r \in Requests, RunNow(r) PROVE ClaimInv'
  <2>1. UNCHANGED <<now, inForce, key, occ>> /\ \A w \in Workers : pc'[w] = pc[w]
    BY <1>12, NamesAssumption DEF RunNow, Goto, TypeOK, Threads
  <2> QED
    BY <2>1, ClaimQuiet DEF ClaimInv, Workers
<1>13. ASSUME Enable PROVE ClaimInv'
  BY <1>13, ClaimQuiet DEF Enable, EditStep, ClaimInv
<1>14. ASSUME Disable PROVE ClaimInv'
  BY <1>14, ClaimQuiet DEF Disable, EditStep, ClaimInv
<1>15. ASSUME NEW d \in Definitions, Update(d) PROVE ClaimInv'
  BY <1>15, ClaimQuiet DEF Update, EditStep, ClaimInv
<1>16. ASSUME Rename PROVE ClaimInv'
  BY <1>16, ClaimQuiet DEF Rename, EditStep, ClaimInv
<1>17. ASSUME Crash PROVE ClaimInv'
  <2>1. UNCHANGED <<now, inForce, key, occ>>
    BY <1>17 DEF Crash
  <2>2. pc'["auto"] = "claim" => pc["auto"] = "claim"
    BY <1>17, <1>0 DEF Crash, TypeOK
  <2>3. pc'["catchup"] # "claim"
    BY <1>17, <1>0 DEF Crash, TypeOK, ClaimInv
  <2> QED
    BY <2>1, <2>2, <2>3, ClaimQuiet
<1>18. ASSUME Recover PROVE ClaimInv'
  <2>1. \A k \in Keys : occ'[k] # "none" => occ[k] # "none"
    BY <1>18 DEF Recover, Recovered, Items
  <2> QED
    BY <1>18, <2>1, ClaimQuiet DEF Recover, ClaimInv
<1>19. ASSUME LoadJobs PROVE ClaimInv'
  <2>1. UNCHANGED <<now, inForce, key, occ>>
    BY <1>19 DEF LoadJobs
  <2>2. pc'["auto"] = "claim" => pc["auto"] = "claim"
    BY <1>19, <1>0 DEF LoadJobs, TypeOK
  <2>3. pc'["catchup"] # "claim"
    BY <1>19, <1>0 DEF LoadJobs, TypeOK, ClaimInv
  <2> QED
    BY <2>1, <2>2, <2>3, ClaimQuiet
<1>20. ASSUME QueueCatchUp PROVE ClaimInv'
  <2>1. PICK t \in 1..MaxTime : /\ IsLatest(t, def, since, startAt)
                                /\ occ' = [occ EXCEPT ![<<def, t>>] = "claimed"]
                                /\ key' = [key EXCEPT !["catchup"] = <<def, t>>]
    BY <1>20 DEF QueueCatchUp
  <2>2. InForce(def, since)
    BY <1>20, KindsAssumption
    DEF QueueCatchUp, CatchUpDue, StaleState, Mismatch, PeriodInv, TypeOK
  <2>3. Passed(<<def, t>>)
    BY <2>1, <2>2, LatestPassed DEF TypeOK
  <2>4. PICK k \in Keys : k = <<def, t>>
    BY DEF Keys, TypeOK
  <2>5. UNCHANGED <<now, inForce>> /\ pc'["auto"] = pc["auto"] /\ pc'["catchup"] # "claim"
    BY <1>20, <1>0 DEF QueueCatchUp, Goto, TypeOK
  <2>6. \A j : Passed(j) => Passed(j)'
    BY <2>5 DEF Passed
  <2>7. Passed(k) /\ occ' = [occ EXCEPT ![k] = "claimed"] /\ key'["auto"] = key["auto"]
    BY <2>1, <2>3, <2>4 DEF TypeOK
  <2>8. \A j \in Keys : occ'[j] # "none" => j = k \/ occ[j] # "none"
    BY <2>7 DEF TypeOK
  <2> QED
    BY <2>5, <2>6, <2>7, <2>8 DEF ClaimInv
<1>21. ASSUME NoCatchUp PROVE ClaimInv'
  <2>1. UNCHANGED <<now, inForce, key, occ>>
    BY <1>21 DEF NoCatchUp
  <2>2. pc'["auto"] = "claim" => pc["auto"] = "claim"
    BY <1>21, <1>0 DEF NoCatchUp, TypeOK
  <2>3. pc'["catchup"] # "claim"
    BY <1>21, <1>0 DEF NoCatchUp, TypeOK, ClaimInv
  <2> QED
    BY <2>1, <2>2, <2>3, ClaimQuiet
<1>22. CASE UNCHANGED vars
  BY <1>22, ClaimQuiet DEF vars, ClaimInv
<1>23. ASSUME NEW t \in Threads, Execute(t) PROVE ClaimInv'
  BY <1>23, <1>7, <1>8, <1>9, <1>10, <1>11 DEF Execute
<1>24. ASSUME Firing PROVE ClaimInv'
  BY <1>24, <1>3, <1>4, <1>5, <1>6 DEF Firing
<1>25. ASSUME Start PROVE ClaimInv'
  BY <1>25, <1>18, <1>19, <1>20, <1>21 DEF Start
<1>26. ASSUME Edit PROVE ClaimInv'
  BY <1>26, <1>13, <1>14, <1>15, <1>16 DEF Edit
<1> QED
  BY <1>1, <1>2, <1>12, <1>17, <1>22, <1>23, <1>24, <1>25, <1>26 DEF Next

\* An intended time is claimed only if the service was enabled with that very definition
\* when it passed, through any edits, restarts and late firings.
THEOREM NothingBackfilled == Spec => []NoBackfill
<1>1. Init => PeriodInv /\ ClaimInv
  <2>1. Init => \A t \in Threads : pc[t] = "idle"
    BY DEF Init
  <2>2. Init => \A k \in Keys : occ[k] = "none"
    BY DEF Init, Items
  <2>3. Init => fp = def /\ now = 0
    BY DEF Init
  <2>4. Init => since \in 0..Never
    BY BoundsAssumption DEF Init, Never
  <2> QED
    BY <2>1, <2>2, <2>3, <2>4, BoundsAssumption
    DEF PeriodInv, ClaimInv, InForce, Threads, Workers, Never
<1>2. TypeOK /\ DownInv /\ HoldInv /\ PeriodInv /\ ClaimInv /\ [Next]_vars
      => PeriodInv' /\ ClaimInv'
  BY PeriodStep, ClaimStep
<1>3. ClaimInv => NoBackfill
  BY DEF ClaimInv, Passed, NoBackfill, Keys
<1> QED
  BY <1>1, <1>2, <1>3, HoldInductive, PTL DEF Spec

-----------------------------------------------------------------------------
\* Unless a firing put the state of an earlier definition back, the state is that of the
\* schedule, its activation is the last boundary, and so is the start of the job.
AgreeInv ==
    ~raced =>
        /\ fp = def
        /\ enabled =>
             /\ since = boundary /\ boundary <= now
             /\ server \in {"loaded", "up"} => job = def /\ jobSince = boundary

\* An instant is open as long as nothing claimed it, though it is the latest.
Open(t) ==
    IsDue(def, t) /\ occ[<<def, t>>] = "none" /\ t \notin dropped \cup gap

\* The thread of the job is going to claim it.
OnItsWay(t) ==
    \/ pc["auto"] = "read"
    \/ pc["auto"] = "ensure" /\ seen = def
    \/ pc["auto"] = "claim" /\ key["auto"] = <<def, t>>

\* An open instant is before startup_at and left to the catch-up of the start, or the
\* job is to fire, or its thread is on the way.
Awaited(t) ==
    \/ server = "down"
    \/ server \in {"recovered", "loaded"} /\ t <= startAt
    \/ server \in {"loaded", "up"} /\ (due \/ OnItsWay(t))

DueInv == ~raced => \A t \in 1..MaxTime : Open(t) => Awaited(t)

LEMMA AgreeStep == TypeOK /\ AgreeInv /\ [Next]_vars => AgreeInv'
<1> SUFFICES ASSUME TypeOK, AgreeInv, [Next]_vars PROVE AgreeInv'
  OBVIOUS
<1> USE BoundsAssumption DEF TypeOK, AgreeInv, rows, jobs, claims, trace, Never
<1>1. ASSUME Tick PROVE AgreeInv'
  BY <1>1 DEF Tick
<1>2. ASSUME Fire PROVE AgreeInv'
  BY <1>2 DEF Fire, Goto
<1>3. ASSUME ReadSchedule PROVE AgreeInv'
  BY <1>3 DEF ReadSchedule, Goto
<1>4. ASSUME EnsureResets PROVE AgreeInv'
  BY <1>4 DEF EnsureResets, ResetState, Goto
<1>5. ASSUME EnsureSkill PROVE AgreeInv'
  BY <1>5 DEF EnsureSkill
<1>6. ASSUME EnsurePlatform PROVE AgreeInv'
  BY <1>6 DEF EnsurePlatform
<1>7. ASSUME NEW t \in Threads, Claim(t) PROVE AgreeInv'
  BY <1>7 DEF Claim
<1>8. ASSUME NEW t \in Threads, Begin(t) PROVE AgreeInv'
  BY <1>8 DEF Begin
<1>9. ASSUME NEW t \in Threads, Invoke(t) PROVE AgreeInv'
  BY <1>9 DEF Invoke
<1>10. ASSUME NEW t \in Threads, Blocked(t) PROVE AgreeInv'
  BY <1>10 DEF Blocked
<1>11. ASSUME NEW t \in Threads, Finish(t) PROVE AgreeInv'
  BY <1>11 DEF Finish
<1>12. ASSUME NEW r \in Requests, RunNow(r) PROVE AgreeInv'
  BY <1>12 DEF RunNow
<1>13. ASSUME Enable PROVE AgreeInv'
  BY <1>13 DEF Enable, EditStep, Activate
<1>14. ASSUME Disable PROVE AgreeInv'
  BY <1>14 DEF Disable, EditStep
<1>15. ASSUME NEW d \in Definitions, Update(d) PROVE AgreeInv'
  BY <1>15 DEF Update, EditStep, Activate
<1>16. ASSUME Rename PROVE AgreeInv'
  BY <1>16 DEF Rename, EditStep
<1>17. ASSUME Crash PROVE AgreeInv'
  BY <1>17 DEF Crash
<1>18. ASSUME Recover PROVE AgreeInv'
  BY <1>18 DEF Recover
<1>19. ASSUME LoadJobs PROVE AgreeInv'
  BY <1>19 DEF LoadJobs, StaleState, Mismatch, ResetState
<1>20. ASSUME QueueCatchUp PROVE AgreeInv'
  BY <1>20 DEF QueueCatchUp
<1>21. ASSUME NoCatchUp PROVE AgreeInv'
  BY <1>21 DEF NoCatchUp, StaleState, Mismatch, ResetState
<1>22. CASE UNCHANGED vars
  BY <1>22 DEF vars
<1>23. ASSUME NEW t \in Threads, Execute(t) PROVE AgreeInv'
  BY <1>23, <1>7, <1>8, <1>9, <1>10, <1>11 DEF Execute
<1>24. ASSUME Firing PROVE AgreeInv'
  BY <1>24, <1>3, <1>4, <1>5, <1>6 DEF Firing
<1>25. ASSUME Start PROVE AgreeInv'
  BY <1>25, <1>18, <1>19, <1>20, <1>21 DEF Start
<1>26. ASSUME Edit PROVE AgreeInv'
  BY <1>26, <1>13, <1>14, <1>15, <1>16 DEF Edit
<1> QED
  BY <1>1, <1>2, <1>12, <1>17, <1>22, <1>23, <1>24, <1>25, <1>26 DEF Next

\* An instant that is open after a step which forgets no claim was open before it.
LEMMA OpenBefore ==
    ASSUME TypeOK, NEW t \in 1..MaxTime, Open(t)',
           UNCHANGED <<enabled, def, boundary, now>>,
           \A k \in Keys : occ'[k] = "none" => occ[k] = "none",
           dropped \subseteq dropped', gap \subseteq gap'
    PROVE  Open(t)
<1>1. PICK k \in Keys : k = <<def, t>>
  BY DEF Keys, TypeOK
<1>2. occ[<<def, t>>] = "none"
  BY <1>1 DEF Open
<1> QED
  BY <1>2 DEF Open, IsDue, IsLatest, DueTimes, OnSchedule

\* Such a step keeps the invariant if the claim of an open instant stays on its way.
LEMMA DueKept ==
    ASSUME TypeOK, DueInv,
           UNCHANGED <<enabled, def, boundary, now, server, startAt>>, ~raced' => ~raced,
           \A k \in Keys : occ'[k] = "none" => occ[k] = "none",
           dropped \subseteq dropped', gap \subseteq gap',
           \A t \in 1..MaxTime :
             ~raced' /\ Open(t)' /\ Open(t) /\ (due \/ OnItsWay(t)) => (due \/ OnItsWay(t))'
    PROVE  DueInv'
<1> SUFFICES ASSUME ~raced', NEW t \in 1..MaxTime, Open(t)' PROVE Awaited(t)'
  BY DEF DueInv
<1>1. Open(t) /\ ~raced
  BY OpenBefore
<1>2. Awaited(t)
  BY <1>1 DEF DueInv
<1>3. due \/ OnItsWay(t) => (due \/ OnItsWay(t))'
  BY <1>1
<1> QED
  BY <1>2, <1>3 DEF Awaited

\* After an edit that moves the boundary nothing is due.
LEMMA DueAfresh == ASSUME TypeOK, boundary' = now, now' = now PROVE DueInv'
<1> SUFFICES ASSUME NEW t \in 1..MaxTime, Open(t)' PROVE FALSE
  BY DEF DueInv
<1>1. t \in 1..now /\ t > now
  BY LatestIsDue DEF Open, IsDue
<1> QED
  BY <1>1 DEF TypeOK

\* What _latest_due_at finds is the open instant, if there is one.
LEMMA LatestIsOpen ==
    ASSUME TypeOK, NEW t \in 1..MaxTime, Open(t), NEW u \in 1..MaxTime, NEW at \in Nat,
           t <= at, at <= now, IsLatest(u, def, boundary, at)
    PROVE  u = t
<1>1. t \in DueTimes(def, boundary, now) /\ \A v \in DueTimes(def, boundary, now) : v <= t
  BY DEF Open, IsDue, IsLatest
<1>2. t \in DueTimes(def, boundary, at)
  BY <1>1 DEF DueTimes
<1>3. u \in DueTimes(def, boundary, at) /\ t <= u
  BY <1>2 DEF IsLatest
<1>4. u \in DueTimes(def, boundary, now)
  BY <1>3 DEF DueTimes, TypeOK
<1> QED
  BY <1>1, <1>3, <1>4

LEMMA LatestExists ==
    ASSUME TypeOK, NEW t \in 1..MaxTime, Open(t), NEW at \in Nat, t <= at, at <= now
    PROVE  IsLatest(t, def, boundary, at)
<1>1. t \in DueTimes(def, boundary, now) /\ \A v \in DueTimes(def, boundary, now) : v <= t
  BY DEF Open, IsDue, IsLatest
<1>2. t \in DueTimes(def, boundary, at)
  BY <1>1 DEF DueTimes
<1>3. \A v \in DueTimes(def, boundary, at) : v \in DueTimes(def, boundary, now)
  BY DEF DueTimes, TypeOK
<1> QED
  BY <1>1, <1>2, <1>3 DEF IsLatest

\* The job's thread, going to claim the latest instant, is on its way to the open one.
LEMMA ClaimsTheOpen ==
    ASSUME TypeOK, NEW t \in 1..MaxTime, Open(t), ClaimLatest("auto", def, now),
           since = boundary, def' = def
    PROVE  OnItsWay(t)'
<1>1. t <= now /\ now \in Nat
  BY LatestIsDue DEF Open, IsDue, TypeOK
<1>2. IsLatest(t, def, since, now)
  BY <1>1, LatestExists DEF TypeOK
<1>3. PICK u \in 1..MaxTime :
        /\ IsLatest(u, def, since, now)
        /\ key' = [key EXCEPT !["auto"] = <<def, u>>] /\ Goto("auto", "claim")
  BY <1>2 DEF ClaimLatest, IsLatest
<1>4. u = t
  BY <1>1, <1>3, LatestIsOpen DEF TypeOK
<1>5. PICK k \in Keys : k = <<def, t>>
  BY DEF Keys, TypeOK
<1>6. key' = [key EXCEPT !["auto"] = k]
  BY <1>3, <1>4, <1>5
<1>7. key'["auto"] = k /\ pc'["auto"] = "claim"
  BY <1>3, <1>6 DEF Goto, Workers, Threads, TypeOK
<1> QED
  BY <1>5, <1>7 DEF OnItsWay

LEMMA DueStep == TypeOK /\ DownInv /\ AgreeInv /\ DueInv /\ [Next]_vars => DueInv'
<1> SUFFICES ASSUME TypeOK, DownInv, AgreeInv, DueInv, [Next]_vars PROVE DueInv'
  OBVIOUS
<1> USE DEF rows, jobs, claims, trace
<1>1. ASSUME Tick PROVE DueInv'
  <2> SUFFICES ASSUME ~raced', NEW t \in 1..MaxTime, Open(t)' PROVE Awaited(t)'
    BY DEF DueInv
  <2>1. /\ now' = now + 1 /\ now \in Nat /\ ~raced
        /\ due' = (due \/ (job # NoJob /\ OnSchedule(job, now + 1, jobSince)))
        /\ UNCHANGED <<enabled, def, boundary, server, startAt, occ, pc, key, seen, dropped,
                       job, jobSince, raced>>
    BY <1>1 DEF Tick, TypeOK
  <2>2. t \in DueTimes(def, boundary, now + 1) /\ enabled
        /\ \A u \in DueTimes(def, boundary, now + 1) : u <= t
    BY <2>1 DEF Open, IsDue, IsLatest, DueTimes, OnSchedule
  <2>3. CASE t = now + 1
    <3>1. OnSchedule(def, now + 1, boundary)
      BY <2>2, <2>3 DEF DueTimes
    <3>2. CASE server \in {"loaded", "up"}
      <4>1. job = def /\ jobSince = boundary /\ job # NoJob
        BY <2>1, <2>2, <3>2, NamesAssumption DEF AgreeInv, TypeOK
      <4>2. due'
        BY <2>1, <3>1, <4>1, Zenon
      <4> QED
        BY <2>1, <3>2, <4>2 DEF Awaited
    <3>3. CASE server = "recovered"
      BY <1>1, <2>3, <3>3 DEF Tick, Open
    <3>4. CASE server = "down"
      BY <2>1, <3>4 DEF Awaited
    <3> QED
      BY <3>2, <3>3, <3>4 DEF TypeOK
  <2>4. CASE t # now + 1
    <3>1. t \in DueTimes(def, boundary, now)
      BY <2>1, <2>2, <2>4 DEF DueTimes
    <3>2. \A u \in DueTimes(def, boundary, now) : u \in DueTimes(def, boundary, now + 1)
      BY <2>1 DEF DueTimes
    <3>3. gap \subseteq gap'
      BY <1>1 DEF Tick
    <3>4. Open(t)
      BY <2>1, <2>2, <3>1, <3>2, <3>3 DEF Open, IsDue, IsLatest
    <3>5. Awaited(t)
      BY <2>1, <3>4 DEF DueInv
    <3>6. due => due'
      BY <2>1, Zenon
    <3> QED
      BY <2>1, <3>5, <3>6 DEF Awaited, OnItsWay
  <2> QED
    BY <2>3, <2>4
<1>2. ASSUME Fire PROVE DueInv'
  <2>1. /\ UNCHANGED <<enabled, def, boundary, now, server, startAt, occ, gap, raced>>
        /\ dropped \subseteq dropped'
    BY <1>2 DEF Fire
  <2>2. ASSUME NEW t \in 1..MaxTime, Open(t)', Open(t) PROVE OnItsWay(t)'
    <3>1. t \in 1..now
      BY <2>2, LatestIsDue DEF Open, IsDue
    <3>2. pc["auto"] = "idle" /\ Goto("auto", "read")
      BY <1>2, <2>2, <3>1 DEF Fire, Open
    <3> QED
      BY <3>2 DEF Goto, OnItsWay, TypeOK, Threads, Workers
  <2> QED
    BY <2>1, <2>2, DueKept
<1>3. ASSUME ReadSchedule PROVE DueInv'
  <2>1. /\ UNCHANGED <<enabled, def, boundary, now, server, startAt, occ, gap, raced, dropped,
                       due>>
        /\ pc["auto"] = "read" /\ seen' = def
    BY <1>3 DEF ReadSchedule
  <2>2. ASSUME NEW t \in 1..MaxTime, Open(t) PROVE OnItsWay(t)'
    <3>1. pc'["auto"] = "ensure"
      BY <1>3, <2>2 DEF ReadSchedule, Goto, Open, IsDue, TypeOK, Threads, Workers
    <3> QED
      BY <2>1, <3>1 DEF OnItsWay
  <2> QED
    BY <2>1, <2>2, DueKept
<1>4. ASSUME EnsureResets PROVE DueInv'
  BY <1>4 DEF EnsureResets, DueInv
<1>5. ASSUME EnsureSkill PROVE DueInv'
  <2>1. UNCHANGED <<enabled, def, boundary, now, server, startAt, occ, gap, raced, dropped,
                    due, since, fp>>
    BY <1>5 DEF EnsureSkill
  <2>2. ASSUME NEW t \in 1..MaxTime, ~raced', Open(t) PROVE OnItsWay(t)'
    <3>1. fp = def /\ since = boundary
      BY <2>1, <2>2 DEF AgreeInv, Open, IsDue
    <3>2. seen = def /\ ClaimLatest("auto", seen, now)
      BY <1>5, <3>1 DEF EnsureSkill, Mismatch
    <3> QED
      BY <2>1, <2>2, <3>1, <3>2, ClaimsTheOpen
  <2> QED
    BY <2>1, <2>2, DueKept
<1>6. ASSUME EnsurePlatform PROVE DueInv'
  <2>1. UNCHANGED <<enabled, def, boundary, now, server, startAt, occ, gap, raced, dropped,
                    due, since, fp>>
    BY <1>6 DEF EnsurePlatform
  <2>2. ASSUME NEW t \in 1..MaxTime, ~raced', Open(t) PROVE OnItsWay(t)'
    <3>1. since = boundary /\ enabled
      BY <2>1, <2>2 DEF AgreeInv, Open, IsDue
    <3>2. ClaimLatest("auto", def, now)
      BY <1>6, <3>1 DEF EnsurePlatform
    <3> QED
      BY <2>1, <2>2, <3>1, <3>2, ClaimsTheOpen
  <2> QED
    BY <2>1, <2>2, DueKept
<1>7. ASSUME NEW w \in Threads, Claim(w) PROVE DueInv'
  <2>1. /\ UNCHANGED <<enabled, def, boundary, now, server, startAt, gap, raced, dropped,
                       due, seen, key>>
        /\ pc[w] = "claim"
    BY <1>7 DEF Claim
  <2>2. PICK i \in Items : i = ItemOf(w)
    BY ItemTyped
  <2>3. \A k \in Keys : occ'[k] = "none" => occ[k] = "none" /\ k # i
    BY <1>7, <2>2 DEF Claim, Unclaimed, TypeOK, Items
  <2>4. ASSUME NEW t \in 1..MaxTime, Open(t)', OnItsWay(t) PROVE OnItsWay(t)'
    <3>1. PICK k \in Keys : k = <<def, t>>
      BY DEF Keys, TypeOK
    <3>2. occ'[k] = "none" /\ k # i
      BY <2>1, <2>3, <2>4, <3>1 DEF Open
    <3>3. w # "auto"
      BY <2>1, <2>2, <2>4, <3>1, <3>2, NamesAssumption DEF OnItsWay, ItemOf, Workers
    <3>4. pc'["auto"] = pc["auto"]
      BY <1>7, <3>3 DEF Claim, Goto, TypeOK, Threads, Workers
    <3> QED
      BY <2>1, <2>4, <3>4 DEF OnItsWay
  <2> QED
    BY <2>1, <2>3, <2>4, DueKept
<1>8. ASSUME NEW w \in Threads, Begin(w) PROVE DueInv'
  <2>1. /\ UNCHANGED <<enabled, def, boundary, now, server, startAt, gap, raced, dropped,
                       due, seen, key>>
        /\ pc[w] \notin {"read", "ensure", "claim"}
    BY <1>8 DEF Begin
  <2>2. PICK i \in Items : i = ItemOf(w)
    BY ItemTyped
  <2>3. \A k \in Keys : occ'[k] = "none" => occ[k] = "none"
    BY <1>8, <2>2 DEF Begin, TypeOK, Items
  <2>4. pc["auto"] \in {"read", "ensure", "claim"} => pc'["auto"] = pc["auto"]
    BY <1>8, <2>1 DEF Begin, Goto, TypeOK, Threads, Workers
  <2>5. \A t \in 1..MaxTime : OnItsWay(t) => OnItsWay(t)'
    BY <2>1, <2>4 DEF OnItsWay
  <2> QED
    BY <2>1, <2>3, <2>5, DueKept
<1>9. ASSUME NEW w \in Threads, Invoke(w) PROVE DueInv'
  <2>1. /\ UNCHANGED <<enabled, def, boundary, now, server, startAt, gap, raced, dropped,
                       due, seen, key>>
        /\ pc[w] \notin {"read", "ensure", "claim"}
    BY <1>9 DEF Invoke
  <2>2. PICK i \in Items : i = ItemOf(w)
    BY ItemTyped
  <2>3. \A k \in Keys : occ'[k] = "none" => occ[k] = "none"
    BY <1>9, <2>2 DEF Invoke, TypeOK, Items
  <2>4. pc["auto"] \in {"read", "ensure", "claim"} => pc'["auto"] = pc["auto"]
    BY <1>9, <2>1 DEF Invoke, Goto, TypeOK, Threads, Workers
  <2>5. \A t \in 1..MaxTime : OnItsWay(t) => OnItsWay(t)'
    BY <2>1, <2>4 DEF OnItsWay
  <2> QED
    BY <2>1, <2>3, <2>5, DueKept
<1>10. ASSUME NEW w \in Threads, Blocked(w) PROVE DueInv'
  <2>1. /\ UNCHANGED <<enabled, def, boundary, now, server, startAt, gap, raced, dropped,
                       due, seen, key>>
        /\ pc[w] \notin {"read", "ensure", "claim"}
    BY <1>10 DEF Blocked
  <2>2. PICK i \in Items : i = ItemOf(w)
    BY ItemTyped
  <2>3. \A k \in Keys : occ'[k] = "none" => occ[k] = "none"
    BY <1>10, <2>2 DEF Blocked, TypeOK, Items
  <2>4. pc["auto"] \in {"read", "ensure", "claim"} => pc'["auto"] = pc["auto"]
    BY <1>10, <2>1 DEF Blocked, Goto, TypeOK, Threads, Workers
  <2>5. \A t \in 1..MaxTime : OnItsWay(t) => OnItsWay(t)'
    BY <2>1, <2>4 DEF OnItsWay
  <2> QED
    BY <2>1, <2>3, <2>5, DueKept
<1>11. ASSUME NEW w \in Threads, Finish(w) PROVE DueInv'
  <2>1. /\ UNCHANGED <<enabled, def, boundary, now, server, startAt, gap, raced, dropped,
                       due, seen, key>>
        /\ pc[w] \notin {"read", "ensure", "claim"}
    BY <1>11 DEF Finish
  <2>2. PICK i \in Items : i = ItemOf(w)
    BY ItemTyped
  <2>3. \A k \in Keys : occ'[k] = "none" => occ[k] = "none"
    BY <1>11, <2>2 DEF Finish, TypeOK, Items
  <2>4. pc["auto"] \in {"read", "ensure", "claim"} => pc'["auto"] = pc["auto"]
    BY <1>11, <2>1 DEF Finish, Goto, TypeOK, Threads, Workers
  <2>5. \A t \in 1..MaxTime : OnItsWay(t) => OnItsWay(t)'
    BY <2>1, <2>4 DEF OnItsWay
  <2> QED
    BY <2>1, <2>3, <2>5, DueKept
<1>12. ASSUME NEW r \in Requests, RunNow(r) PROVE DueInv'
  <2>1. UNCHANGED <<enabled, def, boundary, now, server, startAt, gap, raced, dropped,
                    due, seen, key, occ>>
    BY <1>12 DEF RunNow
  <2>2. pc'["auto"] = pc["auto"]
    BY <1>12, NamesAssumption DEF RunNow, Goto, TypeOK, Threads, Workers
  <2>3. \A t \in 1..MaxTime : OnItsWay(t) => OnItsWay(t)'
    BY <2>1, <2>2 DEF OnItsWay
  <2> QED
    BY <2>1, <2>3, DueKept
<1>13. ASSUME Enable PROVE DueInv'
  BY <1>13, DueAfresh DEF Enable, EditStep
<1>14. ASSUME Disable PROVE DueInv'
  BY <1>14 DEF Disable, DueInv, Open, IsDue
<1>15. ASSUME NEW d \in Definitions, Update(d) PROVE DueInv'
  <2>1. CASE enabled
    BY <1>15, <2>1, DueAfresh DEF Update, EditStep
  <2>2. CASE ~enabled
    BY <1>15, <2>2 DEF Update, DueInv, Open, IsDue
  <2> QED
    BY <2>1, <2>2
<1>16. ASSUME Rename PROVE DueInv'
  <2>1. /\ UNCHANGED <<enabled, def, boundary, now, server, startAt, gap, raced, occ, pc,
                       key, seen>>
        /\ dropped \subseteq dropped' /\ (due => 1..now \subseteq dropped')
    BY <1>16 DEF Rename, EditStep
  <2>2. ASSUME NEW t \in 1..MaxTime, Open(t)', Open(t), due \/ OnItsWay(t)
        PROVE  OnItsWay(t)'
    <3>1. t \in 1..now
      BY <2>2, LatestIsDue DEF Open, IsDue
    <3>2. ~due
      BY <2>1, <2>2, <3>1 DEF Open
    <3> QED
      BY <2>1, <2>2, <3>2 DEF OnItsWay
  <2> QED
    BY <2>1, <2>2, DueKept
<1>17. ASSUME Crash PROVE DueInv'
  BY <1>17 DEF Crash, DueInv, Awaited
<1>18. ASSUME Recover PROVE DueInv'
  <2> SUFFICES ASSUME NEW t \in 1..MaxTime, Open(t)' PROVE Awaited(t)'
    BY DEF DueInv
  <2>1. t \in 1..now /\ startAt' = now /\ server' = "recovered"
    BY <1>18, LatestIsDue DEF Recover, Open, IsDue
  <2> QED
    BY <2>1 DEF Awaited
<1>19. ASSUME LoadJobs PROVE DueInv'
  <2> SUFFICES ASSUME ~raced', NEW t \in 1..MaxTime, Open(t)' PROVE Awaited(t)'
    BY DEF DueInv
  <2>1. /\ UNCHANGED <<enabled, def, boundary, now, startAt, occ, gap, dropped>>
        /\ ~raced /\ server = "recovered" /\ server' = "loaded"
    BY <1>19 DEF LoadJobs
  <2>2. Awaited(t)
    BY <2>1, OpenBefore DEF DueInv
  <2> QED
    BY <2>1, <2>2 DEF Awaited
<1>20. ASSUME QueueCatchUp PROVE DueInv'
  <2> SUFFICES ASSUME ~raced', NEW t \in 1..MaxTime, Open(t)' PROVE Awaited(t)'
    BY DEF DueInv
  <2>1. /\ UNCHANGED <<enabled, def, boundary, now, startAt, gap, dropped, raced, due, seen,
                       since>>
        /\ server = "loaded" /\ server' = "up" /\ startAt \in Nat /\ startAt <= now
        /\ key'["auto"] = key["auto"] /\ pc'["auto"] = pc["auto"]
    BY <1>20 DEF QueueCatchUp, Goto, TypeOK, Workers, Threads
  <2>2. PICK u \in 1..MaxTime :
          /\ IsLatest(u, def, since, startAt)
          /\ occ' = [occ EXCEPT ![<<def, u>>] = "claimed"]
    BY <1>20 DEF QueueCatchUp
  <2>3. PICK k \in Keys : k = <<def, u>>
    BY DEF Keys, TypeOK
  <2>4. occ'[k] = "claimed" /\ \A j \in Keys : occ'[j] = "none" => occ[j] = "none"
    BY <2>2, <2>3 DEF TypeOK, Items
  <2>5. Open(t) /\ u # t
    BY <2>1, <2>3, <2>4, OpenBefore DEF Open
  <2>6. since = boundary
    BY <2>1, <2>5 DEF AgreeInv, Open, IsDue
  <2>7. ~(t <= startAt)
    BY <2>1, <2>2, <2>5, <2>6, LatestIsOpen
  <2>8. due \/ OnItsWay(t)
    BY <2>1, <2>5, <2>7 DEF DueInv, Awaited
  <2> QED
    BY <2>1, <2>8 DEF Awaited, OnItsWay
<1>21. ASSUME NoCatchUp PROVE DueInv'
  <2> SUFFICES ASSUME ~raced', NEW t \in 1..MaxTime, Open(t)' PROVE Awaited(t)'
    BY DEF DueInv
  <2>1. /\ UNCHANGED <<enabled, def, boundary, now, startAt, gap, dropped, due, seen, key,
                       pc, occ>>
        /\ server = "loaded" /\ server' = "up" /\ startAt \in Nat /\ startAt <= now /\ ~raced
    BY <1>21 DEF NoCatchUp, TypeOK
  <2>2. Open(t) /\ enabled
    BY <2>1, OpenBefore DEF Open, IsDue
  <2>3. fp = def /\ since = boundary /\ boundary <= now
    BY <2>1, <2>2 DEF AgreeInv
  <2>4. CatchUpDue
    <3>1. since # Never
      BY <2>3, BoundsAssumption DEF Never, TypeOK
    <3> QED
      BY <2>2, <2>3, <3>1 DEF CatchUpDue, StaleState, Mismatch
  <2>5. ~(t <= startAt)
    <3>1. SUFFICES ASSUME t <= startAt PROVE FALSE
      OBVIOUS
    <3>2. IsLatest(t, def, since, startAt)
      BY <2>1, <2>2, <2>3, <3>1, LatestExists
    <3>3. Unclaimed(<<def, t>>)
      BY <2>2 DEF Open, Unclaimed
    <3> QED
      BY <1>21, <2>4, <3>2, <3>3 DEF NoCatchUp
  <2>6. due \/ OnItsWay(t)
    BY <2>1, <2>2, <2>5 DEF DueInv, Awaited
  <2> QED
    BY <2>1, <2>6 DEF Awaited, OnItsWay
<1>22. CASE UNCHANGED vars
  <2>1. \A t \in 1..MaxTime : OnItsWay(t) => OnItsWay(t)'
    BY <1>22 DEF vars, OnItsWay
  <2> QED
    BY <1>22, <2>1, DueKept DEF vars
<1>23. ASSUME NEW t \in Threads, Execute(t) PROVE DueInv'
  BY <1>23, <1>7, <1>8, <1>9, <1>10, <1>11 DEF Execute
<1>24. ASSUME Firing PROVE DueInv'
  BY <1>24, <1>3, <1>4, <1>5, <1>6 DEF Firing
<1>25. ASSUME Start PROVE DueInv'
  BY <1>25, <1>18, <1>19, <1>20, <1>21 DEF Start
<1>26. ASSUME Edit PROVE DueInv'
  BY <1>26, <1>13, <1>14, <1>15, <1>16 DEF Edit
<1> QED
  BY <1>1, <1>2, <1>12, <1>17, <1>22, <1>23, <1>24, <1>25, <1>26 DEF Next

\* When no firing is on its way the latest intended time of an enabled service has its
\* run, whatever edits, restarts and late firings came before.
THEOREM NothingMissed == Spec => []LatestIsClaimed
<1>1. Init => AgreeInv /\ DueInv
  <2>1. Init => fp = def /\ (enabled => since = 0) /\ boundary = 0 /\ now = 0
                /\ server = "down"
    BY DEF Init
  <2> QED
    BY <2>1 DEF AgreeInv, DueInv, Awaited
<1>2. TypeOK /\ DownInv /\ AgreeInv /\ DueInv /\ [Next]_vars => AgreeInv' /\ DueInv'
  BY AgreeStep, DueStep
<1>3. DueInv => LatestIsClaimed
  <2> SUFFICES ASSUME DueInv, Quiet, ~raced, NEW t \in 1..MaxTime, Open(t) PROVE FALSE
    BY DEF LatestIsClaimed, Open, IsDue
  <2>1. Awaited(t)
    BY DEF DueInv
  <2> QED
    BY <2>1 DEF Awaited, OnItsWay, Quiet, Up, Workers
<1> QED
  BY <1>1, <1>2, <1>3, HoldInductive, PTL DEF Spec
=============================================================================
