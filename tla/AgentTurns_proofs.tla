------------------------- MODULE AgentTurns_proofs -------------------------
(***************************************************************************)
(* Safety of the durable turns for any sessions, turns and request threads *)
(* and any number of crashes and lost worker threads.  Each property has   *)
(* an inductive invariant of its own over TypeOK and WorkerInv.            *)
(***************************************************************************)
EXTENDS AgentTurns, WellFoundedInduction, TLAPS

\* The CHOOSE of First is defined on every set of turns that is not empty.
LEMMA FirstIsLeast ==
    ASSUME NEW S \in SUBSET Turns, S # {}
    PROVE  First(S) \in S /\ \A u \in S : First(S) <= u
<1> DEFINE R == OpToRel(<, Nat)
<1>1. IsWellFoundedOn(R, Nat)
  BY NatLessThanWellFounded
<1>2. S \subseteq Nat
  BY TurnsAssumption
<1> HIDE DEF R
<1>3. PICK t \in S : \A y \in S : ~(<<y, t>> \in R)
  BY <1>1, <1>2, WFMin
<1>4. \A y \in S : <<y, t>> \in R <=> y < t
  BY <1>2 DEF R, OpToRel
<1>5. \A y \in S : ~(y < t)
  BY <1>3, <1>4
<1>6. \A y \in S : t <= y
  BY <1>2, <1>5
<1> QED
  BY <1>3, <1>6 DEF First

\* The fields of a request in progress.
LEMMA CallTyped ==
    ASSUME TypeOK, NEW c \in Callers
    PROVE  /\ call[c].op = "cancel" =>
                call[c].turn \in Turns /\ call[c].seen \in ActiveStatuses
           /\ call[c].op = "interrupt" => call[c].turn \in Turns
BY DEF TypeOK, CallStates, Idle

\* What _run_act_session takes is a turn of its own session.
LEMMA FirstQueued ==
    ASSUME NEW s \in Sessions, Eligible(s)
    PROVE  First(Queued(s)) \in Turns /\ Home[First(Queued(s))] = s
<1>1. Queued(s) \in SUBSET Turns /\ Queued(s) # {}
  BY DEF Eligible, Queued, TurnsOf
<1>2. First(Queued(s)) \in Queued(s)
  BY <1>1, FirstIsLeast
<1> QED
  BY <1>2 DEF Queued, TurnsOf

LEMMA TypeInit == Init => TypeOK
<1> SUFFICES ASSUME Init PROVE TypeOK
  OBVIOUS
<1>1. call \in [Callers -> CallStates]
  BY DEF Init, CallStates
<1>2. crashes \in 0..MaxCrashes /\ faults \in 0..MaxFaults
  BY BoundsAssumption DEF Init
<1> QED
  BY <1>1, <1>2 DEF Init, TypeOK, Statuses, Pcs, TurnPcs

LEMMA TypeStep == TypeOK /\ [Next]_vars => TypeOK'
<1> SUFFICES ASSUME TypeOK, [Next]_vars PROVE TypeOK'
  OBVIOUS
<1> USE BoundsAssumption DEF dbVars, procVars, extVars, lifeVars, worker, TypeOK
<1>1. ASSUME NEW c \in Callers, NEW s \in Sessions, EnqueueCheck(c, s) PROVE TypeOK'
  BY <1>1
  DEF EnqueueCheck, CallStates, Idle, Pcs
<1>2. ASSUME NEW c \in Callers, NEW s \in Sessions, ArchiveCheck(c, s) PROVE TypeOK'
  BY <1>2
  DEF ArchiveCheck, CallStates, Idle, Pcs
<1>3. ASSUME NEW c \in Callers, NEW t \in Turns, CancelRead(c, t) PROVE TypeOK'
  BY <1>3
  DEF CancelRead, CallStates, Idle, Pcs
<1>4. ASSUME NEW c \in Callers, EnqueueInsert(c) PROVE TypeOK'
  <2>1. First(Absent(call[c].session)) \in Turns
    BY <1>4, FirstIsLeast DEF EnqueueInsert, Absent, TurnsOf
  <2>2. call' \in [Callers -> CallStates]
    BY <1>4 DEF EnqueueInsert, CallStates
  <2> QED
    BY <1>4, <2>1, <2>2 DEF EnqueueInsert, Statuses, ActiveStatuses
<1>5. ASSUME NEW c \in Callers, CancelCommit(c) PROVE TypeOK'
  BY <1>5, CallTyped
  DEF CancelCommit, CallStates, Idle, Pcs, Statuses, ActiveStatuses, TerminalStatuses
<1>6. ASSUME NEW c \in Callers, CancelInterrupt(c) PROVE TypeOK'
  <2>1. call[c].turn \in Turns /\ call' \in [Callers -> CallStates]
    BY <1>6, CallTyped DEF CancelInterrupt, CallStates
  <2> QED
    BY <1>6, <2>1 DEF CancelInterrupt
<1>7. ASSUME NEW c \in Callers, ArchiveRefused(c) PROVE TypeOK'
  BY <1>7
  DEF ArchiveRefused, CallStates, Idle, Pcs
<1>8. ASSUME NEW c \in Callers, ArchiveCommit(c) PROVE TypeOK'
  BY <1>8
  DEF ArchiveCommit, CallStates, Idle, Pcs
<1>9. ASSUME NEW c \in Callers, ArchiveStopServer(c) PROVE TypeOK'
  BY <1>9
  DEF ArchiveStopServer, CallStates, Idle, Pcs
<1>10. ASSUME NEW s \in Sessions, StartWorker(s) PROVE TypeOK'
  BY <1>10, BoundsAssumption
  DEF StartWorker, Drop, Take, TurnPcs, Pcs
<1>11. ASSUME NEW s \in Sessions, Poll(s) PROVE TypeOK'
  BY <1>11, FirstQueued, BoundsAssumption
  DEF Poll, Drop, Take, TurnPcs, Pcs, Statuses, ActiveStatuses, TerminalStatuses
<1>12. ASSUME NEW s \in Sessions, Claim(s) PROVE TypeOK'
  BY <1>12, BoundsAssumption
  DEF Claim, Drop, Take, Goto, TurnPcs, Pcs, Statuses, ActiveStatuses, TerminalStatuses
<1>13. ASSUME NEW s \in Sessions, Begin(s) PROVE TypeOK'
  BY <1>13, BoundsAssumption
  DEF Begin, Goto, TurnPcs, Pcs, Statuses, ActiveStatuses, TerminalStatuses
<1>14. ASSUME NEW s \in Sessions, PrepareFails(s) PROVE TypeOK'
  BY <1>14, BoundsAssumption
  DEF PrepareFails, Goto, TurnPcs, Pcs
<1>15. ASSUME NEW s \in Sessions, StartCodex(s) PROVE TypeOK'
  BY <1>15, BoundsAssumption
  DEF StartCodex, Goto, TurnPcs, Pcs
<1>16. ASSUME NEW s \in Sessions, RecordCodexId(s) PROVE TypeOK'
  BY <1>16, BoundsAssumption
  DEF RecordCodexId, Goto, TurnPcs, Pcs
<1>17. ASSUME NEW s \in Sessions, Register(s) PROVE TypeOK'
  BY <1>17, BoundsAssumption
  DEF Register, Goto, TurnPcs, Pcs
<1>18. ASSUME NEW s \in Sessions, CheckCancel(s) PROVE TypeOK'
  BY <1>18, BoundsAssumption
  DEF CheckCancel, Rechecked, CancelSeen, Goto, TurnPcs, Pcs
<1>19. ASSUME NEW s \in Sessions, CodexResult(s) PROVE TypeOK'
  BY <1>19, BoundsAssumption
  DEF CodexResult, Goto, TurnPcs, Pcs
<1>20. ASSUME NEW s \in Sessions, Settle(s) PROVE TypeOK'
  BY <1>20, BoundsAssumption
  DEF Settle, Goto, TurnPcs, Pcs, Statuses, ActiveStatuses, TerminalStatuses
<1>21. ASSUME NEW s \in Sessions, CommitOutcome(s) PROVE TypeOK'
  BY <1>21, BoundsAssumption
  DEF CommitOutcome, Outcome, Goto, TurnPcs, Pcs, Statuses, ActiveStatuses,
    TerminalStatuses
<1>22. ASSUME NEW s \in Sessions, CommitFails(s) PROVE TypeOK'
  BY <1>22, BoundsAssumption
  DEF CommitFails, Outcome, Drop, Take, TurnPcs, Pcs
<1>23. ASSUME NEW s \in Sessions, Release(s) PROVE TypeOK'
  BY <1>23, BoundsAssumption
  DEF Release, Goto, TurnPcs, Pcs
<1>24. ASSUME NEW s \in Sessions, DeliverClaim(s) PROVE TypeOK'
  BY <1>24, BoundsAssumption
  DEF DeliverClaim, AfterDelivery, Drop, Take, Goto, TurnPcs, Pcs
<1>25. ASSUME NEW s \in Sessions, DeliverSend(s) PROVE TypeOK'
  BY <1>25, BoundsAssumption
  DEF DeliverSend, AfterDelivery, Drop, Take, Goto, TurnPcs, Pcs
<1>26. ASSUME NEW s \in Sessions, DeliverMark(s) PROVE TypeOK'
  BY <1>26, BoundsAssumption
  DEF DeliverMark, AfterDelivery, Drop, Take, TurnPcs, Pcs
<1>35. ASSUME NEW s \in Sessions, DeliverUnclaimed(s) PROVE TypeOK'
  BY <1>35, BoundsAssumption
  DEF DeliverUnclaimed, Deliverable, AfterDelivery, Drop, Take, TurnPcs, Pcs
<1>36. ASSUME NEW s \in Sessions, DeliverFails(s) PROVE TypeOK'
  BY <1>36, BoundsAssumption
  DEF DeliverFails, AfterDelivery, Drop, Take, TurnPcs, Pcs
<1>27. ASSUME NEW t \in Turns, CodexEnds(t) PROVE TypeOK'
  BY <1>27
  DEF CodexEnds, TurnPcs, Pcs
<1>28. ASSUME NEW t \in Turns, RecoverDelivery(t) PROVE TypeOK'
  BY <1>28, HomeAssumption
  DEF RecoverDelivery, Take, TurnPcs, Undelivered, Unoccupied, Pcs
<1>29. ASSUME Stop PROVE TypeOK'
  BY <1>29
  DEF Stop, Pcs
<1>30. ASSUME StopSweep PROVE TypeOK'
  BY <1>30
  DEF StopSweep, Pcs
<1>31. ASSUME Crash PROVE TypeOK'
  <2>1. call' \in [Callers -> CallStates]
    BY <1>31 DEF Crash, CallStates
  <2>2. crashes' \in 0..MaxCrashes
    BY <1>31 DEF Crash
  <2>3. /\ pc' \in [Sessions -> Pcs] /\ cur' \in [Sessions -> Turns \cup {0}]
        /\ \A s \in Sessions : pc'[s] \notin TurnPcs
    BY <1>31 DEF Crash, Pcs, TurnPcs
  <2> QED
    BY <1>31, <2>1, <2>2, <2>3 DEF Crash
<1>32. ASSUME Recover PROVE TypeOK'
  BY <1>32
  DEF Recover, Recovered, Undelivered, Pcs, Statuses, ActiveStatuses, TerminalStatuses
<1>33. ASSUME Serve PROVE TypeOK'
  BY <1>33
  DEF Serve, Pcs
<1>34. CASE UNCHANGED vars
  BY <1>34 DEF vars, Pcs
<1> QED
  BY <1>1, <1>2, <1>3, <1>4, <1>5, <1>6, <1>7, <1>8, <1>9, <1>10, <1>11, <1>12,
    <1>13, <1>14, <1>15, <1>16, <1>17, <1>18, <1>19, <1>20, <1>21, <1>22, <1>23,
    <1>24, <1>25, <1>26, <1>27, <1>28, <1>29, <1>30, <1>31, <1>32, <1>33, <1>34,
    <1>35, <1>36
  DEF Next, CallerStep, WorkerStep

\* Every variable keeps its type: no step leaves a column with a value its
\* readers do not know, or a worker at a step of a turn with no turn in hand.
THEOREM TypeCorrect == Spec => []TypeOK
<1>1. Init => TypeOK
  BY TypeInit
<1>2. TypeOK /\ [Next]_vars => TypeOK'
  BY TypeStep
<1> QED
  BY <1>1, <1>2, PTL DEF Spec

-----------------------------------------------------------------------------
\* A worker holds a turn of its own session, so two never hold the same one; a
\* process that is down has no worker.
WorkerInv ==
    /\ \A s \in Sessions : pc[s] \in TurnPcs => Home[cur[s]] = s
    /\ server = "down" => \A s \in Sessions : pc[s] = "none"

LEMMA WorkerStays == TypeOK /\ WorkerInv /\ [Next]_vars => WorkerInv'
<1> SUFFICES ASSUME TypeOK, WorkerInv, [Next]_vars PROVE WorkerInv'
  OBVIOUS
<1>0. TypeOK'
  BY TypeStep
<1> USE DEF dbVars, procVars, extVars, lifeVars, worker, WorkerInv
<1>1. ASSUME NEW c \in Callers, NEW s \in Sessions, EnqueueCheck(c, s) PROVE WorkerInv'
  BY <1>1
  DEF EnqueueCheck
<1>2. ASSUME NEW c \in Callers, NEW s \in Sessions, ArchiveCheck(c, s) PROVE WorkerInv'
  BY <1>2
  DEF ArchiveCheck
<1>3. ASSUME NEW c \in Callers, NEW t \in Turns, CancelRead(c, t) PROVE WorkerInv'
  BY <1>3
  DEF CancelRead
<1>4. ASSUME NEW c \in Callers, EnqueueInsert(c) PROVE WorkerInv'
  BY <1>4, FirstIsLeast
  DEF EnqueueInsert, Absent, TurnsOf
<1>5. ASSUME NEW c \in Callers, CancelCommit(c) PROVE WorkerInv'
  BY <1>5, CallTyped
  DEF CancelCommit
<1>6. ASSUME NEW c \in Callers, CancelInterrupt(c) PROVE WorkerInv'
  BY <1>6, CallTyped
  DEF CancelInterrupt
<1>7. ASSUME NEW c \in Callers, ArchiveRefused(c) PROVE WorkerInv'
  BY <1>7
  DEF ArchiveRefused
<1>8. ASSUME NEW c \in Callers, ArchiveCommit(c) PROVE WorkerInv'
  BY <1>8
  DEF ArchiveCommit
<1>9. ASSUME NEW c \in Callers, ArchiveStopServer(c) PROVE WorkerInv'
  BY <1>9
  DEF ArchiveStopServer
<1>10. ASSUME NEW s \in Sessions, StartWorker(s) PROVE WorkerInv'
  BY <1>10
  DEF StartWorker, TypeOK, Drop, Take, TurnPcs
<1>11. ASSUME NEW s \in Sessions, Poll(s) PROVE WorkerInv'
  BY <1>11, FirstQueued
  DEF Poll, TypeOK, Drop, Take, TurnPcs
<1>12. ASSUME NEW s \in Sessions, Claim(s) PROVE WorkerInv'
  BY <1>12
  DEF Claim, TypeOK, Drop, Take, Goto, TurnPcs
<1>13. ASSUME NEW s \in Sessions, Begin(s) PROVE WorkerInv'
  BY <1>13
  DEF Begin, TypeOK, Goto, TurnPcs
<1>14. ASSUME NEW s \in Sessions, PrepareFails(s) PROVE WorkerInv'
  BY <1>14
  DEF PrepareFails, TypeOK, Goto, TurnPcs
<1>15. ASSUME NEW s \in Sessions, StartCodex(s) PROVE WorkerInv'
  BY <1>15
  DEF StartCodex, TypeOK, Goto, TurnPcs
<1>16. ASSUME NEW s \in Sessions, RecordCodexId(s) PROVE WorkerInv'
  BY <1>16
  DEF RecordCodexId, Goto, TurnPcs
<1>17. ASSUME NEW s \in Sessions, Register(s) PROVE WorkerInv'
  BY <1>17
  DEF Register, TypeOK, Goto, TurnPcs
<1>18. ASSUME NEW s \in Sessions, CheckCancel(s) PROVE WorkerInv'
  BY <1>18
  DEF CheckCancel, TypeOK, Rechecked, CancelSeen, Goto, TurnPcs
<1>19. ASSUME NEW s \in Sessions, CodexResult(s) PROVE WorkerInv'
  BY <1>19
  DEF CodexResult, TypeOK, Goto, TurnPcs
<1>20. ASSUME NEW s \in Sessions, Settle(s) PROVE WorkerInv'
  BY <1>20
  DEF Settle, TypeOK, Goto, TurnPcs
<1>21. ASSUME NEW s \in Sessions, CommitOutcome(s) PROVE WorkerInv'
  BY <1>21
  DEF CommitOutcome, TypeOK, Outcome, Goto, TurnPcs
<1>22. ASSUME NEW s \in Sessions, CommitFails(s) PROVE WorkerInv'
  BY <1>22
  DEF CommitFails, TypeOK, Outcome, Drop, Take, TurnPcs
<1>23. ASSUME NEW s \in Sessions, Release(s) PROVE WorkerInv'
  BY <1>23
  DEF Release, TypeOK, Goto, TurnPcs
<1>24. ASSUME NEW s \in Sessions, DeliverClaim(s) PROVE WorkerInv'
  BY <1>24
  DEF DeliverClaim, Deliverable, TypeOK, AfterDelivery, Drop, Take, Goto, TurnPcs
<1>25. ASSUME NEW s \in Sessions, DeliverSend(s) PROVE WorkerInv'
  BY <1>25
  DEF DeliverSend, TypeOK, AfterDelivery, Drop, Take, Goto, TurnPcs
<1>26. ASSUME NEW s \in Sessions, DeliverMark(s) PROVE WorkerInv'
  BY <1>26
  DEF DeliverMark, TypeOK, AfterDelivery, Drop, Take, TurnPcs
<1>35. ASSUME NEW s \in Sessions, DeliverUnclaimed(s) PROVE WorkerInv'
  BY <1>35
  DEF DeliverUnclaimed, Deliverable, TypeOK, AfterDelivery, Drop, Take, TurnPcs
<1>36. ASSUME NEW s \in Sessions, DeliverFails(s) PROVE WorkerInv'
  BY <1>36
  DEF DeliverFails, TypeOK, AfterDelivery, Drop, Take, TurnPcs
<1>27. ASSUME NEW t \in Turns, CodexEnds(t) PROVE WorkerInv'
  BY <1>27
  DEF CodexEnds, TypeOK
<1>28. ASSUME NEW t \in Turns, RecoverDelivery(t) PROVE WorkerInv'
  BY <1>28, HomeAssumption
  DEF RecoverDelivery, TypeOK, Take, Undelivered, Unoccupied
<1>29. ASSUME Stop PROVE WorkerInv'
  BY <1>29
  DEF Stop
<1>30. ASSUME StopSweep PROVE WorkerInv'
  BY <1>30
  DEF StopSweep, TurnPcs
<1>31. ASSUME Crash PROVE WorkerInv'
  BY <1>31
  DEF Crash, TurnPcs
<1>32. ASSUME Recover PROVE WorkerInv'
  BY <1>32
  DEF Recover, Recovered
<1>33. ASSUME Serve PROVE WorkerInv'
  BY <1>33
  DEF Serve
<1>34. CASE UNCHANGED vars
  BY <1>34 DEF vars
<1> QED
  BY <1>1, <1>2, <1>3, <1>4, <1>5, <1>6, <1>7, <1>8, <1>9, <1>10, <1>11, <1>12,
    <1>13, <1>14, <1>15, <1>16, <1>17, <1>18, <1>19, <1>20, <1>21, <1>22, <1>23,
    <1>24, <1>25, <1>26, <1>27, <1>28, <1>29, <1>30, <1>31, <1>32, <1>33, <1>34,
    <1>35, <1>36
  DEF Next, CallerStep, WorkerStep

-----------------------------------------------------------------------------
\* A turn that reached Codex is past the queue, and one about to reach it has not
\* been there before.
StartInv ==
    /\ \A t \in Turns : starts[t] > 0 =>
         starts[t] = 1 /\ status[t] \notin {"absent", "queued"}
    /\ \A s \in Sessions : pc[s] \in {"begin", "prepare"} =>
         starts[cur[s]] = 0 /\ status[cur[s]] \notin {"absent", "queued"}

LEMMA StartStep == TypeOK /\ WorkerInv /\ StartInv /\ [Next]_vars => StartInv'
<1> SUFFICES ASSUME TypeOK, WorkerInv, StartInv, [Next]_vars PROVE StartInv'
  OBVIOUS
<1>0. TypeOK'
  BY TypeStep
<1> USE DEF WorkerInv, dbVars, procVars, extVars, lifeVars, worker, StartInv
<1>1. ASSUME NEW c \in Callers, NEW s \in Sessions, EnqueueCheck(c, s) PROVE StartInv'
  BY <1>1
  DEF EnqueueCheck
<1>2. ASSUME NEW c \in Callers, NEW s \in Sessions, ArchiveCheck(c, s) PROVE StartInv'
  BY <1>2
  DEF ArchiveCheck
<1>3. ASSUME NEW c \in Callers, NEW t \in Turns, CancelRead(c, t) PROVE StartInv'
  BY <1>3
  DEF CancelRead
<1>4. ASSUME NEW c \in Callers, EnqueueInsert(c) PROVE StartInv'
  BY <1>4, FirstIsLeast
  DEF EnqueueInsert, Absent, TurnsOf
<1>5. ASSUME NEW c \in Callers, CancelCommit(c) PROVE StartInv'
  <2> DEFINE t == call[c].turn
  <2>1. t \in Turns
    BY <1>5, CallTyped DEF CancelCommit
  <2>2. /\ \/ status' = [status EXCEPT ![t] = "cancelled"] \/ status' = status
        /\ UNCHANGED <<codexId, delivery, server, swept, pc, cur, registered, extVars>>
    BY <1>5 DEF CancelCommit
  <2> HIDE DEF t
  <2> QED
    BY <2>1, <2>2 DEF TypeOK, TurnPcs
<1>6. ASSUME NEW c \in Callers, CancelInterrupt(c) PROVE StartInv'
  BY <1>6, CallTyped
  DEF CancelInterrupt, TypeOK
<1>7. ASSUME NEW c \in Callers, ArchiveRefused(c) PROVE StartInv'
  BY <1>7
  DEF ArchiveRefused
<1>8. ASSUME NEW c \in Callers, ArchiveCommit(c) PROVE StartInv'
  BY <1>8
  DEF ArchiveCommit
<1>9. ASSUME NEW c \in Callers, ArchiveStopServer(c) PROVE StartInv'
  BY <1>9
  DEF ArchiveStopServer
<1>10. ASSUME NEW s \in Sessions, StartWorker(s) PROVE StartInv'
  BY <1>10
  DEF StartWorker, TypeOK, Drop, Take
<1>11. ASSUME NEW s \in Sessions, Poll(s) PROVE StartInv'
  BY <1>11, FirstQueued
  DEF Poll, TypeOK, Drop, Take, TurnPcs
<1>12. ASSUME NEW s \in Sessions, Claim(s) PROVE StartInv'
  BY <1>12
  DEF Claim, TypeOK, Drop, Take, Goto, TurnPcs
<1>13. ASSUME NEW s \in Sessions, Begin(s) PROVE StartInv'
  BY <1>13
  DEF Begin, TypeOK, Goto, TurnPcs
<1>14. ASSUME NEW s \in Sessions, PrepareFails(s) PROVE StartInv'
  BY <1>14
  DEF PrepareFails, TypeOK, Goto, TurnPcs
<1>15. ASSUME NEW s \in Sessions, StartCodex(s) PROVE StartInv'
  BY <1>15
  DEF StartCodex, TypeOK, Goto, TurnPcs
<1>16. ASSUME NEW s \in Sessions, RecordCodexId(s) PROVE StartInv'
  BY <1>16
  DEF RecordCodexId, Goto
<1>17. ASSUME NEW s \in Sessions, Register(s) PROVE StartInv'
  BY <1>17
  DEF Register, TypeOK, Goto
<1>18. ASSUME NEW s \in Sessions, CheckCancel(s) PROVE StartInv'
  BY <1>18
  DEF CheckCancel, TypeOK, Rechecked, CancelSeen, Goto
<1>19. ASSUME NEW s \in Sessions, CodexResult(s) PROVE StartInv'
  BY <1>19
  DEF CodexResult, TypeOK, Goto
<1>20. ASSUME NEW s \in Sessions, Settle(s) PROVE StartInv'
  BY <1>20
  DEF Settle, TypeOK, Goto
<1>21. ASSUME NEW s \in Sessions, CommitOutcome(s) PROVE StartInv'
  BY <1>21
  DEF CommitOutcome, Outcome, Goto
<1>22. ASSUME NEW s \in Sessions, CommitFails(s) PROVE StartInv'
  BY <1>22
  DEF CommitFails, Outcome, Drop, Take
<1>23. ASSUME NEW s \in Sessions, Release(s) PROVE StartInv'
  BY <1>23
  DEF Release, TypeOK, Goto
<1>24. ASSUME NEW s \in Sessions, DeliverClaim(s) PROVE StartInv'
  BY <1>24
  DEF DeliverClaim, Deliverable, TypeOK, AfterDelivery, Drop, Take, Goto
<1>25. ASSUME NEW s \in Sessions, DeliverSend(s) PROVE StartInv'
  BY <1>25
  DEF DeliverSend, TypeOK, AfterDelivery, Drop, Take, Goto
<1>26. ASSUME NEW s \in Sessions, DeliverMark(s) PROVE StartInv'
  BY <1>26
  DEF DeliverMark, AfterDelivery, Drop, Take
<1>35. ASSUME NEW s \in Sessions, DeliverUnclaimed(s) PROVE StartInv'
  BY <1>35
  DEF DeliverUnclaimed, Deliverable, AfterDelivery, Drop, Take
<1>36. ASSUME NEW s \in Sessions, DeliverFails(s) PROVE StartInv'
  BY <1>36
  DEF DeliverFails, AfterDelivery, Drop, Take
<1>27. ASSUME NEW t \in Turns, CodexEnds(t) PROVE StartInv'
  BY <1>27
  DEF CodexEnds
<1>28. ASSUME NEW t \in Turns, RecoverDelivery(t) PROVE StartInv'
  BY <1>28, HomeAssumption
  DEF RecoverDelivery, Take, Undelivered, Unoccupied
<1>29. ASSUME Stop PROVE StartInv'
  BY <1>29
  DEF Stop
<1>30. ASSUME StopSweep PROVE StartInv'
  BY <1>30
  DEF StopSweep
<1>31. ASSUME Crash PROVE StartInv'
  BY <1>31
  DEF Crash
<1>32. ASSUME Recover PROVE StartInv'
  BY <1>32
  DEF Recover, Recovered
<1>33. ASSUME Serve PROVE StartInv'
  BY <1>33
  DEF Serve
<1>34. CASE UNCHANGED vars
  BY <1>34 DEF vars
<1> QED
  BY <1>1, <1>2, <1>3, <1>4, <1>5, <1>6, <1>7, <1>8, <1>9, <1>10, <1>11, <1>12,
    <1>13, <1>14, <1>15, <1>16, <1>17, <1>18, <1>19, <1>20, <1>21, <1>22, <1>23,
    <1>24, <1>25, <1>26, <1>27, <1>28, <1>29, <1>30, <1>31, <1>32, <1>33, <1>34,
    <1>35, <1>36
  DEF Next, CallerStep, WorkerStep

\* Whatever crashes, restarts, cancellations and lost worker threads happen, no
\* turn is handed to Codex twice.
THEOREM AtMostOneStart == Spec => []StartedOnce
<1>1. Init => TypeOK /\ WorkerInv /\ StartInv
  BY TypeInit DEF Init, WorkerInv, TurnPcs, StartInv
<1>2. TypeOK /\ WorkerInv /\ StartInv /\ [Next]_vars => (TypeOK /\ WorkerInv /\ StartInv)'
  BY TypeStep, WorkerStays, StartStep
<1>3. TypeOK /\ WorkerInv /\ StartInv => StartedOnce
  BY DEF StartInv, StartedOnce, TypeOK
<1> QED
  BY <1>1, <1>2, <1>3, PTL DEF Spec

-----------------------------------------------------------------------------
\* A result is sent under a claim that no later claim can repeat.
SendInv ==
    /\ SentAfterEnd /\ DeliveredOnce
    /\ \A s \in Sessions : pc[s] = "send" =>
         /\ sends[cur[s]] = 0
         /\ status[cur[s]] \in TerminalStatuses
         /\ delivery[cur[s]] \notin {"none", "pending"}

LEMMA SendStep == TypeOK /\ WorkerInv /\ SendInv /\ [Next]_vars => SendInv'
<1> SUFFICES ASSUME TypeOK, WorkerInv, SendInv, [Next]_vars PROVE SendInv'
  OBVIOUS
<1>0. TypeOK'
  BY TypeStep
<1> USE DEF WorkerInv, dbVars, procVars, extVars, lifeVars, worker, SendInv
<1>1. ASSUME NEW c \in Callers, NEW s \in Sessions, EnqueueCheck(c, s) PROVE SendInv'
  BY <1>1
  DEF EnqueueCheck, SentAfterEnd, DeliveredOnce
<1>2. ASSUME NEW c \in Callers, NEW s \in Sessions, ArchiveCheck(c, s) PROVE SendInv'
  BY <1>2
  DEF ArchiveCheck, SentAfterEnd, DeliveredOnce
<1>3. ASSUME NEW c \in Callers, NEW t \in Turns, CancelRead(c, t) PROVE SendInv'
  BY <1>3
  DEF CancelRead, SentAfterEnd, DeliveredOnce, Statuses, ActiveStatuses,
    TerminalStatuses
<1>4. ASSUME NEW c \in Callers, EnqueueInsert(c) PROVE SendInv'
  BY <1>4, FirstIsLeast
  DEF EnqueueInsert, Absent, TurnsOf, SentAfterEnd, DeliveredOnce, Statuses,
    ActiveStatuses, TerminalStatuses
<1>5. ASSUME NEW c \in Callers, CancelCommit(c) PROVE SendInv'
  <2> DEFINE t == call[c].turn
  <2>1. t \in Turns
    BY <1>5, CallTyped DEF CancelCommit
  <2>2. /\ \/ status' = [status EXCEPT ![t] = "cancelled"] \/ status' = status
        /\ UNCHANGED <<codexId, delivery, server, swept, pc, cur, registered, extVars>>
    BY <1>5 DEF CancelCommit
  <2> HIDE DEF t
  <2> QED
    BY <2>1, <2>2 DEF TypeOK, TurnPcs, TerminalStatuses, SentAfterEnd, DeliveredOnce
<1>6. ASSUME NEW c \in Callers, CancelInterrupt(c) PROVE SendInv'
  BY <1>6, CallTyped
  DEF CancelInterrupt, TypeOK, SentAfterEnd, DeliveredOnce, Statuses, ActiveStatuses,
    TerminalStatuses
<1>7. ASSUME NEW c \in Callers, ArchiveRefused(c) PROVE SendInv'
  BY <1>7
  DEF ArchiveRefused, SentAfterEnd, DeliveredOnce
<1>8. ASSUME NEW c \in Callers, ArchiveCommit(c) PROVE SendInv'
  BY <1>8
  DEF ArchiveCommit, SentAfterEnd, DeliveredOnce
<1>9. ASSUME NEW c \in Callers, ArchiveStopServer(c) PROVE SendInv'
  BY <1>9
  DEF ArchiveStopServer, SentAfterEnd, DeliveredOnce
<1>10. ASSUME NEW s \in Sessions, StartWorker(s) PROVE SendInv'
  BY <1>10
  DEF StartWorker, TypeOK, Drop, Take, SentAfterEnd, DeliveredOnce
<1>11. ASSUME NEW s \in Sessions, Poll(s) PROVE SendInv'
  BY <1>11, FirstQueued
  DEF Poll, TypeOK, Drop, Take, TurnPcs, SentAfterEnd, DeliveredOnce, Statuses,
    ActiveStatuses, TerminalStatuses
<1>12. ASSUME NEW s \in Sessions, Claim(s) PROVE SendInv'
  BY <1>12
  DEF Claim, TypeOK, Drop, Take, Goto, TurnPcs, SentAfterEnd, DeliveredOnce,
    Statuses, ActiveStatuses, TerminalStatuses
<1>13. ASSUME NEW s \in Sessions, Begin(s) PROVE SendInv'
  BY <1>13
  DEF Begin, TypeOK, Goto, TurnPcs, SentAfterEnd, DeliveredOnce, Statuses,
    ActiveStatuses, TerminalStatuses
<1>14. ASSUME NEW s \in Sessions, PrepareFails(s) PROVE SendInv'
  BY <1>14
  DEF PrepareFails, TypeOK, Goto, SentAfterEnd, DeliveredOnce
<1>15. ASSUME NEW s \in Sessions, StartCodex(s) PROVE SendInv'
  BY <1>15
  DEF StartCodex, TypeOK, Goto, SentAfterEnd, DeliveredOnce
<1>16. ASSUME NEW s \in Sessions, RecordCodexId(s) PROVE SendInv'
  BY <1>16
  DEF RecordCodexId, Goto, SentAfterEnd, DeliveredOnce
<1>17. ASSUME NEW s \in Sessions, Register(s) PROVE SendInv'
  BY <1>17
  DEF Register, TypeOK, Goto, SentAfterEnd, DeliveredOnce
<1>18. ASSUME NEW s \in Sessions, CheckCancel(s) PROVE SendInv'
  BY <1>18
  DEF CheckCancel, TypeOK, Rechecked, CancelSeen, Goto, SentAfterEnd, DeliveredOnce
<1>19. ASSUME NEW s \in Sessions, CodexResult(s) PROVE SendInv'
  BY <1>19
  DEF CodexResult, TypeOK, Goto, SentAfterEnd, DeliveredOnce
<1>20. ASSUME NEW s \in Sessions, Settle(s) PROVE SendInv'
  BY <1>20
  DEF Settle, TypeOK, Goto, SentAfterEnd, DeliveredOnce, Statuses, ActiveStatuses,
    TerminalStatuses
<1>21. ASSUME NEW s \in Sessions, CommitOutcome(s) PROVE SendInv'
  BY <1>21
  DEF CommitOutcome, Outcome, Goto, SentAfterEnd, DeliveredOnce, Statuses,
    ActiveStatuses, TerminalStatuses
<1>22. ASSUME NEW s \in Sessions, CommitFails(s) PROVE SendInv'
  BY <1>22
  DEF CommitFails, Outcome, Drop, Take, SentAfterEnd, DeliveredOnce
<1>23. ASSUME NEW s \in Sessions, Release(s) PROVE SendInv'
  BY <1>23
  DEF Release, TypeOK, Goto, TurnPcs, SentAfterEnd, DeliveredOnce
<1>24. ASSUME NEW s \in Sessions, DeliverClaim(s) PROVE SendInv'
  BY <1>24
  DEF DeliverClaim, Deliverable, TypeOK, AfterDelivery, Drop, Take, Goto, TurnPcs,
    SentAfterEnd, DeliveredOnce
<1>25. ASSUME NEW s \in Sessions, DeliverSend(s) PROVE SendInv'
  BY <1>25
  DEF DeliverSend, TypeOK, AfterDelivery, Drop, Take, Goto, TurnPcs, SentAfterEnd,
    DeliveredOnce
<1>26. ASSUME NEW s \in Sessions, DeliverMark(s) PROVE SendInv'
  BY <1>26
  DEF DeliverMark, AfterDelivery, Drop, Take, SentAfterEnd, DeliveredOnce
<1>35. ASSUME NEW s \in Sessions, DeliverUnclaimed(s) PROVE SendInv'
  BY <1>35
  DEF DeliverUnclaimed, Deliverable, TypeOK, AfterDelivery, Drop, Take, TurnPcs,
    SentAfterEnd, DeliveredOnce
<1>36. ASSUME NEW s \in Sessions, DeliverFails(s) PROVE SendInv'
  BY <1>36
  DEF DeliverFails, TypeOK, AfterDelivery, Drop, Take, SentAfterEnd, DeliveredOnce
<1>27. ASSUME NEW t \in Turns, CodexEnds(t) PROVE SendInv'
  BY <1>27
  DEF CodexEnds, SentAfterEnd, DeliveredOnce
<1>28. ASSUME NEW t \in Turns, RecoverDelivery(t) PROVE SendInv'
  BY <1>28, HomeAssumption
  DEF RecoverDelivery, Take, Undelivered, Unoccupied, SentAfterEnd, DeliveredOnce
<1>29. ASSUME Stop PROVE SendInv'
  BY <1>29
  DEF Stop, SentAfterEnd, DeliveredOnce
<1>30. ASSUME StopSweep PROVE SendInv'
  BY <1>30
  DEF StopSweep, SentAfterEnd, DeliveredOnce
<1>31. ASSUME Crash PROVE SendInv'
  BY <1>31
  DEF Crash, SentAfterEnd, DeliveredOnce, Statuses, ActiveStatuses, TerminalStatuses
<1>32. ASSUME Recover PROVE SendInv'
  BY <1>32
  DEF Recover, Recovered, SentAfterEnd, DeliveredOnce, Statuses, ActiveStatuses,
    TerminalStatuses
<1>33. ASSUME Serve PROVE SendInv'
  BY <1>33
  DEF Serve, SentAfterEnd, DeliveredOnce
<1>34. CASE UNCHANGED vars
  BY <1>34 DEF vars, SentAfterEnd, DeliveredOnce
<1> QED
  BY <1>1, <1>2, <1>3, <1>4, <1>5, <1>6, <1>7, <1>8, <1>9, <1>10, <1>11, <1>12,
    <1>13, <1>14, <1>15, <1>16, <1>17, <1>18, <1>19, <1>20, <1>21, <1>22, <1>23,
    <1>24, <1>25, <1>26, <1>27, <1>28, <1>29, <1>30, <1>31, <1>32, <1>33, <1>34,
    <1>35, <1>36
  DEF Next, CallerStep, WorkerStep

\* No result is handed to the transport twice, also when the process dies between
\* the provider's acceptance and the receipt being stored.
THEOREM AtMostOneDelivery == Spec => []DeliveredOnce
<1>1. Init => TypeOK /\ WorkerInv /\ SendInv
  BY TypeInit DEF Init, WorkerInv, TurnPcs, SendInv, SentAfterEnd, DeliveredOnce
<1>2. TypeOK /\ WorkerInv /\ SendInv /\ [Next]_vars => (TypeOK /\ WorkerInv /\ SendInv)'
  BY TypeStep, WorkerStays, SendStep
<1>3. TypeOK /\ WorkerInv /\ SendInv => DeliveredOnce
  BY DEF SendInv
<1> QED
  BY <1>1, <1>2, <1>3, PTL DEF Spec

\* A result is only sent once its turn is final and the delivery is claimed.
THEOREM OnlyFinishedDelivered == Spec => []SentAfterEnd
<1>1. Init => TypeOK /\ WorkerInv /\ SendInv
  BY TypeInit DEF Init, WorkerInv, TurnPcs, SendInv, SentAfterEnd, DeliveredOnce
<1>2. TypeOK /\ WorkerInv /\ SendInv /\ [Next]_vars => (TypeOK /\ WorkerInv /\ SendInv)'
  BY TypeStep, WorkerStays, SendStep
<1>3. TypeOK /\ WorkerInv /\ SendInv => SentAfterEnd
  BY DEF SendInv
<1> QED
  BY <1>1, <1>2, <1>3, PTL DEF Spec

-----------------------------------------------------------------------------
\* Whoever comes second of a cancellation and the start of the Codex turn sees
\* the other: the request thread the Codex turn id, or the worker the request.
Interrupting(t) == \E c \in Callers : call[c] = [op |-> "interrupt", turn |-> t]

CancelInv ==
    \A s \in Sessions :
        /\ pc[s] \in {"register", "check", "wait"} => codexId[cur[s]]
        /\ pc[s] = "wait" /\ status[cur[s]] = "running" /\ cancelReq[cur[s]]
           => Interrupting(cur[s]) \/ cur[s] \in interruptSent

LEMMA CancelStep == TypeOK /\ WorkerInv /\ CancelInv /\ [Next]_vars => CancelInv'
<1> SUFFICES ASSUME TypeOK, WorkerInv, CancelInv, [Next]_vars PROVE CancelInv'
  OBVIOUS
<1>0. TypeOK'
  BY TypeStep
<1> USE DEF WorkerInv, dbVars, procVars, extVars, lifeVars, worker, CancelInv
<1>1. ASSUME NEW c \in Callers, NEW s \in Sessions, EnqueueCheck(c, s) PROVE CancelInv'
  <2>1. \A t \in Turns : Interrupting(t) => Interrupting(t)'
    BY <1>1 DEF EnqueueCheck, TypeOK, Interrupting, Idle
  <2> QED
    BY <1>1, <2>1 DEF EnqueueCheck, TypeOK, TurnPcs
<1>2. ASSUME NEW c \in Callers, NEW s \in Sessions, ArchiveCheck(c, s) PROVE CancelInv'
  <2>1. \A t \in Turns : Interrupting(t) => Interrupting(t)'
    BY <1>2 DEF ArchiveCheck, TypeOK, Interrupting, Idle
  <2> QED
    BY <1>2, <2>1 DEF ArchiveCheck, TypeOK, TurnPcs
<1>3. ASSUME NEW c \in Callers, NEW t \in Turns, CancelRead(c, t) PROVE CancelInv'
  <2>1. \A u \in Turns : Interrupting(u) => Interrupting(u)'
    BY <1>3 DEF CancelRead, TypeOK, Interrupting, Idle
  <2> QED
    BY <1>3, <2>1 DEF CancelRead, TypeOK, TurnPcs
<1>4. ASSUME NEW c \in Callers, EnqueueInsert(c) PROVE CancelInv'
  BY <1>4, FirstIsLeast
  DEF EnqueueInsert, TypeOK, Absent, TurnsOf, Interrupting
<1>5. ASSUME NEW c \in Callers, CancelCommit(c) PROVE CancelInv'
  <2> DEFINE t == call[c].turn
  <2>1. t \in Turns /\ call[c].seen \in ActiveStatuses
    BY <1>5, CallTyped DEF CancelCommit
  <2>2. \A u \in Turns : Interrupting(u) => Interrupting(u)'
    BY <1>5 DEF CancelCommit, TypeOK, Interrupting
  <2>3. \A s \in Sessions : pc[s] \in {"register", "check", "wait"} => codexId'[cur'[s]]
    BY <1>5 DEF CancelCommit
  <2>4. CASE call[c].seen = "queued"
    BY <1>5, <2>1, <2>2, <2>3, <2>4 DEF CancelCommit, TypeOK, TurnPcs
  <2>5. CASE call[c].seen = "running"
    <3>1. Interrupting(t)'
      BY <1>5, <2>5 DEF CancelCommit, TypeOK, Interrupting
    <3> QED
      BY <1>5, <2>1, <2>2, <2>3, <2>5, <3>1 DEF CancelCommit, TypeOK, TurnPcs
  <2> QED
    BY <2>1, <2>4, <2>5 DEF ActiveStatuses
<1>6. ASSUME NEW c \in Callers, CancelInterrupt(c) PROVE CancelInv'
  BY <1>6, CallTyped
  DEF CancelInterrupt, Interrupting
<1>7. ASSUME NEW c \in Callers, ArchiveRefused(c) PROVE CancelInv'
  BY <1>7
  DEF ArchiveRefused, Interrupting
<1>8. ASSUME NEW c \in Callers, ArchiveCommit(c) PROVE CancelInv'
  BY <1>8
  DEF ArchiveCommit, Interrupting
<1>9. ASSUME NEW c \in Callers, ArchiveStopServer(c) PROVE CancelInv'
  BY <1>9
  DEF ArchiveStopServer, Interrupting
<1>10. ASSUME NEW s \in Sessions, StartWorker(s) PROVE CancelInv'
  BY <1>10
  DEF StartWorker, TypeOK, Drop, Take, Interrupting
<1>11. ASSUME NEW s \in Sessions, Poll(s) PROVE CancelInv'
  BY <1>11, FirstQueued
  DEF Poll, TypeOK, Drop, Take, TurnPcs, Interrupting
<1>12. ASSUME NEW s \in Sessions, Claim(s) PROVE CancelInv'
  BY <1>12
  DEF Claim, TypeOK, Drop, Take, Goto, TurnPcs, Interrupting
<1>13. ASSUME NEW s \in Sessions, Begin(s) PROVE CancelInv'
  BY <1>13
  DEF Begin, TypeOK, Goto, TurnPcs, Interrupting
<1>14. ASSUME NEW s \in Sessions, PrepareFails(s) PROVE CancelInv'
  BY <1>14
  DEF PrepareFails, TypeOK, Goto, Interrupting
<1>15. ASSUME NEW s \in Sessions, StartCodex(s) PROVE CancelInv'
  BY <1>15
  DEF StartCodex, TypeOK, Goto, TurnPcs, Interrupting
<1>16. ASSUME NEW s \in Sessions, RecordCodexId(s) PROVE CancelInv'
  BY <1>16
  DEF RecordCodexId, TypeOK, Goto, TurnPcs, Interrupting
<1>17. ASSUME NEW s \in Sessions, Register(s) PROVE CancelInv'
  BY <1>17
  DEF Register, TypeOK, Goto, Interrupting
<1>18. ASSUME NEW s \in Sessions, CheckCancel(s) PROVE CancelInv'
  BY <1>18
  DEF CheckCancel, TypeOK, Rechecked, CancelSeen, Goto, Interrupting
<1>19. ASSUME NEW s \in Sessions, CodexResult(s) PROVE CancelInv'
  BY <1>19
  DEF CodexResult, TypeOK, Goto, Interrupting
<1>20. ASSUME NEW s \in Sessions, Settle(s) PROVE CancelInv'
  BY <1>20
  DEF Settle, TypeOK, Goto, Interrupting
<1>21. ASSUME NEW s \in Sessions, CommitOutcome(s) PROVE CancelInv'
  BY <1>21
  DEF CommitOutcome, Outcome, Goto, Interrupting
<1>22. ASSUME NEW s \in Sessions, CommitFails(s) PROVE CancelInv'
  BY <1>22
  DEF CommitFails, Outcome, Drop, Take, Interrupting
<1>23. ASSUME NEW s \in Sessions, Release(s) PROVE CancelInv'
  BY <1>23
  DEF Release, TypeOK, Goto, Interrupting
<1>24. ASSUME NEW s \in Sessions, DeliverClaim(s) PROVE CancelInv'
  BY <1>24
  DEF DeliverClaim, Deliverable, TypeOK, AfterDelivery, Drop, Take, Goto, Interrupting
<1>25. ASSUME NEW s \in Sessions, DeliverSend(s) PROVE CancelInv'
  BY <1>25
  DEF DeliverSend, TypeOK, AfterDelivery, Drop, Take, Goto, Interrupting
<1>26. ASSUME NEW s \in Sessions, DeliverMark(s) PROVE CancelInv'
  BY <1>26
  DEF DeliverMark, AfterDelivery, Drop, Take, Interrupting
<1>35. ASSUME NEW s \in Sessions, DeliverUnclaimed(s) PROVE CancelInv'
  BY <1>35
  DEF DeliverUnclaimed, Deliverable, AfterDelivery, Drop, Take, Interrupting
<1>36. ASSUME NEW s \in Sessions, DeliverFails(s) PROVE CancelInv'
  BY <1>36
  DEF DeliverFails, AfterDelivery, Drop, Take, Interrupting
<1>27. ASSUME NEW t \in Turns, CodexEnds(t) PROVE CancelInv'
  BY <1>27
  DEF CodexEnds, Interrupting
<1>28. ASSUME NEW t \in Turns, RecoverDelivery(t) PROVE CancelInv'
  BY <1>28, HomeAssumption
  DEF RecoverDelivery, Take, Undelivered, Unoccupied, Interrupting
<1>29. ASSUME Stop PROVE CancelInv'
  BY <1>29
  DEF Stop, Interrupting
<1>30. ASSUME StopSweep PROVE CancelInv'
  BY <1>30
  DEF StopSweep, Interrupting
<1>31. ASSUME Crash PROVE CancelInv'
  BY <1>31
  DEF Crash
<1>32. ASSUME Recover PROVE CancelInv'
  BY <1>32
  DEF Recover, Recovered, Interrupting
<1>33. ASSUME Serve PROVE CancelInv'
  BY <1>33
  DEF Serve, Interrupting
<1>34. CASE UNCHANGED vars
  BY <1>34 DEF vars, Interrupting
<1> QED
  BY <1>1, <1>2, <1>3, <1>4, <1>5, <1>6, <1>7, <1>8, <1>9, <1>10, <1>11, <1>12,
    <1>13, <1>14, <1>15, <1>16, <1>17, <1>18, <1>19, <1>20, <1>21, <1>22, <1>23,
    <1>24, <1>25, <1>26, <1>27, <1>28, <1>29, <1>30, <1>31, <1>32, <1>33, <1>34,
    <1>35, <1>36
  DEF Next, CallerStep, WorkerStep

\* A turn that was running when its cancellation was requested is interrupted.
THEOREM CancellationReachesCodex == Spec => []CancelReachesCodex
<1>1. Init => TypeOK /\ WorkerInv /\ CancelInv
  BY TypeInit DEF Init, WorkerInv, TurnPcs, CancelInv
<1>2. TypeOK /\ WorkerInv /\ CancelInv /\ [Next]_vars =>
        (TypeOK /\ WorkerInv /\ CancelInv)'
  BY TypeStep, WorkerStays, CancelStep
<1>3. TypeOK /\ WorkerInv /\ CancelInv => CancelReachesCodex
  <2> SUFFICES ASSUME TypeOK, CancelInv, NEW t \in Turns, status[t] = "running",
                      cancelReq[t], Attends(Home[t], t, {"wait"}),
                      ~Interrupting(t)
               PROVE  t \in interruptSent
    BY DEF CancelReachesCodex, Interrupting
  <2>1. Home[t] \in Sessions /\ pc[Home[t]] = "wait" /\ cur[Home[t]] = t
    BY HomeAssumption DEF Attends
  <2> QED
    BY <2>1 DEF CancelInv
<1> QED
  BY <1>1, <1>2, <1>3, PTL DEF Spec

-----------------------------------------------------------------------------
\* The same between stop() and the start: the worker is in _active before it
\* looks at _stop, and stop() sets _stop before it looks at _active.
StopInv ==
    /\ swept => server = "stopping"
    /\ \A s \in Sessions :
         /\ pc[s] \in {"check", "wait"} => cur[s] \in registered
         /\ pc[s] = "wait" /\ swept => cur[s] \in interruptSent

LEMMA StopStep == TypeOK /\ WorkerInv /\ StopInv /\ [Next]_vars => StopInv'
<1> SUFFICES ASSUME TypeOK, WorkerInv, StopInv, [Next]_vars PROVE StopInv'
  OBVIOUS
<1>0. TypeOK'
  BY TypeStep
<1> USE DEF WorkerInv, dbVars, procVars, extVars, lifeVars, worker, StopInv
<1>1. ASSUME NEW c \in Callers, NEW s \in Sessions, EnqueueCheck(c, s) PROVE StopInv'
  BY <1>1
  DEF EnqueueCheck, Stopping
<1>2. ASSUME NEW c \in Callers, NEW s \in Sessions, ArchiveCheck(c, s) PROVE StopInv'
  BY <1>2
  DEF ArchiveCheck, Stopping
<1>3. ASSUME NEW c \in Callers, NEW t \in Turns, CancelRead(c, t) PROVE StopInv'
  BY <1>3
  DEF CancelRead, Stopping
<1>4. ASSUME NEW c \in Callers, EnqueueInsert(c) PROVE StopInv'
  BY <1>4, FirstIsLeast
  DEF EnqueueInsert, Absent, TurnsOf, Stopping
<1>5. ASSUME NEW c \in Callers, CancelCommit(c) PROVE StopInv'
  BY <1>5, CallTyped
  DEF CancelCommit, Stopping
<1>6. ASSUME NEW c \in Callers, CancelInterrupt(c) PROVE StopInv'
  BY <1>6, CallTyped
  DEF CancelInterrupt, Stopping
<1>7. ASSUME NEW c \in Callers, ArchiveRefused(c) PROVE StopInv'
  BY <1>7
  DEF ArchiveRefused, Stopping
<1>8. ASSUME NEW c \in Callers, ArchiveCommit(c) PROVE StopInv'
  BY <1>8
  DEF ArchiveCommit, Stopping
<1>9. ASSUME NEW c \in Callers, ArchiveStopServer(c) PROVE StopInv'
  BY <1>9
  DEF ArchiveStopServer, Stopping
<1>10. ASSUME NEW s \in Sessions, StartWorker(s) PROVE StopInv'
  BY <1>10
  DEF StartWorker, TypeOK, Drop, Take, Stopping
<1>11. ASSUME NEW s \in Sessions, Poll(s) PROVE StopInv'
  BY <1>11, FirstQueued
  DEF Poll, TypeOK, Drop, Take, Stopping
<1>12. ASSUME NEW s \in Sessions, Claim(s) PROVE StopInv'
  BY <1>12
  DEF Claim, TypeOK, Drop, Take, Goto, Stopping
<1>13. ASSUME NEW s \in Sessions, Begin(s) PROVE StopInv'
  BY <1>13
  DEF Begin, TypeOK, Goto, Stopping
<1>14. ASSUME NEW s \in Sessions, PrepareFails(s) PROVE StopInv'
  BY <1>14
  DEF PrepareFails, TypeOK, Goto, Stopping
<1>15. ASSUME NEW s \in Sessions, StartCodex(s) PROVE StopInv'
  BY <1>15
  DEF StartCodex, TypeOK, Goto, Stopping
<1>16. ASSUME NEW s \in Sessions, RecordCodexId(s) PROVE StopInv'
  BY <1>16
  DEF RecordCodexId, Goto, Stopping
<1>17. ASSUME NEW s \in Sessions, Register(s) PROVE StopInv'
  BY <1>17
  DEF Register, TypeOK, Goto, Stopping
<1>18. ASSUME NEW s \in Sessions, CheckCancel(s) PROVE StopInv'
  BY <1>18
  DEF CheckCancel, TypeOK, Rechecked, CancelSeen, Goto, Stopping
<1>19. ASSUME NEW s \in Sessions, CodexResult(s) PROVE StopInv'
  BY <1>19
  DEF CodexResult, TypeOK, Goto, Stopping
<1>20. ASSUME NEW s \in Sessions, Settle(s) PROVE StopInv'
  BY <1>20
  DEF Settle, TypeOK, Goto, Stopping
<1>21. ASSUME NEW s \in Sessions, CommitOutcome(s) PROVE StopInv'
  BY <1>21
  DEF CommitOutcome, Outcome, Goto, TurnPcs, Stopping
<1>22. ASSUME NEW s \in Sessions, CommitFails(s) PROVE StopInv'
  BY <1>22
  DEF CommitFails, Outcome, Drop, Take, TurnPcs, Stopping
<1>23. ASSUME NEW s \in Sessions, Release(s) PROVE StopInv'
  BY <1>23
  DEF Release, TypeOK, Goto, TurnPcs, Stopping
<1>24. ASSUME NEW s \in Sessions, DeliverClaim(s) PROVE StopInv'
  BY <1>24
  DEF DeliverClaim, Deliverable, TypeOK, AfterDelivery, Drop, Take, Goto, Stopping
<1>25. ASSUME NEW s \in Sessions, DeliverSend(s) PROVE StopInv'
  BY <1>25
  DEF DeliverSend, TypeOK, AfterDelivery, Drop, Take, Goto, Stopping
<1>26. ASSUME NEW s \in Sessions, DeliverMark(s) PROVE StopInv'
  BY <1>26
  DEF DeliverMark, AfterDelivery, Drop, Take, Stopping
<1>35. ASSUME NEW s \in Sessions, DeliverUnclaimed(s) PROVE StopInv'
  BY <1>35
  DEF DeliverUnclaimed, Deliverable, AfterDelivery, Drop, Take, Stopping
<1>36. ASSUME NEW s \in Sessions, DeliverFails(s) PROVE StopInv'
  BY <1>36
  DEF DeliverFails, AfterDelivery, Drop, Take, Stopping
<1>27. ASSUME NEW t \in Turns, CodexEnds(t) PROVE StopInv'
  BY <1>27
  DEF CodexEnds, Stopping
<1>28. ASSUME NEW t \in Turns, RecoverDelivery(t) PROVE StopInv'
  BY <1>28, HomeAssumption
  DEF RecoverDelivery, Take, Undelivered, Unoccupied, Stopping
<1>29. ASSUME Stop PROVE StopInv'
  BY <1>29
  DEF Stop, Stopping
<1>30. ASSUME StopSweep PROVE StopInv'
  BY <1>30
  DEF StopSweep, Stopping
<1>31. ASSUME Crash PROVE StopInv'
  BY <1>31
  DEF Crash, Stopping
<1>32. ASSUME Recover PROVE StopInv'
  BY <1>32
  DEF Recover, Recovered, Stopping
<1>33. ASSUME Serve PROVE StopInv'
  BY <1>33
  DEF Serve, Stopping
<1>34. CASE UNCHANGED vars
  BY <1>34 DEF vars, Stopping
<1> QED
  BY <1>1, <1>2, <1>3, <1>4, <1>5, <1>6, <1>7, <1>8, <1>9, <1>10, <1>11, <1>12,
    <1>13, <1>14, <1>15, <1>16, <1>17, <1>18, <1>19, <1>20, <1>21, <1>22, <1>23,
    <1>24, <1>25, <1>26, <1>27, <1>28, <1>29, <1>30, <1>31, <1>32, <1>33, <1>34,
    <1>35, <1>36
  DEF Next, CallerStep, WorkerStep

\* No worker waits for a Codex turn that the finished sweep of stop() missed.
THEOREM ShutdownReachesCodex == Spec => []StopReachesCodex
<1>1. Init => TypeOK /\ WorkerInv /\ StopInv
  BY TypeInit DEF Init, WorkerInv, TurnPcs, StopInv
<1>2. TypeOK /\ WorkerInv /\ StopInv /\ [Next]_vars => (TypeOK /\ WorkerInv /\ StopInv)'
  BY TypeStep, WorkerStays, StopStep
<1>3. TypeOK /\ WorkerInv /\ StopInv => StopReachesCodex
  BY HomeAssumption DEF StopInv, StopReachesCodex, Attends
<1> QED
  BY <1>1, <1>2, <1>3, PTL DEF Spec

-----------------------------------------------------------------------------
\* While a worker runs a turn, the turn is running or was cancelled by a stale
\* read.
Running == {"begin", "prepare", "started", "register", "check", "wait", "settle",
"publish",
            "error", "succeed", "cancelling", "fail"}

RunInv ==
    \A s \in Sessions : pc[s] \in Running => status[cur[s]] \in {"running", "cancelled"}

LEMMA RunStep == TypeOK /\ WorkerInv /\ RunInv /\ [Next]_vars => RunInv'
<1> SUFFICES ASSUME TypeOK, WorkerInv, RunInv, [Next]_vars PROVE RunInv'
  OBVIOUS
<1>0. TypeOK'
  BY TypeStep
<1> USE DEF WorkerInv, dbVars, procVars, extVars, lifeVars, worker, RunInv
<1>1. ASSUME NEW c \in Callers, NEW s \in Sessions, EnqueueCheck(c, s) PROVE RunInv'
  BY <1>1
  DEF EnqueueCheck, Running
<1>2. ASSUME NEW c \in Callers, NEW s \in Sessions, ArchiveCheck(c, s) PROVE RunInv'
  BY <1>2
  DEF ArchiveCheck, Running
<1>3. ASSUME NEW c \in Callers, NEW t \in Turns, CancelRead(c, t) PROVE RunInv'
  BY <1>3
  DEF CancelRead, Running
<1>4. ASSUME NEW c \in Callers, EnqueueInsert(c) PROVE RunInv'
  <2>1. status[First(Absent(call[c].session))] = "absent"
    BY <1>4, FirstIsLeast DEF EnqueueInsert, Absent, TurnsOf
  <2>2. \A t \in Turns : status[t] # "absent" => status'[t] = status[t]
    BY <1>4, <2>1 DEF EnqueueInsert, TypeOK
  <2> QED
    BY <1>4, <2>2 DEF EnqueueInsert, TypeOK, Running
<1>5. ASSUME NEW c \in Callers, CancelCommit(c) PROVE RunInv'
  <2> DEFINE t == call[c].turn
  <2>1. t \in Turns
    BY <1>5, CallTyped DEF CancelCommit
  <2>2. /\ \/ status' = [status EXCEPT ![t] = "cancelled"] \/ status' = status
        /\ UNCHANGED <<codexId, delivery, server, swept, pc, cur, registered, extVars>>
    BY <1>5 DEF CancelCommit
  <2> HIDE DEF t
  <2> QED
    BY <2>1, <2>2 DEF TypeOK, TurnPcs, Running
<1>6. ASSUME NEW c \in Callers, CancelInterrupt(c) PROVE RunInv'
  BY <1>6, CallTyped
  DEF CancelInterrupt, TypeOK, Running
<1>7. ASSUME NEW c \in Callers, ArchiveRefused(c) PROVE RunInv'
  BY <1>7
  DEF ArchiveRefused, Running
<1>8. ASSUME NEW c \in Callers, ArchiveCommit(c) PROVE RunInv'
  BY <1>8
  DEF ArchiveCommit, Running
<1>9. ASSUME NEW c \in Callers, ArchiveStopServer(c) PROVE RunInv'
  BY <1>9
  DEF ArchiveStopServer, Running
<1>10. ASSUME NEW s \in Sessions, StartWorker(s) PROVE RunInv'
  BY <1>10
  DEF StartWorker, TypeOK, Drop, Take, Running
<1>11. ASSUME NEW s \in Sessions, Poll(s) PROVE RunInv'
  BY <1>11, FirstQueued
  DEF Poll, TypeOK, Drop, Take, TurnPcs, Running
<1>12. ASSUME NEW s \in Sessions, Claim(s) PROVE RunInv'
  BY <1>12
  DEF Claim, TypeOK, Drop, Take, Goto, TurnPcs, Running
<1>13. ASSUME NEW s \in Sessions, Begin(s) PROVE RunInv'
  BY <1>13
  DEF Begin, TypeOK, Goto, TurnPcs, Running
<1>14. ASSUME NEW s \in Sessions, PrepareFails(s) PROVE RunInv'
  BY <1>14
  DEF PrepareFails, TypeOK, Goto, Running
<1>15. ASSUME NEW s \in Sessions, StartCodex(s) PROVE RunInv'
  BY <1>15
  DEF StartCodex, TypeOK, Goto, Running
<1>16. ASSUME NEW s \in Sessions, RecordCodexId(s) PROVE RunInv'
  BY <1>16
  DEF RecordCodexId, Goto, Running
<1>17. ASSUME NEW s \in Sessions, Register(s) PROVE RunInv'
  BY <1>17
  DEF Register, TypeOK, Goto, Running
<1>18. ASSUME NEW s \in Sessions, CheckCancel(s) PROVE RunInv'
  BY <1>18
  DEF CheckCancel, TypeOK, Rechecked, CancelSeen, Goto, Running
<1>19. ASSUME NEW s \in Sessions, CodexResult(s) PROVE RunInv'
  BY <1>19
  DEF CodexResult, TypeOK, Goto, Running
<1>20. ASSUME NEW s \in Sessions, Settle(s) PROVE RunInv'
  BY <1>20
  DEF Settle, TypeOK, Goto, TurnPcs, Running
<1>21. ASSUME NEW s \in Sessions, CommitOutcome(s) PROVE RunInv'
  BY <1>21
  DEF CommitOutcome, TypeOK, Outcome, Goto, TurnPcs, Running
<1>22. ASSUME NEW s \in Sessions, CommitFails(s) PROVE RunInv'
  BY <1>22
  DEF CommitFails, TypeOK, Outcome, Drop, Take, Running
<1>23. ASSUME NEW s \in Sessions, Release(s) PROVE RunInv'
  BY <1>23
  DEF Release, TypeOK, Goto, Running
<1>24. ASSUME NEW s \in Sessions, DeliverClaim(s) PROVE RunInv'
  BY <1>24
  DEF DeliverClaim, Deliverable, TypeOK, AfterDelivery, Drop, Take, Goto, Running
<1>25. ASSUME NEW s \in Sessions, DeliverSend(s) PROVE RunInv'
  BY <1>25
  DEF DeliverSend, TypeOK, AfterDelivery, Drop, Take, Goto, Running
<1>26. ASSUME NEW s \in Sessions, DeliverMark(s) PROVE RunInv'
  BY <1>26
  DEF DeliverMark, AfterDelivery, Drop, Take, Running
<1>35. ASSUME NEW s \in Sessions, DeliverUnclaimed(s) PROVE RunInv'
  BY <1>35
  DEF DeliverUnclaimed, Deliverable, AfterDelivery, Drop, Take, Running
<1>36. ASSUME NEW s \in Sessions, DeliverFails(s) PROVE RunInv'
  BY <1>36
  DEF DeliverFails, AfterDelivery, Drop, Take, Running
<1>27. ASSUME NEW t \in Turns, CodexEnds(t) PROVE RunInv'
  BY <1>27
  DEF CodexEnds, Running
<1>28. ASSUME NEW t \in Turns, RecoverDelivery(t) PROVE RunInv'
  BY <1>28, HomeAssumption
  DEF RecoverDelivery, Take, Undelivered, Unoccupied, Running
<1>29. ASSUME Stop PROVE RunInv'
  BY <1>29
  DEF Stop, Running
<1>30. ASSUME StopSweep PROVE RunInv'
  BY <1>30
  DEF StopSweep, Running
<1>31. ASSUME Crash PROVE RunInv'
  BY <1>31
  DEF Crash, Running
<1>32. ASSUME Recover PROVE RunInv'
  BY <1>32
  DEF Recover, Recovered, Running
<1>33. ASSUME Serve PROVE RunInv'
  BY <1>33
  DEF Serve, Running
<1>34. CASE UNCHANGED vars
  BY <1>34 DEF vars, Running
<1> QED
  BY <1>1, <1>2, <1>3, <1>4, <1>5, <1>6, <1>7, <1>8, <1>9, <1>10, <1>11, <1>12,
    <1>13, <1>14, <1>15, <1>16, <1>17, <1>18, <1>19, <1>20, <1>21, <1>22, <1>23,
    <1>24, <1>25, <1>26, <1>27, <1>28, <1>29, <1>30, <1>31, <1>32, <1>33, <1>34,
    <1>35, <1>36
  DEF Next, CallerStep, WorkerStep

LEMMA FinishedStep ==
    TypeOK /\ WorkerInv /\ RunInv /\ [Next]_vars => \A t \in Turns : KeepsFinished(t)
<1> SUFFICES ASSUME TypeOK, WorkerInv, RunInv, [Next]_vars, NEW t \in Turns,
                    status[t] \in TerminalStatuses
             PROVE  KeepsFinished(t)
  BY DEF KeepsFinished
<1>1. CASE status' = status
  BY <1>1 DEF KeepsFinished
<1>2. ASSUME NEW c \in Callers, EnqueueInsert(c) PROVE KeepsFinished(t)
  <2>1. status[First(Absent(call[c].session))] = "absent"
    BY <1>2, FirstIsLeast DEF EnqueueInsert, Absent, TurnsOf
  <2> QED
    BY <1>2, <2>1 DEF EnqueueInsert, KeepsFinished, TypeOK, TerminalStatuses
<1>3. ASSUME NEW c \in Callers, CancelCommit(c) PROVE KeepsFinished(t)
  BY <1>3 DEF CancelCommit, KeepsFinished, TypeOK
<1>4. ASSUME NEW s \in Sessions, Claim(s) PROVE KeepsFinished(t)
  BY <1>4 DEF Claim, KeepsFinished, TypeOK, TerminalStatuses
<1>5. ASSUME NEW s \in Sessions, Begin(s) PROVE KeepsFinished(t)
  BY <1>5 DEF Begin, KeepsFinished, TypeOK, WorkerInv, RunInv, Running, TurnPcs,
              TerminalStatuses, Attends
<1>6. ASSUME NEW s \in Sessions, CommitOutcome(s) PROVE KeepsFinished(t)
  BY <1>6 DEF CommitOutcome, Outcome, KeepsFinished, TypeOK, WorkerInv, RunInv, Running,
              TurnPcs, TerminalStatuses, Attends
<1>7. ASSUME Recover PROVE KeepsFinished(t)
  BY <1>7 DEF Recover, Recovered, KeepsFinished, TerminalStatuses
<1>8. ASSUME NEW s \in Sessions,
WorkerStep(s) \/ StartWorker(s) \/ PrepareFails(s) \/ CommitFails(s)
               \/ DeliverFails(s),
             ~Claim(s), ~Begin(s), ~CommitOutcome(s)
      PROVE  status' = status
  BY <1>8 DEF WorkerStep, StartWorker, Poll, PrepareFails, StartCodex, RecordCodexId,
    Register,
       CheckCancel, Rechecked, CodexResult, Settle, CommitFails, Release, DeliverClaim,
       DeliverSend, DeliverMark, DeliverUnclaimed, DeliverFails, dbVars
<1>9. CASE UNCHANGED vars
  BY <1>1, <1>9 DEF vars, dbVars
<1>10. ASSUME NEW c \in Callers, NEW s \in Sessions, NEW u \in Turns,
              \/ EnqueueCheck(c, s) \/ ArchiveCheck(c, s) \/ CancelRead(c, u)
              \/ CancelInterrupt(c) \/ ArchiveCommit(c) \/ ArchiveRefused(c)
              \/ ArchiveStopServer(c)
       PROVE  status' = status
  BY <1>10 DEF EnqueueCheck, ArchiveCheck, CancelRead, CancelInterrupt, ArchiveCommit,
       ArchiveRefused, ArchiveStopServer, dbVars
<1>11. ASSUME NEW u \in Turns,
              CodexEnds(u) \/ RecoverDelivery(u) \/ Stop \/ StopSweep \/ Crash \/ Serve
       PROVE  status' = status
  BY <1>11 DEF CodexEnds, RecoverDelivery, Stop, StopSweep, Crash, Serve, dbVars
<1> QED
  BY HomeAssumption, <1>1, <1>2, <1>3, <1>4, <1>5, <1>6, <1>7, <1>8, <1>9, <1>10, <1>11
  DEF Next, CallerStep

\* A finished turn is never reopened, and its outcome is replaced only by a stale
\* cancellation or under one.
THEOREM FinishedTurnsStay == Spec => FinishedStays
<1>1. Init => TypeOK /\ WorkerInv /\ RunInv
  BY TypeInit DEF Init, WorkerInv, TurnPcs, RunInv, Running
<1>2. TypeOK /\ WorkerInv /\ RunInv /\ [Next]_vars => (TypeOK /\ WorkerInv /\ RunInv)'
  BY TypeStep, WorkerStays, RunStep
<1>3. TypeOK /\ WorkerInv /\ RunInv /\ [Next]_vars =>
        [\A t \in Turns : KeepsFinished(t)]_vars
  BY FinishedStep
<1> QED
  BY <1>1, <1>2, <1>3, PTL DEF Spec, FinishedStays

-----------------------------------------------------------------------------
\* A cancellation names a turn that exists; turns are created in order, and a
\* worker takes one only when the earlier ones of the session are finished.
CallInv == \A c \in Callers : call[c].op = "cancel" => status[call[c].turn] # "absent"

OrderInv ==
    /\ \A t, u \in Turns :
         Home[t] = Home[u] /\ u < t /\ status[t] # "absent" => status[u] # "absent"
    /\ \A s \in Sessions : \A u \in Turns : Home[u] = s /\ u < cur[s] =>
         /\ pc[s] = "claim" => status[u] \notin {"absent", "queued"}
         /\ pc[s] \in {"begin", "prepare"} => status[u] \in TerminalStatuses

LEMMA CreatedStays ==
    TypeOK /\ [Next]_vars => \A t \in Turns : status[t] # "absent" => status'[t] # "absent"
<1> SUFFICES ASSUME TypeOK, [Next]_vars, NEW t \in Turns, status[t] # "absent"
             PROVE  status'[t] # "absent"
  OBVIOUS
<1>1. CASE status' = status
  BY <1>1
<1>2. ASSUME NEW c \in Callers, EnqueueInsert(c) PROVE status'[t] # "absent"
  <2>1. status[First(Absent(call[c].session))] = "absent"
    BY <1>2, FirstIsLeast DEF EnqueueInsert, Absent, TurnsOf
  <2> QED
    BY <1>2, <2>1 DEF EnqueueInsert, TypeOK
<1>3. ASSUME NEW c \in Callers, CancelCommit(c) PROVE status'[t] # "absent"
  BY <1>3 DEF CancelCommit, TypeOK
<1>4. ASSUME NEW s \in Sessions, Claim(s) PROVE status'[t] # "absent"
  BY <1>4 DEF Claim, TypeOK
<1>5. ASSUME NEW s \in Sessions, Begin(s) PROVE status'[t] # "absent"
  BY <1>5 DEF Begin, TypeOK
<1>6. ASSUME NEW s \in Sessions, CommitOutcome(s) PROVE status'[t] # "absent"
  BY <1>6 DEF CommitOutcome, Outcome, TypeOK
<1>7. ASSUME Recover PROVE status'[t] # "absent"
  BY <1>7 DEF Recover, Recovered
<1>8. ASSUME NEW s \in Sessions,
WorkerStep(s) \/ StartWorker(s) \/ PrepareFails(s) \/ CommitFails(s)
               \/ DeliverFails(s),
             ~Claim(s), ~Begin(s), ~CommitOutcome(s)
      PROVE  status' = status
  BY <1>8 DEF WorkerStep, StartWorker, Poll, PrepareFails, StartCodex, RecordCodexId,
    Register,
       CheckCancel, Rechecked, CodexResult, Settle, CommitFails, Release, DeliverClaim,
       DeliverSend, DeliverMark, DeliverUnclaimed, DeliverFails, dbVars
<1>9. CASE UNCHANGED vars
  BY <1>1, <1>9 DEF vars, dbVars
<1>10. ASSUME NEW c \in Callers, NEW s \in Sessions, NEW u \in Turns,
              \/ EnqueueCheck(c, s) \/ ArchiveCheck(c, s) \/ CancelRead(c, u)
              \/ CancelInterrupt(c) \/ ArchiveCommit(c) \/ ArchiveRefused(c)
              \/ ArchiveStopServer(c)
       PROVE  status' = status
  BY <1>10 DEF EnqueueCheck, ArchiveCheck, CancelRead, CancelInterrupt, ArchiveCommit,
       ArchiveRefused, ArchiveStopServer, dbVars
<1>11. ASSUME NEW u \in Turns,
              CodexEnds(u) \/ RecoverDelivery(u) \/ Stop \/ StopSweep \/ Crash \/ Serve
       PROVE  status' = status
  BY <1>11 DEF CodexEnds, RecoverDelivery, Stop, StopSweep, Crash, Serve, dbVars
<1> QED
  BY HomeAssumption, <1>1, <1>2, <1>3, <1>4, <1>5, <1>6, <1>7, <1>8, <1>9, <1>10, <1>11
  DEF Next, CallerStep

LEMMA CallStep == TypeOK /\ CallInv /\ [Next]_vars => CallInv'
<1> SUFFICES ASSUME TypeOK, CallInv, [Next]_vars, NEW c \in Callers,
             call'[c].op = "cancel"
             PROVE  status'[call'[c].turn] # "absent"
  BY DEF CallInv
<1>1. CASE call'[c] = call[c]
  BY <1>1, CreatedStays, CallTyped DEF CallInv
<1>2. ASSUME NEW t \in Turns, CancelRead(c, t) PROVE status'[call'[c].turn] # "absent"
  BY <1>2 DEF CancelRead, TypeOK, ActiveStatuses, dbVars
<1>3. \/ call'[c] = call[c]
      \/ \E t \in Turns : CancelRead(c, t)
  BY DEF Next, CallerStep, WorkerStep, EnqueueCheck, ArchiveCheck, CancelRead,
    EnqueueInsert,
       CancelCommit, CancelInterrupt, ArchiveRefused, ArchiveCommit, ArchiveStopServer,
       StartWorker, Poll, Claim, Begin, PrepareFails, StartCodex, RecordCodexId,
       Register,
       CheckCancel, Rechecked, CodexResult, Settle, CommitOutcome, CommitFails, Release,
       DeliverClaim, DeliverSend, DeliverMark, DeliverUnclaimed, DeliverFails, CodexEnds, RecoverDelivery, Stop,
       StopSweep,
       Crash, Recover, Recovered, Serve, vars, procVars, TypeOK, Idle
<1> QED
  BY <1>1, <1>2, <1>3

LEMMA KeepsOrder ==
    ASSUME OrderInv, cur' = cur,
           \A r \in Sessions : pc'[r] = pc[r] \/ pc'[r] = "release",
           \A u \in Turns : status'[u] = "absent" => status[u] = "absent",
           \A u \in Turns : status[u] = "absent" => status'[u] = "absent",
           \A u \in Turns : status'[u] = "queued" => status[u] = "queued",
           \A u \in Turns : status[u] \in TerminalStatuses => status'[u] \in TerminalStatuses
    PROVE  OrderInv'
<1>1. ASSUME NEW t \in Turns, NEW u \in Turns, Home[t] = Home[u], u < t,
             status'[t] # "absent"
      PROVE  status'[u] # "absent"
  BY <1>1 DEF OrderInv
<1>2. ASSUME NEW s \in Sessions, NEW u \in Turns, Home[u] = s, u < cur'[s],
             pc'[s] = "claim"
      PROVE  status'[u] \notin {"absent", "queued"}
  BY <1>2 DEF OrderInv
<1>3. ASSUME NEW s \in Sessions, NEW u \in Turns, Home[u] = s, u < cur'[s],
             pc'[s] \in {"begin", "prepare"}
      PROVE  status'[u] \in TerminalStatuses
  BY <1>3 DEF OrderInv
<1> QED
  BY <1>1, <1>2, <1>3 DEF OrderInv

LEMMA OrderStep ==
    TypeOK /\ WorkerInv /\ RunInv /\ CallInv /\ OrderInv /\ [Next]_vars => OrderInv'
<1> SUFFICES ASSUME TypeOK, WorkerInv, RunInv, CallInv, OrderInv,
[Next]_vars PROVE OrderInv'
  OBVIOUS
<1>0. TypeOK'
  BY TypeStep
<1> USE TurnsAssumption, HomeAssumption DEF WorkerInv, dbVars, procVars, extVars,
         lifeVars, worker, OrderInv
<1>1. ASSUME NEW c \in Callers, NEW s \in Sessions, EnqueueCheck(c, s) PROVE OrderInv'
  BY <1>1
  DEF EnqueueCheck
<1>2. ASSUME NEW c \in Callers, NEW s \in Sessions, ArchiveCheck(c, s) PROVE OrderInv'
  BY <1>2
  DEF ArchiveCheck
<1>3. ASSUME NEW c \in Callers, NEW t \in Turns, CancelRead(c, t) PROVE OrderInv'
  BY <1>3
  DEF CancelRead, Statuses, ActiveStatuses, TerminalStatuses
<1>4. ASSUME NEW c \in Callers, EnqueueInsert(c) PROVE OrderInv'
  BY <1>4, FirstIsLeast
  DEF EnqueueInsert, Absent, TurnsOf, Statuses, ActiveStatuses, TerminalStatuses
<1>5. ASSUME NEW c \in Callers, CancelCommit(c) PROVE OrderInv'
  <2> DEFINE t == call[c].turn
  <2>1. t \in Turns /\ status[t] # "absent"
    BY <1>5, CallTyped DEF CancelCommit, CallInv
  <2>2. /\ \/ status' = [status EXCEPT ![t] = "cancelled"] \/ status' = status
        /\ UNCHANGED <<pc, cur>>
    BY <1>5 DEF CancelCommit
  <2> HIDE DEF t
  <2>3. \A u \in Turns : status'[u] = "absent" => status[u] = "absent"
    BY <2>1, <2>2 DEF TypeOK
  <2>4. \A u \in Turns : status[u] = "absent" => status'[u] = "absent"
    BY <2>1, <2>2 DEF TypeOK
  <2>5. \A u \in Turns : status'[u] = "queued" => status[u] = "queued"
    BY <2>1, <2>2 DEF TypeOK, TerminalStatuses
  <2>6. \A u \in Turns : status[u] \in TerminalStatuses => status'[u] \in TerminalStatuses
    BY <2>1, <2>2 DEF TypeOK, TerminalStatuses
  <2>8. pc' = pc /\ cur' = cur
    BY <2>2
  <2>9. \A r \in Sessions : pc'[r] = pc[r] \/ pc'[r] = "release"
    BY <2>8
  <2> HIDE DEF OrderInv
  <2> QED
    BY <2>3, <2>8, <2>9, <2>4, <2>5, <2>6, KeepsOrder
<1>6. ASSUME NEW c \in Callers, CancelInterrupt(c) PROVE OrderInv'
  BY <1>6, CallTyped
  DEF CancelInterrupt
<1>7. ASSUME NEW c \in Callers, ArchiveRefused(c) PROVE OrderInv'
  BY <1>7
  DEF ArchiveRefused
<1>8. ASSUME NEW c \in Callers, ArchiveCommit(c) PROVE OrderInv'
  BY <1>8
  DEF ArchiveCommit
<1>9. ASSUME NEW c \in Callers, ArchiveStopServer(c) PROVE OrderInv'
  BY <1>9
  DEF ArchiveStopServer
<1>10. ASSUME NEW s \in Sessions, StartWorker(s) PROVE OrderInv'
  BY <1>10, CallTyped
  DEF StartWorker, Drop, Take
<1>11. ASSUME NEW s \in Sessions, Poll(s) PROVE OrderInv'
  <2>1. CASE Eligible(s) /\ Take(s, "claim", First(Queued(s)))
    <3>1. /\ First(Queued(s)) \in Queued(s)
          /\ \A u \in Queued(s) : First(Queued(s)) <= u
      BY <2>1, FirstIsLeast DEF Eligible, Queued, TurnsOf
    <3>2. First(Queued(s)) \in Turns /\ Home[First(Queued(s))] = s
          /\ status[First(Queued(s))] = "queued"
      BY <3>1 DEF Queued, TurnsOf
    <3>3. ASSUME NEW u \in Turns, Home[u] = s, u < First(Queued(s))
          PROVE  status[u] \notin {"absent", "queued"}
      <4>1. u \in Nat /\ First(Queued(s)) \in Nat
        BY <3>2
      <4>2. u \notin Queued(s)
        BY <3>1, <3>3, <4>1
      <4> QED
        BY <3>2, <3>3, <4>2 DEF Queued, TurnsOf
    <3> QED
      BY <1>11, <2>1, <3>2, <3>3 DEF Poll, Take, TypeOK
  <2>2. CASE Drop(s, "none")
    BY <1>11, <2>2 DEF Poll, Drop, Take, TypeOK
  <2> QED
    BY <1>11, <2>1, <2>2 DEF Poll
<1>12. ASSUME NEW s \in Sessions, Claim(s) PROVE OrderInv'
  <2>1. CASE Drop(s, "poll") /\ UNCHANGED status
    BY <1>12, <2>1 DEF Claim, Drop, Take
  <2>2. CASE ~HasRunning(s) /\ Goto(s,
  "begin") /\ status' = [status EXCEPT ![cur[s]] = "running"]
             /\ status[cur[s]] = "queued"
    <3>1. \A u \in Turns : Home[u] = s /\ u < cur[s] => status[u] \in TerminalStatuses
      BY <1>12, <2>2 DEF Claim, HasRunning, TurnsOf, TypeOK, Statuses,
        ActiveStatuses, TerminalStatuses
    <3> QED
      BY <1>12, <2>2, <3>1 DEF Claim, Goto, TypeOK, TurnPcs
  <2> QED
    BY <1>12, <2>1, <2>2 DEF Claim
<1>13. ASSUME NEW s \in Sessions, Begin(s) PROVE OrderInv'
  BY <1>13, CallTyped
  DEF Begin, TypeOK, Goto, TurnPcs, Statuses, ActiveStatuses, TerminalStatuses
<1>14. ASSUME NEW s \in Sessions, PrepareFails(s) PROVE OrderInv'
  BY <1>14, CallTyped
  DEF PrepareFails, TypeOK, Goto
<1>15. ASSUME NEW s \in Sessions, StartCodex(s) PROVE OrderInv'
  BY <1>15, CallTyped
  DEF StartCodex, TypeOK, Goto
<1>16. ASSUME NEW s \in Sessions, RecordCodexId(s) PROVE OrderInv'
  BY <1>16, CallTyped
  DEF RecordCodexId, Goto
<1>17. ASSUME NEW s \in Sessions, Register(s) PROVE OrderInv'
  BY <1>17, CallTyped
  DEF Register, TypeOK, Goto
<1>18. ASSUME NEW s \in Sessions, CheckCancel(s) PROVE OrderInv'
  BY <1>18, CallTyped
  DEF CheckCancel, TypeOK, Rechecked, CancelSeen, Goto
<1>19. ASSUME NEW s \in Sessions, CodexResult(s) PROVE OrderInv'
  BY <1>19, CallTyped
  DEF CodexResult, TypeOK, Goto
<1>20. ASSUME NEW s \in Sessions, Settle(s) PROVE OrderInv'
  BY <1>20, CallTyped
  DEF Settle, TypeOK, Goto
<1>21. ASSUME NEW s \in Sessions, CommitOutcome(s) PROVE OrderInv'
  <2>1. /\ Goto(s, "release")
        /\ \E v \in TerminalStatuses : status' = [status EXCEPT ![cur[s]] = v]
    <3>1. pc[s] \in {"succeed", "cancelling", "fail"}
      BY <1>21 DEF CommitOutcome, Outcome
    <3>2. Outcome[pc[s]] \in TerminalStatuses
      BY <3>1 DEF Outcome, TerminalStatuses
    <3> QED
      BY <1>21, <3>2 DEF CommitOutcome
  <2>2. status[cur[s]] \in {"running", "cancelled"}
    BY <1>21 DEF CommitOutcome, Outcome, RunInv, Running
  <2>3. \A u \in Turns : status'[u] = "absent" => status[u] = "absent"
    BY <2>1, <2>2 DEF TerminalStatuses
  <2>4. \A u \in Turns : status[u] = "absent" => status'[u] = "absent"
    BY <2>1, <2>2 DEF TerminalStatuses
  <2>5. \A u \in Turns : status'[u] = "queued" => status[u] = "queued"
    BY <2>1, <2>2 DEF TerminalStatuses
  <2>6. \A u \in Turns : status[u] \in TerminalStatuses => status'[u] \in TerminalStatuses
    BY <2>1, <2>2 DEF TerminalStatuses
  <2>8. cur' = cur /\ \A r \in Sessions : pc'[r] = pc[r] \/ pc'[r] = "release"
    BY <2>1 DEF Goto
  <2>9. \A r \in Sessions : pc'[r] = pc[r] \/ pc'[r] = "release"
    BY <2>8
  <2> HIDE DEF OrderInv
  <2> QED
    BY <2>3, <2>8, <2>9, <2>4, <2>5, <2>6, KeepsOrder
<1>22. ASSUME NEW s \in Sessions, CommitFails(s) PROVE OrderInv'
  BY <1>22, CallTyped
  DEF CommitFails, TypeOK, Outcome, Drop, Take
<1>23. ASSUME NEW s \in Sessions, Release(s) PROVE OrderInv'
  BY <1>23, CallTyped
  DEF Release, TypeOK, Goto
<1>24. ASSUME NEW s \in Sessions, DeliverClaim(s) PROVE OrderInv'
  BY <1>24, CallTyped
  DEF DeliverClaim, Deliverable, TypeOK, AfterDelivery, Drop, Take, Goto
<1>25. ASSUME NEW s \in Sessions, DeliverSend(s) PROVE OrderInv'
  BY <1>25, CallTyped
  DEF DeliverSend, TypeOK, AfterDelivery, Drop, Take, Goto
<1>26. ASSUME NEW s \in Sessions, DeliverMark(s) PROVE OrderInv'
  BY <1>26, CallTyped
  DEF DeliverMark, TypeOK, AfterDelivery, Drop, Take
<1>35. ASSUME NEW s \in Sessions, DeliverUnclaimed(s) PROVE OrderInv'
  BY <1>35, CallTyped
  DEF DeliverUnclaimed, Deliverable, TypeOK, AfterDelivery, Drop, Take
<1>36. ASSUME NEW s \in Sessions, DeliverFails(s) PROVE OrderInv'
  BY <1>36, CallTyped
  DEF DeliverFails, TypeOK, AfterDelivery, Drop, Take
<1>27. ASSUME NEW t \in Turns, CodexEnds(t) PROVE OrderInv'
  BY <1>27
  DEF CodexEnds
<1>28. ASSUME NEW t \in Turns, RecoverDelivery(t) PROVE OrderInv'
  BY <1>28, HomeAssumption
  DEF RecoverDelivery, Take, Undelivered, Unoccupied
<1>29. ASSUME Stop PROVE OrderInv'
  BY <1>29
  DEF Stop
<1>30. ASSUME StopSweep PROVE OrderInv'
  BY <1>30
  DEF StopSweep
<1>31. ASSUME Crash PROVE OrderInv'
  BY <1>31
  DEF Crash
<1>32. ASSUME Recover PROVE OrderInv'
  BY <1>32
  DEF Recover, Recovered
<1>33. ASSUME Serve PROVE OrderInv'
  BY <1>33
  DEF Serve
<1>34. CASE UNCHANGED vars
  BY <1>34 DEF vars
<1> QED
  BY <1>1, <1>2, <1>3, <1>4, <1>5, <1>6, <1>7, <1>8, <1>9, <1>10, <1>11, <1>12,
    <1>13, <1>14, <1>15, <1>16, <1>17, <1>18, <1>19, <1>20, <1>21, <1>22, <1>23,
    <1>24, <1>25, <1>26, <1>27, <1>28, <1>29, <1>30, <1>31, <1>32, <1>33, <1>34,
    <1>35, <1>36
  DEF Next, CallerStep, WorkerStep

LEMMA OrderedStart ==
    TypeOK /\ WorkerInv /\ OrderInv /\ [Next]_vars
      => \A t \in Turns : starts'[t] # starts[t] => EarlierEnded(t)
<1> SUFFICES ASSUME TypeOK, WorkerInv, OrderInv, [Next]_vars, NEW t \in Turns,
                    starts'[t] # starts[t]
             PROVE  EarlierEnded(t)
  OBVIOUS
<1>1. PICK s \in Sessions : StartCodex(s)
  BY DEF Next, CallerStep, WorkerStep, EnqueueCheck, ArchiveCheck, CancelRead,
    EnqueueInsert,
       CancelCommit, CancelInterrupt, ArchiveRefused, ArchiveCommit, ArchiveStopServer,
       StartWorker, Poll, Claim, Begin, PrepareFails, RecordCodexId, Register,
       CheckCancel,
       Rechecked, CodexResult, Settle, CommitOutcome, CommitFails, Release,
       DeliverClaim,
       DeliverSend, DeliverMark, DeliverUnclaimed, DeliverFails, CodexEnds, RecoverDelivery, Stop, StopSweep, Crash,
       Recover,
       Recovered, Serve, vars, extVars
<1>2. t = cur[s] /\ Home[t] = s /\ pc[s] = "prepare"
  BY <1>1 DEF StartCodex, WorkerInv, TurnPcs
<1> QED
  BY <1>2 DEF OrderInv, EarlierEnded, TurnsOf

\* The turns of a session start in the order of their creation, one after another.
THEOREM TurnsStartInOrder == Spec => InOrder
<1>1. Init => TypeOK /\ WorkerInv /\ RunInv /\ CallInv /\ OrderInv
  BY TypeInit DEF Init, WorkerInv, TurnPcs, RunInv, Running, CallInv, Idle, OrderInv
<1>2. TypeOK /\ WorkerInv /\ RunInv /\ CallInv /\ OrderInv /\ [Next]_vars =>
        (TypeOK /\ WorkerInv /\ RunInv /\ CallInv /\ OrderInv)'
  BY TypeStep, WorkerStays, RunStep, CallStep, OrderStep
<1>3. TypeOK /\ WorkerInv /\ RunInv /\ CallInv /\ OrderInv /\ [Next]_vars =>
        [\A t \in Turns : starts'[t] # starts[t] => EarlierEnded(t)]_vars
  BY OrderedStart
<1> QED
  BY <1>1, <1>2, <1>3, PTL DEF Spec, InOrder

-----------------------------------------------------------------------------
\* Between its claim and the receipt a result is in the hands of one worker, and a
\* turn without a row has none.
ClaimedInv ==
    /\ \A s \in Sessions : pc[s] \in {"send", "mark"} => delivery[cur[s]] = "sending"
    /\ \A t \in Turns : status[t] = "absent" => delivery[t] = "none"

LEMMA ClaimedStep == TypeOK /\ WorkerInv /\ ClaimedInv /\ [Next]_vars => ClaimedInv'
<1> SUFFICES ASSUME TypeOK, WorkerInv, ClaimedInv, [Next]_vars PROVE ClaimedInv'
  OBVIOUS
<1>0. TypeOK' /\ \A t \in Turns : status'[t] = "absent" => status[t] = "absent"
  BY TypeStep, CreatedStays
<1> USE <1>0 DEF WorkerInv, dbVars, procVars, extVars, lifeVars, worker, ClaimedInv
<1>1. ASSUME NEW c \in Callers, NEW s \in Sessions, EnqueueCheck(c, s) PROVE ClaimedInv'
  BY <1>1 DEF EnqueueCheck
<1>2. ASSUME NEW c \in Callers, NEW s \in Sessions, ArchiveCheck(c, s) PROVE ClaimedInv'
  BY <1>2 DEF ArchiveCheck
<1>3. ASSUME NEW c \in Callers, NEW t \in Turns, CancelRead(c, t) PROVE ClaimedInv'
  BY <1>3 DEF CancelRead
<1>4. ASSUME NEW c \in Callers, EnqueueInsert(c) PROVE ClaimedInv'
  <2> DEFINE t == First(Absent(call[c].session))
  <2>1. t \in Turns /\ status[t] = "absent"
    BY <1>4, FirstIsLeast DEF EnqueueInsert, Absent, TurnsOf
  <2>2. \A s \in Sessions : pc[s] \in {"send", "mark"} => cur[s] # t
    BY <2>1
  <2>3. /\ status' = [status EXCEPT ![t] = "queued"]
        /\ \A u \in Turns : u # t => delivery'[u] = delivery[u]
        /\ UNCHANGED <<pc, cur>>
    BY <1>4, <2>1 DEF EnqueueInsert, TypeOK
  <2> HIDE DEF t
  <2> QED
    BY <2>1, <2>2, <2>3 DEF TypeOK, TurnPcs
<1>5. ASSUME NEW c \in Callers, CancelCommit(c) PROVE ClaimedInv'
  BY <1>5 DEF CancelCommit
<1>6. ASSUME NEW c \in Callers, CancelInterrupt(c) PROVE ClaimedInv'
  BY <1>6 DEF CancelInterrupt
<1>7. ASSUME NEW c \in Callers, ArchiveRefused(c) PROVE ClaimedInv'
  BY <1>7 DEF ArchiveRefused
<1>8. ASSUME NEW c \in Callers, ArchiveCommit(c) PROVE ClaimedInv'
  BY <1>8 DEF ArchiveCommit
<1>9. ASSUME NEW c \in Callers, ArchiveStopServer(c) PROVE ClaimedInv'
  BY <1>9 DEF ArchiveStopServer
<1>10. ASSUME NEW s \in Sessions, StartWorker(s) PROVE ClaimedInv'
  BY <1>10 DEF StartWorker, TypeOK, Drop, Take
<1>11. ASSUME NEW s \in Sessions, Poll(s) PROVE ClaimedInv'
  BY <1>11 DEF Poll, TypeOK, Drop, Take, TurnPcs
<1>12. ASSUME NEW s \in Sessions, Claim(s) PROVE ClaimedInv'
  BY <1>12 DEF Claim, TypeOK, Drop, Take, Goto, TurnPcs
<1>13. ASSUME NEW s \in Sessions, Begin(s) PROVE ClaimedInv'
  BY <1>13 DEF Begin, TypeOK, Goto, TurnPcs
<1>14. ASSUME NEW s \in Sessions, PrepareFails(s) PROVE ClaimedInv'
  BY <1>14 DEF PrepareFails, TypeOK, Goto
<1>15. ASSUME NEW s \in Sessions, StartCodex(s) PROVE ClaimedInv'
  BY <1>15 DEF StartCodex, TypeOK, Goto
<1>16. ASSUME NEW s \in Sessions, RecordCodexId(s) PROVE ClaimedInv'
  BY <1>16 DEF RecordCodexId, TypeOK, Goto
<1>17. ASSUME NEW s \in Sessions, Register(s) PROVE ClaimedInv'
  BY <1>17 DEF Register, TypeOK, Goto
<1>18. ASSUME NEW s \in Sessions, CheckCancel(s) PROVE ClaimedInv'
  BY <1>18 DEF CheckCancel, TypeOK, Rechecked, CancelSeen, Goto
<1>19. ASSUME NEW s \in Sessions, CodexResult(s) PROVE ClaimedInv'
  BY <1>19 DEF CodexResult, TypeOK, Goto
<1>20. ASSUME NEW s \in Sessions, Settle(s) PROVE ClaimedInv'
  BY <1>20 DEF Settle, TypeOK, Goto
<1>21. ASSUME NEW s \in Sessions, CommitOutcome(s) PROVE ClaimedInv'
  BY <1>21 DEF CommitOutcome, TypeOK, Outcome, Goto, TurnPcs
<1>22. ASSUME NEW s \in Sessions, CommitFails(s) PROVE ClaimedInv'
  BY <1>22 DEF CommitFails, TypeOK, Outcome, Drop, Take
<1>23. ASSUME NEW s \in Sessions, Release(s) PROVE ClaimedInv'
  BY <1>23 DEF Release, TypeOK, Goto
<1>24. ASSUME NEW s \in Sessions, DeliverClaim(s) PROVE ClaimedInv'
  BY <1>24
  DEF DeliverClaim, Deliverable, TypeOK, AfterDelivery, TerminalStatuses, Drop, Take,
    Goto, TurnPcs
<1>25. ASSUME NEW s \in Sessions, DeliverSend(s) PROVE ClaimedInv'
  BY <1>25 DEF DeliverSend, TypeOK, AfterDelivery, Drop, Take, Goto, TurnPcs
<1>26. ASSUME NEW s \in Sessions, DeliverMark(s) PROVE ClaimedInv'
  BY <1>26 DEF DeliverMark, TypeOK, AfterDelivery, Drop, Take, TurnPcs
<1>35. ASSUME NEW s \in Sessions, DeliverUnclaimed(s) PROVE ClaimedInv'
  BY <1>35 DEF DeliverUnclaimed, Deliverable, TypeOK, AfterDelivery, Drop, Take, TurnPcs
<1>36. ASSUME NEW s \in Sessions, DeliverFails(s) PROVE ClaimedInv'
  BY <1>36 DEF DeliverFails, TypeOK, AfterDelivery, Drop, Take, TurnPcs
<1>27. ASSUME NEW t \in Turns, CodexEnds(t) PROVE ClaimedInv'
  BY <1>27 DEF CodexEnds
<1>28. ASSUME NEW t \in Turns, RecoverDelivery(t) PROVE ClaimedInv'
  BY <1>28 DEF RecoverDelivery, TypeOK, Take, Unoccupied
<1>29. ASSUME Stop PROVE ClaimedInv'
  BY <1>29 DEF Stop
<1>30. ASSUME StopSweep PROVE ClaimedInv'
  BY <1>30 DEF StopSweep
<1>31. ASSUME Crash PROVE ClaimedInv'
  BY <1>31 DEF Crash
<1>32. ASSUME Recover PROVE ClaimedInv'
  BY <1>32 DEF Recover, Recovered
<1>33. ASSUME Serve PROVE ClaimedInv'
  BY <1>33 DEF Serve
<1>34. CASE UNCHANGED vars
  BY <1>34 DEF vars
<1> QED
  BY <1>1, <1>2, <1>3, <1>4, <1>5, <1>6, <1>7, <1>8, <1>9, <1>10, <1>11, <1>12,
    <1>13, <1>14, <1>15, <1>16, <1>17, <1>18, <1>19, <1>20, <1>21, <1>22, <1>23,
    <1>24, <1>25, <1>26, <1>27, <1>28, <1>29, <1>30, <1>31, <1>32, <1>33, <1>34,
    <1>35, <1>36
  DEF Next, CallerStep, WorkerStep

LEMMA LedgerInit == Init => Ledger!Init
BY DEF Init, Ledger!Init, Phase

\* A step that leaves the delivery and the sends alone is a stutter of the ledger.
LEMMA LedgerStutter ==
    ASSUME delivery' = delivery, sends' = sends PROVE UNCHANGED Ledger!vars
BY DEF Ledger!vars, Phase

\* Steps that set the delivery of one turn move it in the ledger alone.
LEMMA OnePhase ==
    ASSUME TypeOK, NEW t \in Turns, NEW d, delivery' = [delivery EXCEPT ![t] = d]
    PROVE  \A u \in Turns : u # t => Phase(u)' = Phase(u)
BY DEF TypeOK, Phase

LEMMA LedgerStep ==
    TypeOK /\ WorkerInv /\ SendInv /\ ClaimedInv /\ [Next]_vars
      => [Ledger!Next]_(Ledger!vars)
<1> SUFFICES ASSUME TypeOK, WorkerInv, SendInv, ClaimedInv, [Next]_vars
             PROVE  Ledger!Next \/ UNCHANGED Ledger!vars
  OBVIOUS
<1> USE DEF dbVars, extVars
<1>1. ASSUME NEW c \in Callers, EnqueueInsert(c) PROVE UNCHANGED Ledger!vars
  <2> DEFINE t == First(Absent(call[c].session))
  <2>1. t \in Turns /\ status[t] = "absent"
    BY <1>1, FirstIsLeast DEF EnqueueInsert, Absent, TurnsOf
  <2>2. delivery[t] = "none"
    BY <2>1 DEF ClaimedInv
  <2>3. PICK d \in {"none", "pending"} : delivery' = [delivery EXCEPT ![t] = d]
    BY <1>1 DEF EnqueueInsert
  <2>4. sends' = sends
    BY <1>1 DEF EnqueueInsert
  <2>5. delivery'[t] \in {"none", "pending"}
    BY <2>1, <2>3 DEF TypeOK
  <2> HIDE DEF t
  <2>6. \A u \in Turns \ {t} : delivery'[u] = delivery[u]
    BY <2>3 DEF TypeOK
  <2>7. \A u \in Turns : Phase(u)' = Phase(u)
    BY <2>2, <2>5, <2>6 DEF Phase
  <2> QED
    BY <2>4, <2>7 DEF Ledger!vars
<1>2. ASSUME NEW s \in Sessions, DeliverClaim(s) PROVE Ledger!Next \/ UNCHANGED Ledger!vars
  <2>1. PICK t \in Turns : t = cur[s]
    BY <1>2 DEF DeliverClaim, TypeOK, TurnPcs
  <2>2. sends' = sends
    BY <1>2 DEF DeliverClaim
  <2>3. CASE delivery' = delivery
    BY <2>2, <2>3, LedgerStutter
  <2>4. CASE delivery[t] = "pending" /\ delivery' = [delivery EXCEPT ![t] = "sending"]
    <3>1. Phase(t) = "waiting" /\ Phase(t)' = "claimed"
      BY <2>4 DEF Phase, TypeOK
    <3>2. \A u \in Turns : u # t => Phase(u)' = Phase(u)
      BY <2>4, OnePhase
    <3> QED
      BY <2>2, <3>1, <3>2 DEF Ledger!Next, Ledger!Claim
  <2> QED
    BY <1>2, <2>1, <2>3, <2>4 DEF DeliverClaim, Deliverable
<1>3. ASSUME NEW s \in Sessions, DeliverSend(s) PROVE Ledger!Next
  <2>1. PICK t \in Turns : t = cur[s]
    BY <1>3 DEF DeliverSend, TypeOK, TurnPcs
  <2>2. delivery[t] = "sending" /\ sends[t] = 0
    BY <1>3, <2>1 DEF DeliverSend, ClaimedInv, SendInv
  <2>3. Phase(t) = "claimed"
    BY <2>2 DEF Phase
  <2>4. CASE delivery' = delivery /\ sends' = [sends EXCEPT ![t] = @ + 1]
    <3>1. sends' = [sends EXCEPT ![t] = 1]
      BY <2>2, <2>4 DEF TypeOK
    <3>2. \A u \in Turns : Phase(u)' = Phase(u)
      BY <2>4 DEF Phase
    <3> QED
      BY <2>2, <2>3, <3>1, <3>2 DEF Ledger!Next, Ledger!Perform
  <2>5. CASE delivery' = [delivery EXCEPT ![t] = "failed"] /\ sends' = sends
    <3>1. Phase(t)' = "settled"
      BY <2>5 DEF Phase, TypeOK
    <3>2. \A u \in Turns : u # t => Phase(u)' = Phase(u)
      BY <2>5, OnePhase
    <3>3. Ledger!Settle({t})
      BY <2>3, <2>5, <3>1, <3>2 DEF Ledger!Settle
    <3> QED
      BY <3>3 DEF Ledger!Next
  <2> QED
    BY <1>3, <2>1, <2>4, <2>5 DEF DeliverSend
<1>4. ASSUME NEW s \in Sessions, DeliverMark(s) PROVE Ledger!Next
  <2>1. PICK t \in Turns : t = cur[s]
    BY <1>4 DEF DeliverMark, TypeOK, TurnPcs
  <2>2. PICK d \in {"delivered", "failed"} : delivery' = [delivery EXCEPT ![t] = d]
    BY <1>4, <2>1 DEF DeliverMark
  <2>3. Phase(t) = "claimed" /\ Phase(t)' = "settled"
    BY <1>4, <2>1, <2>2 DEF DeliverMark, ClaimedInv, Phase, TypeOK
  <2>4. \A u \in Turns : u # t => Phase(u)' = Phase(u)
    BY <2>2, OnePhase
  <2>5. Ledger!Settle({t})
    BY <1>4, <2>3, <2>4 DEF DeliverMark, Ledger!Settle
  <2> QED
    BY <2>5 DEF Ledger!Next
<1>13. ASSUME NEW s \in Sessions, DeliverUnclaimed(s) PROVE Ledger!Next
  <2>1. PICK t \in Turns : t = cur[s]
    BY <1>13 DEF DeliverUnclaimed, TypeOK, TurnPcs
  <2>2. PICK d \in {"delivered", "failed"} : delivery' = [delivery EXCEPT ![t] = d]
    BY <1>13, <2>1 DEF DeliverUnclaimed
  <2>3. Phase(t) = "waiting" /\ Phase(t)' = "settled"
    BY <1>13, <2>1, <2>2 DEF DeliverUnclaimed, Deliverable, Phase, TypeOK
  <2>4. \A u \in Turns : u # t => Phase(u)' = Phase(u)
    BY <2>2, OnePhase
  <2>5. Ledger!Refuse(t)
    BY <1>13, <2>3, <2>4 DEF DeliverUnclaimed, Ledger!Refuse
  <2> QED
    BY <2>5 DEF Ledger!Next
<1>5. ASSUME Recover PROVE Ledger!Next
  <2> DEFINE S == {t \in Turns : delivery[t] = "sending"}
  <2>1. \A t \in S : Phase(t) = "claimed" /\ Phase(t)' = "settled"
    BY <1>5 DEF Recover, Recovered, Phase
  <2>2. \A t \in Turns \ S : Phase(t)' = Phase(t)
    BY <1>5 DEF Recover, Recovered, Phase
  <2>3. S \in SUBSET Turns /\ sends' = sends
    BY <1>5 DEF Recover, Recovered
  <2> HIDE DEF S
  <2>4. Ledger!Settle(S)
    BY <2>1, <2>2, <2>3 DEF Ledger!Settle
  <2> QED
    BY <2>3, <2>4 DEF Ledger!Next
<1>6. CASE delivery' = delivery /\ sends' = sends
  BY <1>6, LedgerStutter
<1>7. ASSUME NEW c \in Callers, CallerStep(c) \/ ArchiveRefused(c), ~EnqueueInsert(c)
      PROVE  delivery' = delivery /\ sends' = sends
  BY <1>7 DEF CallerStep, CancelCommit, CancelInterrupt, ArchiveRefused, ArchiveCommit,
    ArchiveStopServer
<1>8. ASSUME NEW c \in Callers, NEW s \in Sessions, EnqueueCheck(c, s) \/ ArchiveCheck(c, s)
      PROVE  delivery' = delivery /\ sends' = sends
  BY <1>8 DEF EnqueueCheck, ArchiveCheck
<1>9. ASSUME NEW s \in Sessions,
             WorkerStep(s) \/ StartWorker(s) \/ PrepareFails(s) \/ CommitFails(s)
               \/ DeliverFails(s),
             ~DeliverClaim(s), ~DeliverUnclaimed(s), ~DeliverSend(s), ~DeliverMark(s)
      PROVE  delivery' = delivery /\ sends' = sends
  BY <1>9 DEF WorkerStep, StartWorker, Poll, Claim, Begin, PrepareFails, StartCodex,
    RecordCodexId, Register, CheckCancel, Rechecked, CodexResult, Settle, CommitOutcome,
    CommitFails, DeliverFails, Release
<1>10. ASSUME NEW c \in Callers, NEW t \in Turns,
              CancelRead(c, t)
       PROVE  delivery' = delivery /\ sends' = sends
  BY <1>10 DEF CancelRead
<1>11. ASSUME NEW t \in Turns, CodexEnds(t) \/ RecoverDelivery(t)
       PROVE  delivery' = delivery /\ sends' = sends
  BY <1>11 DEF CodexEnds, RecoverDelivery
<1>12. ASSUME Stop \/ StopSweep \/ Crash \/ Serve \/ UNCHANGED vars
       PROVE  delivery' = delivery /\ sends' = sends
  BY <1>12 DEF Stop, StopSweep, Crash, Serve, vars
<1> QED
  BY <1>1, <1>2, <1>3, <1>4, <1>5, <1>6, <1>7, <1>8, <1>9, <1>10,
    <1>11, <1>12, <1>13 DEF Next

\* The delivery of results implements the ledger of effects: claimed once, handed to
\* the transport at most once and only under the claim, and settled by the worker or
\* by the next recovery, never tried again.
THEOREM ImplementsLedger == Spec => LedgerSpec
<1>1. Init => TypeOK /\ WorkerInv /\ SendInv /\ ClaimedInv
  BY TypeInit DEF Init, WorkerInv, TurnPcs, SendInv, SentAfterEnd, DeliveredOnce, ClaimedInv
<1>2. TypeOK /\ WorkerInv /\ SendInv /\ ClaimedInv /\ [Next]_vars =>
        (TypeOK /\ WorkerInv /\ SendInv /\ ClaimedInv)'
  BY TypeStep, WorkerStays, SendStep, ClaimedStep
<1> QED
  BY <1>1, <1>2, LedgerInit, LedgerStep, PTL DEF Spec, LedgerSpec, Ledger!Spec
=============================================================================
