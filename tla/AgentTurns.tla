----------------------------- MODULE AgentTurns -----------------------------
(***************************************************************************)
(* The durable conversation turns of an agent: ActSessionService (HTTP and *)
(* Telegram calls), ActTurnDispatcher (one worker thread per session) and  *)
(* deliver_agent_turn_result (the reply sent to the paired transport).     *)
(*                                                                         *)
(* One action is one database statement, one commit or one request to the  *)
(* Codex App Server.  A read and the write that depends on it are separate *)
(* actions wherever the code holds no transaction between them: SQLite     *)
(* opens one at the first write only, and the ORM writes a row by primary  *)
(* key whatever it has become since it was read.                           *)
(***************************************************************************)
EXTENDS Naturals, FiniteSets

CONSTANTS
    Sessions,    \* act_sessions rows
    Turns,       \* act_turns rows, numbered in creation order
    Callers,     \* request threads: HTTP handlers and Telegram pollers
    Home,        \* Home[t] is the session turn t belongs to
    Agent,       \* whose sessions: "act", or "assistant" with its queue of turns
    MaxCrashes,  \* bound: process deaths
    MaxFaults    \* bound: worker threads or deliveries lost to a failed commit

ASSUME TurnsAssumption == Turns \subseteq Nat \ {0}
ASSUME HomeAssumption == Home \in [Turns -> Sessions]
ASSUME AgentAssumption == Agent \in {"act", "assistant"}
ASSUME BoundsAssumption == MaxCrashes \in Nat /\ MaxFaults \in Nat

VARIABLES
    server,        \* life of the backend process
    swept,         \* stop() has interrupted the turns it found in _active
    session,       \* ActSession.status
    status,        \* ActTurn.status
    cancelReq,     \* ActTurn.cancel_requested_at is set
    codexId,       \* ActTurn.codex_turn_id is set
    delivery,      \* ActTurn.delivery_status
    pc,            \* where each session's worker thread is
    cur,           \* the turn it has in hand, 0 for none
    registered,    \* the turns in ActTurnDispatcher._active
    codex,         \* the turn inside the Codex App Server
    interruptSent, \* turn/interrupt was requested for these turns
    call,          \* what each request thread is in the middle of
    starts,        \* history: turn/start requests the App Server accepted
    sends,         \* history: results handed to the transport
    due,           \* the results recover() has still to deliver
    crashes, faults

worker   == <<pc, cur>>
dbVars   == <<session, status, cancelReq, codexId, delivery>>
procVars == <<server, swept, worker, registered, call>>
extVars  == <<codex, interruptSent, starts, sends>>
lifeVars == <<due, crashes, faults>>
vars == <<dbVars, procVars, extVars, lifeVars>>

ActiveStatuses   == {"queued", "running"}
TerminalStatuses == {"succeeded", "failed", "cancelled", "interrupted"}
Statuses == {"absent"} \cup ActiveStatuses \cup TerminalStatuses

\* A worker thread has a turn in hand at TurnPcs.
TurnPcs == {"claim", "begin", "prepare", "started", "register", "check", "wait",
            "settle", "publish", "error", "succeed", "cancelling", "fail",
            "release", "deliver", "send", "mark"}
Pcs == {"none", "poll"} \cup TurnPcs

Idle == [op |-> "idle"]
CallStates ==
    {Idle}
    \cup [op : {"enqueue", "archive", "stopServer"}, session : Sessions]
    \cup [op : {"cancel"}, turn : Turns, seen : ActiveStatuses]
    \cup [op : {"interrupt"}, turn : Turns]

TurnsOf(s) == {t \in Turns : Home[t] = s}
HasActive(s) == \E t \in TurnsOf(s) : status[t] \in ActiveStatuses
IgnoreRunning(s) == FALSE  \* mutant of HasRunning: no running turn is looked for
HasRunning(s) == \E t \in TurnsOf(s) : status[t] = "running"
First(S) == CHOOSE t \in S : \A u \in S : t <= u
Absent(s) == {t \in TurnsOf(s) : status[t] = "absent"}
Queued(s) == {t \in TurnsOf(s) : status[t] = "queued"}

Stopping == server = "stopping"
Attends(s, t, pcs) == pc[s] \in pcs /\ cur[s] = t
Goto(s, p) == pc' = [pc EXCEPT ![s] = p] /\ UNCHANGED cur
Take(s, p, t) == pc' = [pc EXCEPT ![s] = p] /\ cur' = [cur EXCEPT ![s] = t]
Drop(s, p) == Take(s, p, 0)

Init ==
    /\ server = "up" /\ swept = FALSE
    /\ session = [s \in Sessions |-> "active"]
    /\ status = [t \in Turns |-> "absent"]
    /\ cancelReq = [t \in Turns |-> FALSE]
    /\ codexId = [t \in Turns |-> FALSE]
    /\ delivery = [t \in Turns |-> "none"]
    /\ pc = [s \in Sessions |-> "none"]
    /\ cur = [s \in Sessions |-> 0]
    /\ registered = {}
    /\ codex = [t \in Turns |-> "idle"]
    /\ interruptSent = {}
    /\ call = [c \in Callers |-> Idle]
    /\ starts = [t \in Turns |-> 0]
    /\ sends = [t \in Turns |-> 0]
    /\ due = {} /\ crashes = 0 /\ faults = 0

-----------------------------------------------------------------------------
(* Request threads. *)

Accepting == server \in {"up", "stopping"}

\* enqueue_turn reads the session and finds no queued or running turn; only the
\* assistant takes further turns into its queue.
EnqueueCheck(c, s) ==
    /\ server = "up" /\ call[c] = Idle
    /\ session[s] = "active" /\ Absent(s) # {}
    /\ Agent = "assistant" \/ ~HasActive(s)
    /\ call' = [call EXCEPT ![c] = [op |-> "enqueue", session |-> s]]
    /\ UNCHANGED <<dbVars, server, swept, worker, registered, extVars, lifeVars>>

\* enqueue_turn inserts the row, from the web (no delivery) or a paired chat.
EnqueueInsert(c) ==
    /\ Accepting /\ call[c].op = "enqueue"
    /\ Absent(call[c].session) # {}
    /\ LET t == First(Absent(call[c].session)) IN
         /\ status' = [status EXCEPT ![t] = "queued"]
         /\ \E d \in {"none", "pending"} : delivery' = [delivery EXCEPT ![t] = d]
    /\ call' = [call EXCEPT ![c] = Idle]
    /\ UNCHANGED <<session, cancelReq, codexId, server, swept, worker, registered,
                   extVars, lifeVars>>

\* cancel_turn loads the turn and refuses one that is already complete.
CancelRead(c, t) ==
    /\ server = "up" /\ call[c] = Idle
    /\ status[t] \in ActiveStatuses
    /\ call' = [call EXCEPT ![c] = [op |-> "cancel", turn |-> t, seen |-> status[t]]]
    /\ UNCHANGED <<dbVars, server, swept, worker, registered, extVars, lifeVars>>

\* cancel_turn commits: a turn it saw queued becomes cancelled at once and the
\* call is over; for a turn it saw running only the request is recorded.
CancelCommit(c) ==
    /\ Accepting /\ call[c].op = "cancel"
    /\ LET t == call[c].turn IN
         /\ cancelReq' = [cancelReq EXCEPT ![t] = TRUE]
         /\ \/ /\ call[c].seen = "queued"
               /\ status' = [status EXCEPT ![t] = "cancelled"]
               /\ call' = [call EXCEPT ![c] = Idle]
            \/ /\ call[c].seen = "running"
               /\ UNCHANGED status
               /\ call' = [call EXCEPT ![c] = [op |-> "interrupt", turn |-> t]]
    /\ UNCHANGED <<session, codexId, delivery, server, swept, worker, registered,
                   extVars, lifeVars>>

\* cancel_turn re-reads codex_turn_id after the commit and interrupts the Codex
\* turn if there is one to interrupt.
CancelInterrupt(c) ==
    /\ Accepting /\ call[c].op = "interrupt"
    /\ interruptSent' = IF codexId[call[c].turn]
                        THEN interruptSent \cup {call[c].turn} ELSE interruptSent
    /\ call' = [call EXCEPT ![c] = Idle]
    /\ UNCHANGED <<dbVars, server, swept, worker, registered, codex, starts, sends,
                   lifeVars>>

\* archive refuses the assistant's permanent chat and finds no queued or running
\* turn; thread/archive is requested next.
ArchiveCheck(c, s) ==
    /\ server = "up" /\ call[c] = Idle /\ Agent # "assistant"
    /\ ~HasActive(s)
    /\ call' = [call EXCEPT ![c] = [op |-> "archive", session |-> s]]
    /\ UNCHANGED <<dbVars, server, swept, worker, registered, extVars, lifeVars>>

\* thread/archive failed for another reason than a missing rollout.
ArchiveRefused(c) ==
    /\ Accepting /\ call[c].op = "archive"
    /\ call' = [call EXCEPT ![c] = Idle]
    /\ UNCHANGED <<dbVars, server, swept, worker, registered, extVars, lifeVars>>

ArchiveCommit(c) ==
    /\ Accepting /\ call[c].op = "archive"
    /\ session' = [session EXCEPT ![call[c].session] = "archived"]
    /\ call' = [call EXCEPT ![c] = [op |-> "stopServer", session |-> call[c].session]]
    /\ UNCHANGED <<status, cancelReq, codexId, delivery, server, swept, worker,
                   registered, extVars, lifeVars>>

\* stop_act_app_server ends whatever the session's App Server was running.
ArchiveStopServer(c) ==
    /\ Accepting /\ call[c].op = "stopServer"
    /\ codex' = [t \in Turns |->
                   IF Home[t] = call[c].session /\ codex[t] = "running"
                   THEN "ended" ELSE codex[t]]
    /\ call' = [call EXCEPT ![c] = Idle]
    /\ UNCHANGED <<dbVars, server, swept, worker, registered, interruptSent, starts,
                   sends, lifeVars>>

-----------------------------------------------------------------------------
(* The dispatcher and the session workers. *)

\* _dispatch_act_sessions starts a thread for a session with queued work.
StartWorker(s) ==
    /\ server = "up" /\ pc[s] = "none"
    /\ session[s] = "active" /\ Queued(s) # {}
    /\ Drop(s, "poll")
    /\ UNCHANGED <<dbVars, server, swept, registered, call, extVars, lifeVars>>

Eligible(s) == session[s] = "active" /\ ~HasRunning(s) /\ Queued(s) # {}

\* process_next selects the oldest queued turn; with none, or once _stop is
\* set, _run_act_session ends and the thread leaves _session_workers.
Poll(s) ==
    /\ pc[s] = "poll"
    /\ IF ~Stopping /\ Eligible(s) THEN Take(s, "claim", First(Queued(s)))
                                   ELSE Drop(s, "none")
    /\ UNCHANGED <<dbVars, server, swept, registered, call, extVars, lifeVars>>

\* Mutant of Claim: the UPDATE has no status condition.
ClaimUnguarded(s) ==
    /\ pc[s] = "claim"
    /\ status' = [status EXCEPT ![cur[s]] = "running"]
    /\ Goto(s, "begin")
    /\ UNCHANGED <<session, cancelReq, codexId, delivery, server, swept, registered,
                   call, extVars, lifeVars>>

\* The guarded UPDATE that takes a queued turn.
Claim(s) ==
    /\ pc[s] = "claim"
    /\ LET t == cur[s] IN
         \/ /\ status[t] = "queued" /\ ~HasRunning(s)
            /\ status' = [status EXCEPT ![t] = "running"]
            /\ Goto(s, "begin")
         \/ /\ ~(status[t] = "queued" /\ ~HasRunning(s))
            /\ Drop(s, "poll")
            /\ UNCHANGED status
    /\ UNCHANGED <<session, cancelReq, codexId, delivery, server, swept, registered,
                   call, extVars, lifeVars>>

\* _execute re-reads the session; an archived one fails the turn outright.
Begin(s) ==
    /\ pc[s] = "begin"
    /\ \/ /\ session[s] = "active" /\ Goto(s, "prepare") /\ UNCHANGED status
       \/ /\ session[s] # "active" /\ Goto(s, "deliver")
          /\ status' = [status EXCEPT ![cur[s]] = "failed"]
    /\ UNCHANGED <<session, cancelReq, codexId, delivery, server, swept, registered,
                   call, extVars, lifeVars>>

\* Routing, policy, thread resume or turn/start failed before the turn started.
PrepareFails(s) ==
    /\ pc[s] = "prepare" /\ Goto(s, "error")
    /\ UNCHANGED <<dbVars, server, swept, registered, call, extVars, lifeVars>>

\* turn/start is accepted.  Its answer arrives, or times out: the request then
\* fails and the turn is interrupted if its start event was seen.
StartCodex(s) ==
    /\ pc[s] = "prepare"
    /\ LET t == cur[s] IN
         /\ codex' = [codex EXCEPT ![t] = "running"]
         /\ starts' = [starts EXCEPT ![t] = @ + 1]
         /\ \/ Goto(s, "started") /\ UNCHANGED interruptSent
            \/ Goto(s, "error") /\ interruptSent' \in {interruptSent, interruptSent \cup {t}}
    /\ UNCHANGED <<dbVars, server, swept, registered, call, sends, lifeVars>>

\* on_started commits the Codex turn id.
RecordCodexId(s) ==
    /\ pc[s] = "started" /\ Goto(s, "register")
    /\ codexId' = [codexId EXCEPT ![cur[s]] = TRUE]
    /\ UNCHANGED <<session, status, cancelReq, delivery, server, swept, registered,
                   call, extVars, lifeVars>>

\* on_started enters the turn in _active.
Register(s) ==
    /\ pc[s] = "register" /\ Goto(s, "check")
    /\ registered' = registered \cup {cur[s]}
    /\ UNCHANGED <<dbVars, server, swept, call, extVars, lifeVars>>

CancelSeen(s) == cancelReq[cur[s]] \/ Stopping

Rechecked(s, seen) ==
    /\ pc[s] = "check"
    /\ \/ /\ ~seen
          /\ Goto(s, "wait") /\ UNCHANGED interruptSent
       \/ /\ seen
          /\ interruptSent' = interruptSent \cup {cur[s]}
          /\ Goto(s, "wait") \/ Goto(s, "error")
    /\ UNCHANGED <<dbVars, server, swept, registered, call, codex, starts, sends,
                   lifeVars>>

\* Mutants of CheckCancel: one of the two conditions is forgotten.
CheckStopOnly(s) == Rechecked(s, Stopping)
CheckCancelOnly(s) == Rechecked(s, cancelReq[cur[s]])

\* on_started re-reads the turn and interrupts it if it was cancelled, or the
\* dispatcher stopped, meanwhile; a failed interrupt request raises.
CheckCancel(s) == Rechecked(s, CancelSeen(s))

\* _wait_for_turn, which reads the events queued since before turn/start: the
\* turn ended with an answer, ended without one (interrupted, failed, connection
\* lost), or passed its deadline and is interrupted.
CodexResult(s) ==
    /\ pc[s] = "wait"
    /\ \/ /\ codex' = [codex EXCEPT ![cur[s]] = "ended"]
          /\ Goto(s, "settle") \/ Goto(s, "error")
          /\ UNCHANGED interruptSent
       \/ /\ codex[cur[s]] = "running"
          /\ interruptSent' = interruptSent \cup {cur[s]}
          /\ Goto(s, "error") /\ UNCHANGED codex
    /\ UNCHANGED <<dbVars, server, swept, registered, call, starts, sends, lifeVars>>

\* A Codex turn ends by itself, before its worker waits or when none does.
CodexEnds(t) ==
    /\ codex[t] = "running" /\ ~Attends(Home[t], t, {"wait"})
    /\ codex' = [codex EXCEPT ![t] = "ended"]
    /\ UNCHANGED <<dbVars, procVars, interruptSent, starts, sends, lifeVars>>

\* The re-reads that choose between cancelled and the real outcome: once after
\* the result, again after the title was synchronised, once after an error.
Settle(s) ==
    /\ \/ pc[s] = "settle" /\ Goto(s, IF CancelSeen(s) THEN "cancelling" ELSE "publish")
       \/ pc[s] = "publish" /\ Goto(s, IF CancelSeen(s) THEN "cancelling" ELSE "succeed")
       \/ pc[s] = "error" /\ Goto(s, IF CancelSeen(s) THEN "cancelling" ELSE "fail")
    /\ UNCHANGED <<dbVars, server, swept, registered, call, extVars, lifeVars>>

Outcome == [succeed |-> "succeeded", cancelling |-> "cancelled", fail |-> "failed"]

\* The terminal status is committed by primary key, whatever the row holds.
CommitOutcome(s) ==
    /\ pc[s] \in DOMAIN Outcome
    /\ status' = [status EXCEPT ![cur[s]] = Outcome[pc[s]]]
    /\ Goto(s, "release")
    /\ UNCHANGED <<session, cancelReq, codexId, delivery, server, swept, registered,
                   call, extVars, lifeVars>>

\* That commit, or the one in the finally block, fails (a locked database): the
\* exception leaves process_next before the delivery and ends the worker thread.
CommitFails(s) ==
    /\ pc[s] \in DOMAIN Outcome \cup {"release"} /\ faults < MaxFaults
    /\ faults' = faults + 1
    /\ registered' = registered \ {cur[s]}
    /\ Drop(s, "none")
    /\ UNCHANGED <<dbVars, server, swept, call, extVars, due, crashes>>

\* The finally block: credentials revoked, the turn leaves _active.
Release(s) ==
    /\ pc[s] = "release"
    /\ registered' = registered \ {cur[s]}
    /\ Goto(s, "deliver")
    /\ UNCHANGED <<dbVars, server, swept, call, extVars, lifeVars>>

-----------------------------------------------------------------------------
(* Delivery of the result, by the session's worker or by recover(). *)

AfterDelivery == IF server = "recovering" THEN "none" ELSE "poll"

Deliverable(t) == delivery[t] = "pending" /\ status[t] \in TerminalStatuses

\* The guarded UPDATE from pending to sending; anything else is left alone.
DeliverClaim(s) ==
    /\ pc[s] = "deliver"
    /\ LET t == cur[s] IN
         \/ /\ Deliverable(t)
            /\ delivery' = [delivery EXCEPT ![t] = "sending"]
            /\ Goto(s, "send")
         \/ /\ ~Deliverable(t)
            /\ Drop(s, AfterDelivery)
            /\ UNCHANGED delivery
    /\ UNCHANGED <<session, status, cancelReq, codexId, server, swept, registered,
                   call, extVars, lifeVars>>

\* Settled without a claim: the history was archived, an exception came before the
\* claim's commit, or the assistant's background turn has no reply to send.
DeliverUnclaimed(s) ==
    /\ pc[s] = "deliver" /\ Deliverable(cur[s])
    /\ \/ delivery' = [delivery EXCEPT ![cur[s]] = "failed"]
       \/ /\ Agent = "assistant" /\ status[cur[s]] = "succeeded"
          /\ delivery' = [delivery EXCEPT ![cur[s]] = "delivered"]
    /\ Drop(s, AfterDelivery)
    /\ UNCHANGED <<session, status, cancelReq, codexId, server, swept, registered,
                   call, extVars, lifeVars>>

\* The pairing, topic and session are checked, then the provider is called; a
\* connection unpaired or bound elsewhere meanwhile fails the delivery.
DeliverSend(s) ==
    /\ pc[s] = "send"
    /\ LET t == cur[s] IN
         \/ /\ session[s] = "active"
            /\ sends' = [sends EXCEPT ![t] = @ + 1]
            /\ Goto(s, "mark") /\ UNCHANGED delivery
         \/ /\ delivery' = [delivery EXCEPT ![t] = "failed"]
            /\ Drop(s, AfterDelivery)
            /\ UNCHANGED sends
    /\ UNCHANGED <<session, status, cancelReq, codexId, server, swept, registered,
                   call, codex, interruptSent, starts, lifeVars>>

\* A receipt, or an exception after the provider may have accepted the message.
DeliverMark(s) ==
    /\ pc[s] = "mark"
    /\ \E d \in {"delivered", "failed"} :
         delivery' = [delivery EXCEPT ![cur[s]] = d]
    /\ Drop(s, AfterDelivery)
    /\ UNCHANGED <<session, status, cancelReq, codexId, server, swept, registered,
                   call, extVars, lifeVars>>

\* A commit of the delivery fails, and so does that of the failure: the exception is
\* swallowed by _deliver, and the row stays pending or sending until the next start.
DeliverFails(s) ==
    /\ pc[s] \in {"deliver", "send", "mark"} /\ faults < MaxFaults
    /\ faults' = faults + 1
    /\ Drop(s, AfterDelivery)
    /\ UNCHANGED <<dbVars, server, swept, registered, call, extVars, due, crashes>>

-----------------------------------------------------------------------------
(* Process lifetime. *)

\* stop() sets _stop, then interrupts what it finds in _active.
Stop ==
    /\ server = "up"
    /\ server' = "stopping"
    /\ UNCHANGED <<dbVars, swept, worker, registered, call, extVars, lifeVars>>

StopSweep ==
    /\ Stopping /\ ~swept
    /\ swept' = TRUE
    /\ interruptSent' = interruptSent \cup registered
    /\ UNCHANGED <<dbVars, server, worker, registered, call, codex, starts, sends,
                   lifeVars>>

\* The process exits or is killed, with everything only it knew; its App
\* Servers see end of file and exit too.
Crash ==
    /\ server # "down" /\ crashes < MaxCrashes
    /\ crashes' = crashes + 1
    /\ server' = "down" /\ swept' = FALSE
    /\ pc' = [s \in Sessions |-> "none"] /\ cur' = [s \in Sessions |-> 0]
    /\ registered' = {}
    /\ call' = [c \in Callers |-> Idle]
    /\ codex' = [t \in Turns |-> IF codex[t] = "running" THEN "ended" ELSE codex[t]]
    /\ due' = {}
    /\ UNCHANGED <<dbVars, interruptSent, starts, sends, faults>>

\* Mutant of Undelivered: only successful results are looked for.
UndeliveredSuccess(st, d) == {t \in Turns : st[t] = "succeeded" /\ d[t] = "pending"}
Undelivered(st, d) == {t \in Turns : st[t] \in TerminalStatuses /\ d[t] = "pending"}

Recovered(run, send) ==
    /\ server = "down"
    /\ server' = "recovering"
    /\ status' = [t \in Turns |-> IF status[t] = "running" THEN run ELSE status[t]]
    /\ delivery' = [t \in Turns |-> IF delivery[t] = "sending" THEN send ELSE delivery[t]]
    /\ due' = Undelivered(status', delivery')
    /\ UNCHANGED <<session, cancelReq, codexId, swept, worker, registered, call,
                   extVars, crashes, faults>>

\* Mutants of Recover: the running turns are requeued, or left as they are; the
\* deliveries in flight are tried again.
RecoverRequeues == Recovered("queued", "failed")
RecoverForgets == Recovered("running", "failed")
RecoverResends == Recovered("interrupted", "pending")

\* recover(): running turns are interrupted, deliveries in flight are given up, and
\* the finished results still pending are listed.
Recover == Recovered("interrupted", "failed")

Unoccupied == \A s \in Sessions : pc[s] = "none"

\* recover() delivers what it listed, one at a time.
RecoverDelivery(t) ==
    /\ server = "recovering" /\ Unoccupied /\ t \in due
    /\ due' = due \ {t}
    /\ Take(Home[t], "deliver", t)
    /\ UNCHANGED <<dbVars, server, swept, registered, call, extVars, crashes, faults>>

Serve ==
    /\ server = "recovering" /\ Unoccupied /\ due = {}
    /\ server' = "up"
    /\ UNCHANGED <<dbVars, swept, worker, registered, call, extVars, lifeVars>>

-----------------------------------------------------------------------------
CallerStep(c) ==
    \/ EnqueueInsert(c) \/ CancelCommit(c) \/ CancelInterrupt(c)
    \/ ArchiveCommit(c) \/ ArchiveStopServer(c)

WorkerStep(s) ==
    \/ Poll(s) \/ Claim(s) \/ Begin(s) \/ StartCodex(s) \/ RecordCodexId(s)
    \/ Register(s) \/ CheckCancel(s) \/ CodexResult(s) \/ Settle(s)
    \/ CommitOutcome(s) \/ Release(s)
    \/ DeliverClaim(s) \/ DeliverUnclaimed(s) \/ DeliverSend(s) \/ DeliverMark(s)

Next ==
    \/ \E c \in Callers :
         \/ CallerStep(c) \/ ArchiveRefused(c)
         \/ \E s \in Sessions : EnqueueCheck(c, s) \/ ArchiveCheck(c, s)
         \/ \E t \in Turns : CancelRead(c, t)
    \/ \E s \in Sessions :
         \/ StartWorker(s) \/ WorkerStep(s)
         \/ PrepareFails(s) \/ CommitFails(s) \/ DeliverFails(s)
    \/ \E t \in Turns : CodexEnds(t) \/ RecoverDelivery(t)
    \/ Stop \/ StopSweep \/ Crash \/ Recover \/ Serve

Spec == Init /\ [][Next]_vars

\* Threads that run keep running: worker threads are started and scheduled, the
\* Codex deadline (7200 s) bounds every wait, request handlers complete, and a
\* process that went down is started again.
Fairness ==
    /\ \A s \in Sessions : WF_vars(StartWorker(s)) /\ WF_vars(WorkerStep(s))
    /\ \A c \in Callers : WF_vars(CallerStep(c))
    /\ \A t \in Turns : WF_vars(RecoverDelivery(t))
    /\ WF_vars(Recover) /\ WF_vars(Serve)
FairSpec == Spec /\ Fairness

-----------------------------------------------------------------------------
\* The values the columns and workers take.
TypeOK ==
    /\ server \in {"up", "stopping", "down", "recovering"}
    /\ swept \in BOOLEAN
    /\ session \in [Sessions -> {"active", "archived"}]
    /\ status \in [Turns -> Statuses]
    /\ cancelReq \in [Turns -> BOOLEAN]
    /\ codexId \in [Turns -> BOOLEAN]
    /\ delivery \in [Turns -> {"none", "pending", "sending", "delivered", "failed"}]
    /\ pc \in [Sessions -> Pcs]
    /\ cur \in [Sessions -> Turns \cup {0}]
    /\ \A s \in Sessions : pc[s] \in TurnPcs => cur[s] \in Turns
    /\ registered \subseteq Turns
    /\ codex \in [Turns -> {"idle", "running", "ended"}]
    /\ interruptSent \subseteq Turns
    /\ call \in [Callers -> CallStates]
    /\ starts \in [Turns -> Nat]
    /\ sends \in [Turns -> Nat]
    /\ due \subseteq Turns
    /\ crashes \in 0..MaxCrashes
    /\ faults \in 0..MaxFaults

\* A turn reaches Codex at most once, whatever crashes, restarts, cancellations
\* and lost worker threads happen: recover() never requeues a running turn
\* because its external effects cannot be replayed.
StartedOnce == \A t \in Turns : starts[t] <= 1

\* A result is handed to the transport at most once, also across a crash
\* between the provider's acceptance and the receipt being stored.
DeliveredOnce == \A t \in Turns : sends[t] <= 1

\* The cancel request and the start of the Codex turn race without a common
\* lock, yet one of the two always sees the other: a running turn with a
\* cancel request whose handler is done, and whose worker is waiting for Codex,
\* has been interrupted.
CancelReachesCodex ==
    \A t \in Turns :
        /\ status[t] = "running" /\ cancelReq[t]
        /\ Attends(Home[t], t, {"wait"})
        /\ \A c \in Callers : call[c] # [op |-> "interrupt", turn |-> t]
        => t \in interruptSent

\* The same race between stop() and on_started: after stop() has swept _active
\* no worker waits for a Codex turn that was not interrupted.
StopReachesCodex ==
    swept => \A t \in Turns : Attends(Home[t], t, {"wait"}) => t \in interruptSent

\* The turns of a session start in the order they were created, each after the
\* earlier ones have finished: also with several queued, and when a lost worker
\* thread left an earlier turn running.
EarlierEnded(t) == \A u \in TurnsOf(Home[t]) : u < t => status[u] \in TerminalStatuses
InOrder == [][\A t \in Turns : starts'[t] # starts[t] => EarlierEnded(t)]_vars

\* Only results of finished turns are sent, and none that is still pending.
SentAfterEnd ==
    \A t \in Turns : sends[t] > 0 => /\ status[t] \in TerminalStatuses
                                     /\ delivery[t] \notin {"none", "pending"}

\* A finished turn is never reopened.  What its worker reported is overwritten
\* only by a cancellation that read the turn while it was queued, and a turn
\* cancelled that way changes again only under the worker that still runs it.
KeepsFinished(t) ==
    status[t] \in TerminalStatuses =>
        \/ status'[t] \in {status[t], "cancelled"}
        \/ /\ status'[t] \in TerminalStatuses /\ status[t] = "cancelled"
           /\ Attends(Home[t], t, {"begin"} \cup DOMAIN Outcome)
FinishedStays == [][\A t \in Turns : KeepsFinished(t)]_vars

\* The delivery columns behave as a ledger of effects: a result is claimed once, sent
\* under the claim only, and settled, by its worker or by the next recover(), or given
\* up before it was claimed.
Phase(t) ==
    CASE delivery[t] \in {"none", "pending"} -> "waiting"
      [] delivery[t] = "sending" -> "claimed"
      [] delivery[t] \in {"delivered", "failed"} -> "settled"
Ledger == INSTANCE OnceEffect WITH
    Items <- Turns, phase <- [t \in Turns |-> Phase(t)], effects <- sends

\* Claimed at most once, sent at most once and only under the claim, never once it was
\* settled or given up: the delivery of results implements OnceEffect, whatever
\* crashes, cancellations, lost workers and failed commits.
LedgerSpec == Ledger!Spec

\* docs/runtime/act.md:48: cancelling "cancels queued work immediately or sends
\* turn/interrupt for a running Codex turn".
CancelTakesEffect ==
    \A t \in Turns :
        /\ cancelReq[t] /\ Attends(Home[t], t, {"wait"})
        /\ \A c \in Callers : call[c] # [op |-> "interrupt", turn |-> t]
        => t \in interruptSent

\* Every queued turn of a session that stays open finishes, also after a restart,
\* unless the backend is being stopped for good or a lost worker
\* left a turn of the session running: only a restart ends that one, and with it the
\* wait of those behind it.
Abandoned(t) == status[t] = "running" /\ server = "up" /\ cur[Home[t]] # t
QueuedFinishes ==
    \A t \in Turns :
        status[t] = "queued" ~>
            \/ status[t] \in TerminalStatuses
            \/ session[Home[t]] = "archived" \/ Stopping
            \/ faults > 0 /\ \E u \in TurnsOf(Home[t]) : Abandoned(u)

\* deliver_agent_turn_result is called at the end of every turn a worker took and
\* by recover: the pending result of a finished turn is eventually settled.  A turn
\* cancelled in the queue is excepted: no worker takes it, so its result waits for
\* the next start.
ExecutedResultsLeave ==
    \A t \in Turns :
        (status[t] \in TerminalStatuses \ {"cancelled"} /\ delivery[t] = "pending") ~>
            (delivery[t] \in {"delivered", "failed"} \/ faults > 0 \/ Stopping
             \/ status[t] = "cancelled")
=============================================================================
