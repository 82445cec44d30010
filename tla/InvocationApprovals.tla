------------------------- MODULE InvocationApprovals -------------------------
(***************************************************************************)
(* Per-call approvals (InvocationApprovalService): a pending row, its      *)
(* Telegram message with two buttons, a decision from the page or from the *)
(* message, the claim, the invocation outside any transaction, its outcome *)
(* and the edit of the message.                                            *)
(*                                                                         *)
(* One action is one commit, one Telegram request or one invocation.  An   *)
(* approval is performed when its function or provider adapter is called.  *)
(***************************************************************************)
EXTENDS Naturals, FiniteSets

CONSTANTS
    Approvals,   \* invocation_approvals rows
    Threads,     \* request threads
    Poller,      \* the thread of the Telegram bot's long poll
    MaxCrashes,  \* bound: process deaths
    MaxFaults    \* bound: outcomes that could not be stored

ASSUME PollerAssumption == Poller \in Threads
ASSUME BoundsAssumption == MaxCrashes \in Nat /\ MaxFaults \in Nat

VARIABLES
    server,     \* life of the backend process
    decision,   \* decision_status, "none" before the row exists
    execution,  \* execution_status
    delivery,   \* telegram_delivery_status
    message,    \* external: what the approval's Telegram message shows
    authority,  \* external: caller, grant, version and account are as submitted
    performed,  \* history: how often the action was invoked
    overtaken,  \* history: settled by others while a thread was executing it
    pc,         \* where each thread is
    on,         \* the approval it has in hand
    result,     \* what its invocation came to
    shown,      \* the statuses it read for the message
    crashes, faults

rows    == <<decision, execution, delivery>>
outside == <<message, authority, performed, overtaken>>
thread  == <<pc, on, result, shown>>
bounds  == <<crashes, faults>>
vars == <<server, rows, outside, thread, bounds>>

Decisions == {"none", "pending", "approved", "denied"}
Ended == {"succeeded", "failed", "stale", "outcome_unknown"}
Executions == {"not_started", "executing"} \cup Ended
Pcs == {"idle", "send", "sent", "authorise", "perform", "record", "deny", "tell",
        "edit", "tail", "retouch"}
Statuses == Decisions \X Executions
NotShown == <<"none", "not_started">>

Idle(c) == pc[c] = "idle"
Goto(c, p) == pc' = [pc EXCEPT ![c] = p]
Begin(c, p, a) == Goto(c, p) /\ on' = [on EXCEPT ![c] = a]

\* The ids of the message are stored when its delivery was.
HasMessage(a) == delivery[a] \in {"delivered", "updated", "update_failed"}
\* The Telegram callback goes on after the service's decision returned.
Return(c) == Goto(c, IF c = Poller THEN "tail" ELSE "idle")

Init ==
    /\ server = "up"
    /\ decision = [a \in Approvals |-> "none"]
    /\ execution = [a \in Approvals |-> "not_started"]
    /\ delivery = [a \in Approvals |-> "pending"]
    /\ message = [a \in Approvals |-> NotShown]
    /\ authority = [a \in Approvals |-> TRUE]
    /\ performed = [a \in Approvals |-> 0]
    /\ overtaken = {}
    /\ pc = [c \in Threads |-> "idle"]
    /\ on \in [Threads -> Approvals]
    /\ result = [c \in Threads |-> "failed"]
    /\ shown = [c \in Threads |-> NotShown]
    /\ crashes = 0 /\ faults = 0

-----------------------------------------------------------------------------
(* Submission and delivery. *)

Submit(c, a) ==
    /\ server = "up" /\ Idle(c) /\ c # Poller
    /\ decision[a] = "none" /\ authority[a]
    /\ decision' = [decision EXCEPT ![a] = "pending"]
    /\ Begin(c, "send", a)
    /\ UNCHANGED <<server, execution, delivery, outside, result, shown, bounds>>

\* The message is sent with its buttons; an exception may come before or after
\* Telegram accepted it.
Send(c) ==
    /\ pc[c] = "send"
    /\ \/ /\ message' = [message EXCEPT ![on[c]] = <<"pending", "not_started">>]
          /\ \/ Goto(c, "sent") /\ UNCHANGED delivery
             \/ Goto(c, "idle") /\ delivery' = [delivery EXCEPT ![on[c]] = "failed"]
       \/ /\ delivery' = [delivery EXCEPT ![on[c]] = "failed"]
          /\ Goto(c, "idle") /\ UNCHANGED message
    /\ UNCHANGED <<server, decision, execution, authority, performed, overtaken, on,
                   result, shown, bounds>>

StoreDelivery(c) ==
    /\ pc[c] = "sent"
    /\ delivery' = [delivery EXCEPT ![on[c]] = "delivered"]
    /\ Goto(c, "idle")
    /\ UNCHANGED <<server, decision, execution, outside, on, result, shown, bounds>>

-----------------------------------------------------------------------------
(* Decisions. *)

\* approve() and deny() come from the page, from a button of a message that was
\* sent, which may be pressed or redelivered late, or, for a row approved but not
\* started, from recover().
Asked(c, a) ==
    /\ Idle(c) /\ decision[a] # "none"
    /\ \/ server = "up" /\ (c = Poller => message[a] # NotShown)
       \/ server = "recovering" /\ c # Poller
          /\ decision[a] = "approved" /\ execution[a] = "not_started"

Claimable(a) ==
    decision[a] \in {"pending", "approved"} /\ execution[a] = "not_started"

\* The guarded UPDATE decides and claims in one statement.
Approve(c, a) ==
    /\ Asked(c, a) /\ Claimable(a)
    /\ decision' = [decision EXCEPT ![a] = "approved"]
    /\ execution' = [execution EXCEPT ![a] = "executing"]
    /\ Begin(c, "authorise", a)
    /\ UNCHANGED <<server, delivery, outside, result, shown, bounds>>

DenyRead(c, a) ==
    /\ Asked(c, a) /\ decision[a] = "pending"
    /\ Begin(c, "deny", a)
    /\ UNCHANGED <<server, rows, outside, result, shown, bounds>>

Denied(c, allowed) ==
    /\ pc[c] = "deny"
    /\ decision' = IF allowed
                   THEN [decision EXCEPT ![on[c]] = "denied"] ELSE decision
    /\ Goto(c, "tell")
    /\ UNCHANGED <<server, execution, delivery, outside, on, result, shown, bounds>>

\* Mutant of DenyCommit: the row is written by primary key.
DenyAnyway(c) == Denied(c, TRUE)

\* The guarded UPDATE; whether it changed the row or not, the message is edited.
DenyCommit(c) ==
    Denied(c, decision[on[c]] = "pending" /\ execution[on[c]] = "not_started")

\* A button pressed after the decision was taken, or for a row given up, only
\* refreshes the message.
AlreadyDecided(a) == decision[a] \in {"approved", "denied"} \/ execution[a] \in Ended
PressedLate(a) ==
    /\ server = "up" /\ Asked(Poller, a) /\ AlreadyDecided(a)
    /\ Begin(Poller, "tail", a)
    /\ UNCHANGED <<server, rows, outside, result, shown, bounds>>

-----------------------------------------------------------------------------
(* Execution. *)

\* Mutant of Authorise: what was verified at submission is trusted.
AuthoriseAtSubmission(c) ==
    /\ pc[c] = "authorise" /\ Goto(c, "perform")
    /\ UNCHANGED <<server, rows, outside, on, result, shown, bounds>>

\* execute_approved verifies the caller, the permission, the version, the contract
\* and the account again, on the row as it was read after the claim; anything else
\* may fail on the way, too.
Authorise(c) ==
    /\ pc[c] = "authorise"
    /\ \/ authority[on[c]] /\ Goto(c, "perform") /\ UNCHANGED result
       \/ /\ \E r \in {"failed"} \cup (IF authority[on[c]] THEN {} ELSE {"stale"}) :
               result' = [result EXCEPT ![c] = r]
          /\ Goto(c, "record")
    /\ UNCHANGED <<server, rows, outside, on, shown, bounds>>

Perform(c) ==
    /\ pc[c] = "perform"
    /\ performed' = [performed EXCEPT ![on[c]] = @ + 1]
    /\ \E r \in {"succeeded", "failed", "outcome_unknown"} :
         result' = [result EXCEPT ![c] = r]
    /\ Goto(c, "record")
    /\ UNCHANGED <<server, rows, message, authority, overtaken, on, shown, bounds>>

\* The outcome is written by primary key, whatever the row has become.  When the commit of a success fails
\* the handler of that exception stores a failure.
Record(c) ==
    /\ pc[c] = "record"
    /\ \E r \in {result[c]} \cup (IF result[c] = "succeeded" THEN {"failed"} ELSE {}) :
         execution' = [execution EXCEPT ![on[c]] = r]
    /\ result' = [result EXCEPT ![c] = "failed"]
    /\ Goto(c, "tell")
    /\ UNCHANGED <<server, decision, delivery, outside, on, shown, bounds>>

\* The commit of the failure fails as well, and leaves approve() by exception.
RecordFails(c) ==
    /\ pc[c] = "record" /\ faults < MaxFaults
    /\ faults' = faults + 1
    /\ result' = [result EXCEPT ![c] = "failed"]
    /\ Goto(c, "idle")
    /\ UNCHANGED <<server, rows, outside, on, shown, crashes>>

-----------------------------------------------------------------------------
(* The outcome on the message. *)

\* The row is read for the message, once the decision or the outcome is stored.
Tell(c) ==
    /\ pc[c] = "tell"
    /\ \/ /\ HasMessage(on[c])
          /\ shown' = [shown EXCEPT ![c] = <<decision[on[c]], execution[on[c]]>>]
          /\ Goto(c, "edit")
       \/ ~HasMessage(on[c]) /\ Return(c) /\ UNCHANGED shown
    /\ UNCHANGED <<server, rows, outside, on, result, bounds>>

\* editMessageText with what was read, and the buttons removed; it may fail.
Edit(c) ==
    /\ pc[c] = "edit" /\ Return(c)
    /\ \/ /\ message' = [message EXCEPT ![on[c]] = shown[c]]
          /\ delivery' = [delivery EXCEPT ![on[c]] = "updated"]
       \/ /\ delivery' = [delivery EXCEPT ![on[c]] = "update_failed"]
          /\ UNCHANGED message
    /\ shown' = [shown EXCEPT ![c] = NotShown]
    /\ UNCHANGED <<server, decision, execution, authority, performed, overtaken, on,
                   result, bounds>>

\* The callback edits the message itself if the row does not say it was.
Tail(c) ==
    /\ pc[c] = "tail"
    /\ \/ /\ HasMessage(on[c]) /\ delivery[on[c]] # "updated"
          /\ shown' = [shown EXCEPT ![c] = <<decision[on[c]], execution[on[c]]>>]
          /\ Goto(c, "retouch")
       \/ /\ ~HasMessage(on[c]) \/ delivery[on[c]] = "updated"
          /\ Goto(c, "idle") /\ UNCHANGED shown
    /\ UNCHANGED <<server, rows, outside, on, result, bounds>>

Retouch(c) ==
    /\ pc[c] = "retouch" /\ Goto(c, "idle")
    /\ \/ /\ message' = [message EXCEPT ![on[c]] = shown[c]]
          /\ delivery' = [delivery EXCEPT ![on[c]] = "updated"]
       \/ UNCHANGED <<message, delivery>>
    /\ shown' = [shown EXCEPT ![c] = NotShown]
    /\ UNCHANGED <<server, decision, execution, authority, performed, overtaken, on,
                   result, bounds>>

-----------------------------------------------------------------------------
(* Outside the service, and process lifetime. *)

\* A permission or grant is revoked, a version or an account changes.
Withdraw(a) ==
    /\ authority[a]
    /\ authority' = [authority EXCEPT ![a] = FALSE]
    /\ UNCHANGED <<server, rows, message, performed, overtaken, thread, bounds>>

\* An account is changed: what waits for it is given up with a guarded UPDATE.
Invalidate(a) ==
    /\ Claimable(a)
    /\ execution' = [execution EXCEPT ![a] = "stale"]
    /\ authority' = [authority EXCEPT ![a] = FALSE]
    /\ UNCHANGED <<server, decision, delivery, message, performed, overtaken, thread,
                   bounds>>

Executing == {a \in Approvals : execution[a] = "executing"}
Holders == {"authorise", "perform", "record"}
Held(a) == \E c \in Threads : pc[c] \in Holders /\ on[c] = a

\* Every MCP child prepares the database when it starts, beside the backend: what
\* is executing then is settled, also under the thread that is executing it.
ChildStarts ==
    /\ Executing # {}
    /\ execution' = [a \in Approvals |->
                       IF a \in Executing THEN "outcome_unknown" ELSE execution[a]]
    /\ overtaken' = overtaken \cup {a \in Executing : Held(a)}
    /\ UNCHANGED <<server, decision, delivery, message, authority, performed, thread,
                   bounds>>

Crash ==
    /\ server # "down" /\ crashes < MaxCrashes
    /\ crashes' = crashes + 1 /\ server' = "down"
    /\ pc' = [c \in Threads |-> "idle"]
    /\ result' = [c \in Threads |-> "failed"]
    /\ shown' = [c \in Threads |-> NotShown]
    /\ UNCHANGED <<rows, outside, on, faults>>

Recovered(S, e) ==
    /\ server = "down" /\ server' = "recovering"
    /\ execution' = [a \in Approvals |-> IF a \in S THEN e ELSE execution[a]]
    /\ UNCHANGED <<decision, delivery, outside, thread, bounds>>

\* Mutants of Recover: the interrupted actions are queued again, left alone, or
\* all that were approved are given up.
RecoverRequeues == Recovered(Executing, "not_started")
RecoverForgets == Recovered({}, "outcome_unknown")
RecoverApproved ==
    Recovered({a \in Approvals : decision[a] = "approved"}, "outcome_unknown")

\* recover(): nothing that was executing is tried again.
Recover == Recovered(Executing, "outcome_unknown")

Resumable(a) == decision[a] = "approved" /\ execution[a] = "not_started"
Serve ==
    /\ server = "recovering"
    /\ \A c \in Threads : Idle(c)
    /\ \A a \in Approvals : ~Resumable(a)
    /\ server' = "up"
    /\ UNCHANGED <<rows, outside, thread, bounds>>

-----------------------------------------------------------------------------
ThreadStep(c) ==
    \/ Send(c) \/ StoreDelivery(c) \/ DenyCommit(c) \/ Authorise(c) \/ Perform(c)
    \/ Record(c) \/ Tell(c) \/ Edit(c) \/ Tail(c) \/ Retouch(c)

Next ==
    \/ \E c \in Threads :
         \/ ThreadStep(c) \/ RecordFails(c)
         \/ \E a \in Approvals : Submit(c, a) \/ Approve(c, a) \/ DenyRead(c, a)
    \/ \E a \in Approvals : PressedLate(a) \/ Withdraw(a) \/ Invalidate(a)
    \/ ChildStarts \/ Crash \/ Recover \/ Serve

Spec == Init /\ [][Next]_vars

\* Threads go on (the provider's and the sandbox's timeouts bound an invocation),
\* and a process that went down is started again.
FairSpec ==
    Spec /\ (\A c \in Threads : WF_vars(ThreadStep(c))) /\ WF_vars(Recover) /\ WF_vars(Serve)

-----------------------------------------------------------------------------
\* The values of the columns and of the threads.
TypeOK ==
    /\ server \in {"up", "down", "recovering"}
    /\ decision \in [Approvals -> Decisions]
    /\ execution \in [Approvals -> Executions]
    /\ delivery \in [Approvals -> {"pending", "delivered", "failed", "updated", "update_failed"}]
    /\ message \in [Approvals -> Statuses]
    /\ authority \in [Approvals -> BOOLEAN]
    /\ performed \in [Approvals -> Nat]
    /\ overtaken \subseteq Approvals
    /\ pc \in [Threads -> Pcs]
    /\ on \in [Threads -> Approvals]
    /\ result \in [Threads -> Ended]
    /\ shown \in [Threads -> Statuses]
    /\ crashes \in 0..MaxCrashes
    /\ faults \in 0..MaxFaults

\* An approved action is invoked at most once, though it may be approved from the
\* page and from Telegram at once, its buttons pressed again, and the process
\* may die before the outcome is stored.
PerformedOnce == \A a \in Approvals : performed[a] <= 1

\* Only an approved action is invoked, and a decision is not changed afterwards:
\* also when a denial and an approval were both on their way.
PerformedWasApproved ==
    \A a \in Approvals : performed[a] > 0 =>
        decision[a] = "approved" /\ execution[a] # "not_started"

\* The rows and the threads behave as a ledger of effects.  The thread that claimed a
\* row keeps the claim until it records the outcome or dies, also when a starting
\* child has settled the row meanwhile.
Phase(a) ==
    CASE decision[a] = "denied" -> "settled"
      [] decision[a] # "denied" /\ (Held(a) \/ execution[a] = "executing") -> "claimed"
      [] decision[a] # "denied" /\ ~Held(a) /\ execution[a] \in Ended -> "settled"
      [] OTHER -> "waiting"
Ledger == INSTANCE OnceEffect WITH
    Items <- Approvals, phase <- [a \in Approvals |-> Phase(a)], effects <- performed
\* Claimed once, invoked at most once under the claim and settled: the approvals
\* implement OnceEffect, whatever the decisions, crashes, failed commits and starting
\* children.
LedgerSpec == Ledger!Spec

\* An action whose caller, grant, version or account changed before it was
\* approved is never invoked.
WithdrawnNeverRuns ==
    \A a \in Approvals :
        [](~authority[a] /\ execution[a] = "not_started" => [](performed[a] = 0))

\* The message never tells another decision or another outcome than the row,
\* whichever thread edits it last, and an outcome is not changed afterwards: but for
\* the outcome_unknown of a row that was settled while its thread was executing it.
ShownIsTrue ==
    \A a \in Approvals : message[a] \notin {NotShown, <<"pending", "not_started">>} =>
        /\ message[a][1] = decision[a]
        /\ message[a][2] \in Ended =>
             \/ message[a][2] = execution[a]
             \/ message[a][2] = "outcome_unknown" /\ a \in overtaken

\* docs/security/invocation_approvals.md:13: "A restart changes interrupted `executing`
\* actions to `outcome_unknown`": an action that a thread is executing is not one.
OnlyInterruptedUnknown ==
    \A c \in Threads : pc[c] \in Holders => execution[on[c]] = "executing"

\* What was claimed comes to an outcome, after a restart at the latest.
ClaimsSettle ==
    \A a \in Approvals :
        execution[a] = "executing" ~> (execution[a] # "executing" \/ faults > 0)
=============================================================================
