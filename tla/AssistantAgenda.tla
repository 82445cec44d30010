-------------------------- MODULE AssistantAgenda --------------------------
(***************************************************************************)
(* One recurring task of the Assistant's agenda: the timer and Run Now     *)
(* (AssistantActivationService._activate) claim an occurrence of it and    *)
(* queue a turn for it in the permanent chat, the dispatcher runs the turn *)
(* and on_turn_completed or a later reconcile settles the occurrence.      *)
(* Everything else that occupies the chat (messages of the user, other     *)
(* activations) is `other`.                                                *)
(*                                                                         *)
(* now counts instants; what happens at `now` is later than the instant    *)
(* now and earlier than now + 1.  _activate and the edits hold the write   *)
(* lock of assistant_state from their first read to their commit: each is  *)
(* one step.  on_turn_completed and cancel_turn hold none: what they read  *)
(* and what they commit are two steps, and the turn and its occurrence may *)
(* have moved on in between.                                               *)
(***************************************************************************)
EXTENDS Naturals, FiniteSets, FiniteSetsExt

CONSTANTS
    Calendar,    \* the instants of each schedule version; {}: it does not recur
    Required,    \* the task has a completion requirement
    MaxTurns,    \* bound: turns of the task
    MaxTime,     \* bound: instants
    MaxEvents    \* bound: edits, Run Nows, cancellations, other turns and deaths together

Versions == DOMAIN Calendar
Ticks == 1..MaxTime
Turns == 1..MaxTurns
Occs == Versions \X Ticks   \* a row is identified by version and scheduled_at

ASSUME AgendaConstants ==
    /\ MaxTurns \in Nat \ {0} /\ MaxTime \in Nat \ {0} /\ Required \in BOOLEAN
    /\ MaxEvents \in Nat
    /\ 1 \in Versions /\ \A v \in Versions : v \in Nat /\ Calendar[v] \subseteq Ticks

VARIABLES
    enabled,   \* AssistantState.enabled
    item,      \* AssistantAgendaItem.status; "closed" is waiting or done, "gone" deleted
    version,   \* schedule_version
    start,     \* recurrence_start_at
    now,
    occ,       \* AssistantAgendaOccurrence.status; "none" is no row
    claim,     \* its turn_id, 0 before the first
    delayed,   \* the failed occurrences whose retry_at is still to come
    turn,      \* status of the task's turns; "executing" is running with the model called,
               \* "stray" and "late" are cancelled with the worker still at them
    of,        \* the occurrence each turn was queued for
    finish,    \* on_turn_completed of each turn by its worker: none, owed, or what it
               \* is about to write
    request,   \* the cancellation of each turn: none, read, and then as finish
    other,     \* another turn of the chat: none, queued or running
    server,    \* down, interrupted (between the two steps of recover) or up
    verAt,     \* history: the version in force when each instant passed
    lost,      \* history: occurrences a late completion or cancellation made wrong
    events

settings == <<enabled, item, version, start>>
rows == <<occ, claim, delayed>>
turns == <<turn, of>>
trace == <<verAt, lost>>
ends == <<finish, request>>
vars == <<settings, now, rows, turns, ends, other, server, trace, events>>

Active == {"queued", "running", "executing"}
Left == {"stray", "late"}
AtWork == {"running", "executing"} \cup Left
Terminal == {"succeeded", "failed", "cancelled"} \cup Left  \* interrupted is a failure here
Up == server = "up"
Event == events < MaxEvents /\ events' = events + 1
Open == item = "open" /\ Calendar[version] # {}

Init ==
    /\ enabled = TRUE /\ item = "open" /\ version = 1 /\ start = 0 /\ now = 0
    /\ occ = [o \in Occs |-> "none"] /\ claim = [o \in Occs |-> 0] /\ delayed = {}
    /\ turn = [t \in Turns |-> "new"] /\ of = [t \in Turns |-> <<1, 1>>]
    /\ finish = [t \in Turns |-> "none"] /\ request = [t \in Turns |-> "none"]
    /\ other = "none" /\ server = "up"
    /\ verAt = [i \in Ticks |-> 0] /\ lost = {}
    /\ events = 0

-----------------------------------------------------------------------------
(* reconcile *)

\* latest_at; 0 is an instant before the task existed.
LatestAt(v) == Max({0} \cup {i \in Calendar[v] : i <= now})

\* A manual run after the latest calendar instant takes its place.
Latest ==
    Max({LatestAt(version)}
        \cup {i \in Ticks : LatestAt(version) < i /\ i <= now /\ occ[<<version, i>>] # "none"})

Ends(o) == occ[o] = "queued" /\ turn[claim[o]] \in Terminal

\* finish_occurrence: an unmet requirement turns a success into a failure.
Outcome(t, unmet) == IF turn[t] = "succeeded" /\ ~unmet THEN "succeeded" ELSE "failed"
MayBeUnmet == IF Required THEN BOOLEAN ELSE {FALSE}

\* Terminal claims are finished; older failures are skipped, but found by the status
\* the database holds: one that this very reconcile has finished is not among them.
Nobody == {}  \* mutant of Finished
Finished == {o \in Occs : Ends(o)}
Outdated ==
    LET latest == Latest IN {o \in Occs : Open /\ occ[o] = "failed" /\ o[2] < latest}

Settled(unmet) ==
    [o \in Occs |-> IF o \in Finished THEN Outcome(claim[o], unmet)
                    ELSE IF o \in Outdated THEN "skipped" ELSE occ[o]]

StillDelayed(unmet) ==
    (delayed \cup {o \in Finished : Outcome(claim[o], unmet) = "failed"}) \ Outdated

SettledTurns(unmet) ==
    [t \in Turns |-> IF turn[t] = "succeeded" /\ (\E o \in Finished : claim[o] = t)
                     THEN Outcome(t, unmet) ELSE turn[t]]

\* What reconcile leaves to activate: the latest instant, once it is due.
Ready(unmet) ==
    LET o == <<version, Latest>>
        status == IF o \in Finished THEN Outcome(claim[o], unmet) ELSE occ[o]
    IN /\ Open /\ o[2] > 0
       /\ o[2] > LatestAt(version) \/ o[2] > start
       /\ status = "none" \/ (status = "failed" /\ o \notin StillDelayed(unmet))

-----------------------------------------------------------------------------
(* _activate *)

OnlyRunning == other # "none" \/ \E t \in Turns : turn[t] \in {"running", "executing"}  \* mutant of Busy
Busy == other # "none" \/ \E t \in Turns : turn[t] \in Active

NewTurns == {t \in Turns : turn[t] = "new"}

\* The occurrence and its turn are committed together with what reconcile did.
Claim(o, unmet) ==
    LET t == Min(NewTurns) IN
    /\ NewTurns # {}
    /\ occ' = [Settled(unmet) EXCEPT ![o] = "queued"]
    /\ claim' = [claim EXCEPT ![o] = t]
    /\ delayed' = StillDelayed(unmet) \ {o}
    /\ turn' = [SettledTurns(unmet) EXCEPT ![t] = "queued"]
    /\ of' = [of EXCEPT ![t] = o]

Reconcile(unmet) ==
    /\ occ' = Settled(unmet) /\ delayed' = StillDelayed(unmet)
    /\ turn' = SettledTurns(unmet)
    /\ UNCHANGED <<claim, of>>

\* The timer, every 30 seconds.
Tick ==
    /\ Up /\ enabled /\ ~Busy
    /\ \E unmet \in MayBeUnmet :
          \/ Ready(unmet) /\ Claim(<<version, Latest>>, unmet)
          \/ ~Ready(unmet) /\ Reconcile(unmet)
    /\ UNCHANGED <<settings, now, ends, other, server, trace, events>>

\* Run Now retries the latest failure at once, as the database knows it, and else
\* makes an occurrence of this instant.
AnyAttempted ==  \* mutant of Retryable
    {i \in Ticks : i >= LatestAt(version) /\ occ[<<version, i>>] # "none"}
Retryable ==
    {i \in Ticks : i >= LatestAt(version) /\ occ[<<version, i>>] = "failed"}

RunNow ==
    /\ Up /\ enabled /\ ~Busy /\ Open /\ Event
    /\ \E unmet \in MayBeUnmet :
          \/ Ready(unmet) /\ Claim(<<version, Latest>>, unmet)
          \/ ~Ready(unmet) /\ Retryable # {} /\ Claim(<<version, Max(Retryable)>>, unmet)
          \/ /\ ~Ready(unmet) /\ Retryable = {}
             /\ now > LatestAt(version) /\ occ[<<version, now>>] = "none"
             /\ Claim(<<version, now>>, unmet)
    /\ UNCHANGED <<settings, now, ends, other, server, trace>>

-----------------------------------------------------------------------------
(* Edits: update_item, delete_item and configure *)

Edit ==
    /\ Up /\ Event
    /\ UNCHANGED <<now, rows, turns, ends, other, server, trace>>

SetStatus ==
    /\ Edit /\ item # "gone"
    /\ item' \in {"open", "closed", "gone"} \ {item}
    /\ UNCHANGED <<enabled, version, start>>

KeepStart == start  \* mutant of NewStart
NewStart == now

Reschedule ==
    /\ Edit /\ item # "gone" /\ version + 1 \in Versions
    /\ version' = version + 1 /\ start' = NewStart
    /\ UNCHANGED <<enabled, item>>

Configure ==
    /\ Edit /\ enabled' = ~enabled
    /\ UNCHANGED <<item, version, start>>

-----------------------------------------------------------------------------
(* The dispatcher *)

\* It settles a turn before it takes the next one.
Free ==
    /\ other # "running"
    /\ \A t \in Turns : turn[t] \notin AtWork /\ finish[t] = "none"

StartTurn(t) ==
    /\ Up /\ Free /\ turn[t] = "queued"
    /\ turn' = [turn EXCEPT ![t] = "running"]
    /\ UNCHANGED <<settings, now, rows, of, ends, other, server, trace, events>>

\* _turn_input looks at the task again before the model is called.
Valid(o) ==
    enabled /\ Open /\ version = o[1] /\ o[2] >= LatestAt(version)

Validate(t) ==
    /\ Up /\ turn[t] = "running" /\ Valid(of[t])
    /\ turn' = [turn EXCEPT ![t] = "executing"]
    /\ UNCHANGED <<settings, now, rows, of, ends, other, server, trace, events>>

\* The turn is over: it is committed, and its completion is owed.
EndTurn(t, s) ==
    /\ turn' = [turn EXCEPT ![t] = s]
    /\ finish' = [finish EXCEPT ![t] = "owed"]
    /\ UNCHANGED <<settings, now, rows, of, request, other, server, verAt, events>>

\* A worker past its last look at the cancellation commits its success over it.
Succeed(t) ==
    /\ Up /\ turn[t] \in {"executing", "late"} /\ EndTurn(t, "succeeded")
    /\ lost' = IF turn[t] = "late" THEN lost \cup {of[t]} ELSE lost

\* A refused validation, an error of the model, an interruption or a cancellation.
Fail(t) ==
    /\ Up
    /\ \/ turn[t] \in {"running", "executing"} /\ EndTurn(t, "failed")
       \/ turn[t] \in Left /\ EndTurn(t, "cancelled")
    /\ UNCHANGED lost

-----------------------------------------------------------------------------
(* on_turn_completed, of a worker or of a cancel request *)

Mine(t) == claim[of[t]] = t /\ occ[of[t]] = "queued"

\* finish_occurrence reads the occurrence and makes up its mind ...
FinishRead(t) ==
    /\ finish[t] = "owed"
    /\ \/ /\ Mine(t)
          /\ \E unmet \in MayBeUnmet : finish' = [finish EXCEPT ![t] = Outcome(t, unmet)]
       \/ ~Mine(t) /\ finish' = [finish EXCEPT ![t] = "none"]
    /\ UNCHANGED <<settings, now, rows, turns, request, other, server, trace, events>>

\* ... and on_turn_completed commits, wherever the row stands by then.
Settle(t, outcome) ==
    LET o == of[t] IN
    /\ occ' = [occ EXCEPT ![o] = outcome]
    /\ delayed' = IF outcome = "failed" THEN delayed \cup {o} ELSE delayed \ {o}
    /\ lost' = IF claim[o] = t THEN lost ELSE lost \cup {o}
    /\ UNCHANGED <<settings, now, claim, of, other, server, verAt, events>>

FinishWrite(t) ==
    /\ finish[t] \in {"succeeded", "failed"} /\ Settle(t, finish[t])
    /\ turn' = IF turn[t] = "succeeded" THEN [turn EXCEPT ![t] = finish[t]] ELSE turn
    /\ finish' = [finish EXCEPT ![t] = "none"] /\ UNCHANGED request

-----------------------------------------------------------------------------
(* cancel_turn of a turn that is found queued *)

CancelRead(t) ==
    /\ Up /\ turn[t] = "queued" /\ request[t] = "none" /\ Event
    /\ request' = [request EXCEPT ![t] = "read"]
    /\ UNCHANGED <<settings, now, rows, turns, finish, other, server, trace>>

\* The status a cancellation leaves: a worker finds it at its next look, if it has one.
Cancelled(s) ==
    IF s \in Left THEN {s}
    ELSE IF s = "executing" THEN Left ELSE IF s = "running" THEN {"stray"} ELSE {"cancelled"}

\* It commits wherever the turn stands by then, and owes the completion itself.
CancelWrite(t) ==
    /\ request[t] = "read" /\ request' = [request EXCEPT ![t] = "owed"]
    /\ \E s \in Cancelled(turn[t]) : turn' = [turn EXCEPT ![t] = s]
    /\ UNCHANGED <<settings, now, rows, of, finish, other, server, trace, events>>

\* Its copy of the turn is the one it has cancelled.
CancelFinishRead(t) ==
    /\ request[t] = "owed"
    /\ request' = [request EXCEPT ![t] = IF Mine(t) THEN "failed" ELSE "none"]
    /\ UNCHANGED <<settings, now, rows, turns, finish, other, server, trace, events>>

CancelFinishWrite(t) ==
    /\ request[t] = "failed" /\ Settle(t, "failed")
    /\ request' = [request EXCEPT ![t] = "none"] /\ UNCHANGED <<turn, finish>>

-----------------------------------------------------------------------------
(* The rest of the chat *)

\* A message of the user, or another activation; it waits for an older turn.
NewOther ==
    /\ Up /\ other = "none" /\ Event
    /\ other' = "queued"
    /\ UNCHANGED <<settings, now, rows, turns, ends, server, trace>>

RunOther ==
    /\ Up
    /\ \/ other = "queued" /\ Free /\ (\A t \in Turns : turn[t] # "queued") /\ other' = "running"
       \/ other = "running" /\ other' = "none"
    /\ UNCHANGED <<settings, now, rows, turns, ends, server, trace, events>>

-----------------------------------------------------------------------------
(* Time, death and recovery *)

\* An instant passes.
Pass ==
    /\ now < MaxTime /\ now' = now + 1
    /\ verAt' = [verAt EXCEPT ![now + 1] = version]
    /\ UNCHANGED <<settings, rows, turns, ends, other, server, lost, events>>

\* A retry_at passes; a completion is not as slow as that.
DelayOver ==
    /\ \A t \in Turns : finish[t] \in {"none", "owed"} /\ request[t] # "failed"
    /\ \E o \in delayed : delayed' = delayed \ {o}
    /\ UNCHANGED <<settings, now, occ, claim, turns, ends, other, server, trace, events>>

Crash ==
    /\ server # "down" /\ Event
    /\ server' = "down"
    /\ finish' = [t \in Turns |-> "none"] /\ request' = [t \in Turns |-> "none"]
    /\ UNCHANGED <<settings, now, rows, turns, other, trace>>

\* recover: what was running is interrupted, and committed ...
Interrupt ==
    /\ server = "down" /\ server' = "interrupted"
    /\ turn' = [t \in Turns |-> IF turn[t] \in {"running", "executing"} THEN "failed"
                                ELSE IF turn[t] \in Left THEN "cancelled" ELSE turn[t]]
    /\ other' = IF other = "running" THEN "none" ELSE other
    /\ UNCHANGED <<settings, now, rows, of, ends, trace, events>>

\* ... then _recover_agent reconciles, enabled or not, before anything else runs.
Recover ==
    /\ server = "interrupted" /\ server' = "up"
    /\ \E unmet \in MayBeUnmet : Reconcile(unmet)
    /\ UNCHANGED <<settings, now, ends, other, trace, events>>

Dispatch == \E t \in Turns : StartTurn(t) \/ Validate(t) \/ Succeed(t) \/ Fail(t)
Complete == \E t \in Turns : FinishRead(t) \/ FinishWrite(t)
CancelGoesOn == \E t \in Turns : CancelWrite(t) \/ CancelFinishRead(t) \/ CancelFinishWrite(t)

Next ==
    \/ Tick \/ RunNow \/ SetStatus \/ Reschedule \/ Configure
    \/ Dispatch \/ Complete \/ (\E t \in Turns : CancelRead(t)) \/ CancelGoesOn
    \/ NewOther \/ RunOther
    \/ Pass \/ DelayOver \/ Crash \/ Interrupt \/ Recover

Spec == Init /\ [][Next]_vars

\* The timer comes round every 30 seconds and its tick is taken once the chat stays idle;
\* turns, completions and requests end, delays pass and a dead process is started again.
FairSpec ==
    /\ Spec /\ WF_vars(Tick)
    /\ WF_vars(Dispatch \/ Complete \/ CancelGoesOn \/ RunOther \/ DelayOver \/ Interrupt \/ Recover)
-----------------------------------------------------------------------------
\* Type correctness of the task, its occurrences and its turns.
TypeOK ==
    /\ enabled \in BOOLEAN /\ item \in {"open", "closed", "gone"}
    /\ version \in Versions /\ start \in 0..MaxTime /\ now \in 0..MaxTime
    /\ occ \in [Occs -> {"none", "queued", "succeeded", "failed", "skipped"}]
    /\ claim \in [Occs -> 0..MaxTurns] /\ delayed \subseteq Occs
    /\ turn \in [Turns -> Active \cup Terminal \cup {"new"}] /\ of \in [Turns -> Occs]
    /\ finish \in [Turns -> {"none", "owed", "succeeded", "failed"}]
    /\ request \in [Turns -> {"none", "read", "owed", "failed"}]
    /\ other \in {"none", "queued", "running"} /\ server \in {"down", "interrupted", "up"}
    /\ verAt \in [Ticks -> Versions \cup {0}] /\ lost \subseteq Occs /\ events \in 0..MaxEvents

\* The timer, Run Now and a recovery never put two turns of the task into the chat
\* at once: the claim of one is committed before the next looks (_activate).
OneInFlight == Cardinality({t \in Turns : turn[t] \in Active}) <= 1

DoneTwice(t, u) ==
    t # u /\ of[t] = of[u] /\ turn[u] = "succeeded" /\ turn[t] \in {"executing", "succeeded"}

\* assistant.md:57: "Turn success marks the occurrence succeeded": the model is never
\* called for an occurrence one of whose turns has succeeded, whoever settles it.
SuccessIsFinal == \A t, u \in Turns : ~DoneTwice(t, u)

\* So it is, except for an occurrence claimed again between the read and the commit of the
\* completion of its earlier turn, or whose turn succeeded over its own cancellation.
SuccessIsFinalUnlessLost ==
    \A t, u \in Turns : DoneTwice(t, u) => of[t] \in lost

\* "New or changed schedules establish a fresh activation boundary": a turn is only
\* queued for a calendar instant that passed while that very schedule was in force.
NothingBackfilled ==
    \A t \in Turns : turn[t] # "new" /\ of[t][2] \in Calendar[of[t][1]]
                         => verAt[of[t][2]] = of[t][1]

Wanted ==
    LET o == <<version, Latest>> IN
    /\ enabled /\ Open /\ o[2] > 0
    /\ o[2] > LatestAt(version) \/ o[2] > start
    /\ occ[o] = "queued" \/ (occ[o] \in {"none", "failed"} /\ NewTurns # {})

\* The latest due occurrence of an active task does not stay due for ever: it is attempted
\* until it succeeds, and no crash, cancellation or late completion leaves it claimed.
LatestSettles == []<>~Wanted
=============================================================================
