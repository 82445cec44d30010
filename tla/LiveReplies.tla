---------------------------- MODULE LiveReplies ----------------------------
(***************************************************************************)
(* chat.send_message of a running turn: ActChatMessageCapability publishes *)
(* a prompt and polls for the one user reply that enqueue_turn attaches to *)
(* it (accept_act_reply), against the prompt's deadline, cancellation, the *)
(* end of the turn and a restart.  One turn; a prompt is a row of          *)
(* act_live_messages.                                                      *)
(***************************************************************************)
EXTENDS Naturals, FiniteSets

CONSTANTS
    Prompts,     \* chat.send_message calls that wait for a reply
    Callers,     \* request threads with a user's message
    MaxDeaths    \* bound: process deaths

ASSUME ReplyBounds == MaxDeaths \in Nat

VARIABLES
    turn,        \* ActTurn.status: running, ended or interrupted
    released,    \* the dispatcher is past the finally block of the turn
    cancelReq,   \* cancel_requested_at is set
    status,      \* reply_status of each prompt
    overdue,     \* its reply_expires_at has passed
    place,       \* where each send() call is
    answer,      \* the reply_status it returned
    claim,       \* the prompts each caller selected: none or one
    replies,     \* history: user messages accepted for each prompt
    up, deaths

turnVars == <<turn, released, cancelReq>>
replyVars == <<turnVars, status, overdue, place, answer, claim, replies, up, deaths>>

Live == turn = "running" /\ ~cancelReq
MoveTo(p, l) == place' = [place EXCEPT ![p] = l]
SetStatus(p, s) == status' = [status EXCEPT ![p] = s]
EndWait(p, r) == MoveTo(p, "done") /\ answer' = [answer EXCEPT ![p] = r]

ReplyInit ==
    /\ turn = "running" /\ released = FALSE /\ cancelReq = FALSE
    /\ status = [p \in Prompts |-> "absent"] /\ overdue = [p \in Prompts |-> FALSE]
    /\ place = [p \in Prompts |-> "idle"] /\ answer = [p \in Prompts |-> "none"]
    /\ claim = [c \in Callers |-> {}] /\ replies = [p \in Prompts |-> 0]
    /\ up = TRUE /\ deaths = 0

-----------------------------------------------------------------------------
(* send and _wait_for_reply *)

SendCheck(p) ==
    /\ up /\ place[p] = "idle" /\ Live
    /\ MoveTo(p, "publish")
    /\ UNCHANGED <<turnVars, status, overdue, answer, claim, replies, up, deaths>>

\* The unique index uq_act_live_wait allows a turn one awaiting prompt.
Publish(p) ==
    /\ place[p] = "publish"
    /\ \/ /\ \A q \in Prompts : status[q] # "awaiting"
          /\ SetStatus(p, "awaiting") /\ MoveTo(p, "remote") /\ UNCHANGED answer
       \/ /\ \E q \in Prompts : status[q] = "awaiting"
          /\ EndWait(p, "refused") /\ UNCHANGED status
    /\ UNCHANGED <<turnVars, overdue, claim, replies, up, deaths>>

\* The message went out to the paired chat, or the web client shows it.
RemoteSent(p) ==
    /\ place[p] = "remote" /\ MoveTo(p, "poll")
    /\ UNCHANGED <<turnVars, status, overdue, answer, claim, replies, up, deaths>>

\* A send that fails closes the prompt, also one that was answered by then.
RemoteFails(p) ==
    /\ place[p] = "remote"
    /\ SetStatus(p, "failed") /\ EndWait(p, "failed")
    /\ UNCHANGED <<turnVars, overdue, claim, replies, up, deaths>>

Due(p) == overdue[p]

\* One round: the turn is looked at first, then the prompt, then the clock.
Poll(p) ==
    /\ place[p] = "poll"
    /\ \/ ~Live /\ MoveTo(p, "cancel") /\ UNCHANGED answer
       \/ Live /\ status[p] = "answered" /\ EndWait(p, "received")
       \/ Live /\ status[p] \notin {"answered", "awaiting"} /\ EndWait(p, "cancelled")
       \/ Live /\ status[p] = "awaiting" /\ Due(p) /\ MoveTo(p, "expire") /\ UNCHANGED answer
    /\ UNCHANGED <<turnVars, status, overdue, claim, replies, up, deaths>>

CloseWait(p) ==
    status' = IF status[p] = "awaiting" THEN [status EXCEPT ![p] = "cancelled"] ELSE status

FinishCancelled(p) ==
    /\ place[p] = "cancel"
    /\ CloseWait(p) /\ EndWait(p, "cancelled")
    /\ UNCHANGED <<turnVars, overdue, claim, replies, up, deaths>>

ExpireAnyway(p) == TRUE  \* mutant of Undecided
Undecided(p) == status[p] = "awaiting"
ExpiredStatus == "expired"

\* The deadline: a reply that won the claim is returned by the next round.
FinishExpired(p) ==
    /\ place[p] = "expire"
    /\ \/ Undecided(p) /\ SetStatus(p, ExpiredStatus) /\ EndWait(p, "timed_out")
       \/ ~Undecided(p) /\ MoveTo(p, "poll") /\ UNCHANGED <<status, answer>>
    /\ UNCHANGED <<turnVars, overdue, claim, replies, up, deaths>>

-----------------------------------------------------------------------------
(* accept_act_reply *)

Select(c, p) ==
    /\ up /\ claim[c] = {} /\ Live
    /\ status[p] = "awaiting" /\ ~overdue[p]
    /\ claim' = [claim EXCEPT ![c] = {p}]
    /\ UNCHANGED <<turnVars, status, overdue, place, answer, replies, up, deaths>>

Answerable(p) == status[p] = "awaiting" /\ Live

\* The conditional update compares the expiry with the time of the selection.
Claim(c) ==
    /\ up /\ claim[c] # {}
    /\ claim' = [claim EXCEPT ![c] = {}]
    /\ \E p \in claim[c] :
         \/ /\ Answerable(p)
            /\ SetStatus(p, "answered") /\ replies' = [replies EXCEPT ![p] = @ + 1]
         \/ ~Answerable(p) /\ UNCHANGED <<status, replies>>
    /\ UNCHANGED <<turnVars, overdue, place, answer, up, deaths>>

-----------------------------------------------------------------------------
(* The turn, time and restarts. *)

Expire(p) ==
    /\ status[p] # "absent" /\ ~overdue[p]
    /\ overdue' = [overdue EXCEPT ![p] = TRUE]
    /\ UNCHANGED <<turnVars, status, place, answer, claim, replies, up, deaths>>

CancelTurn ==
    /\ up /\ Live /\ cancelReq' = TRUE
    /\ UNCHANGED <<turn, released, status, overdue, place, answer, claim, replies, up,
                   deaths>>

EndTurn ==
    /\ up /\ turn = "running" /\ turn' = "ended"
    /\ UNCHANGED <<released, cancelReq, status, overdue, place, answer, claim, replies, up,
                   deaths>>

KeepWaits == UNCHANGED status  \* mutant of CloseWaits
CloseWaits ==
    status' = [p \in Prompts |-> IF status[p] = "awaiting" THEN "cancelled" ELSE status[p]]

\* The finally block of _execute closes what still waits.
ReleaseTurn ==
    /\ up /\ turn = "ended" /\ ~released
    /\ released' = TRUE /\ CloseWaits
    /\ UNCHANGED <<turn, cancelReq, overdue, place, answer, claim, replies, up, deaths>>

Die ==
    /\ up /\ deaths < MaxDeaths
    /\ up' = FALSE /\ deaths' = deaths + 1
    /\ place' = [p \in Prompts |-> "done"] /\ claim' = [c \in Callers |-> {}]
    /\ UNCHANGED <<turnVars, status, overdue, answer, replies>>

\* recover() interrupts a running turn and closes the waits of interrupted turns.
RecoverWaits ==
    /\ ~up /\ up' = TRUE /\ released' = TRUE
    /\ \/ /\ turn \in {"running", "interrupted"}
          /\ turn' = "interrupted" /\ CloseWaits
       \/ turn = "ended" /\ UNCHANGED <<turn, status>>
    /\ UNCHANGED <<cancelReq, overdue, place, answer, claim, replies, deaths>>

Wait(p) ==
    \/ Publish(p) \/ RemoteSent(p) \/ RemoteFails(p) \/ Poll(p) \/ FinishCancelled(p)
    \/ FinishExpired(p)

ReplyNext ==
    \/ \E p \in Prompts : SendCheck(p) \/ Wait(p) \/ Expire(p)
    \/ \E c \in Callers : Claim(c) \/ \E p \in Prompts : Select(c, p)
    \/ CancelTurn \/ EndTurn \/ ReleaseTurn \/ Die \/ RecoverWaits

ReplySpec == ReplyInit /\ [][ReplyNext]_replyVars
\* The clock moves, the polling loop goes round and a dead process is restarted.
FairReplySpec ==
    /\ ReplySpec /\ WF_replyVars(RecoverWaits)
    /\ \A p \in Prompts : WF_replyVars(Wait(p)) /\ WF_replyVars(Expire(p))

-----------------------------------------------------------------------------
\* The values of the rows, the waits and the callers.
ReplyTypeOK ==
    /\ turn \in {"running", "ended", "interrupted"} /\ released \in BOOLEAN
    /\ cancelReq \in BOOLEAN /\ (released => turn # "running")
    /\ status \in [Prompts -> {"absent", "awaiting", "answered", "expired", "cancelled",
                               "failed"}]
    /\ overdue \in [Prompts -> BOOLEAN]
    /\ place \in [Prompts -> {"idle", "publish", "remote", "poll", "cancel", "expire",
                             "done"}]
    /\ answer \in [Prompts -> {"none", "refused", "failed", "received", "cancelled",
                               "timed_out"}]
    /\ claim \in [Callers -> SUBSET Prompts] /\ replies \in [Prompts -> Nat]
    /\ up \in BOOLEAN /\ deaths \in 0..MaxDeaths

\* A reply that was taken for a prompt is what its wait returns: it never times
\* out, and it is dropped only with a turn that was cancelled or is over, or when
\* the prompt could not be sent.  A prompt takes one reply.
ReplyReachesAgent ==
    \A p \in Prompts : replies[p] > 0 =>
        /\ replies[p] = 1
        /\ answer[p] = "cancelled" => ~Live
        /\ answer[p] # "timed_out"

\* Every call that waits comes back, by a reply, its deadline or the turn's end, and
\* its wait is then closed: by the waiter, the turn, or recovery of a running turn.
\* Excepted is the wait of a turn whose end was stored before the process died and
\* its waits were closed: recover() passes it by.
WaitsEnd ==
    \A p \in Prompts :
        place[p] # "idle" ~>
            /\ place[p] = "done"
            /\ status[p] # "awaiting" \/ (deaths > 0 /\ turn = "ended")
=============================================================================
