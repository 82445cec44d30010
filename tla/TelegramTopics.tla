---------------------------- MODULE TelegramTopics ----------------------------
(***************************************************************************)
(* The conversational Telegram bot of one agent (telegram_service.py): the *)
(* long poll and its offset, pairing, the topics that carry sessions, the  *)
(* projection of sessions made in the browser, delivery of results, and    *)
(* the retirement of deleted topics.  One user, one private chat per bot;  *)
(* topics are numbered per bot, so a number says nothing about the bot.    *)
(*                                                                         *)
(* Telegram's own side is what the code relies on: updates of a bot come   *)
(* in order, those below a requested offset are never sent again, and a    *)
(* call on a topic that is gone reports so.                                *)
(***************************************************************************)
EXTENDS Naturals, Sequences, FiniteSets, FiniteSetsExt

CONSTANTS Bots,        \* bot accounts whose token the user may enter
          First,       \* the bot that is paired at the start
          Others,      \* threads beside the poller: requests and deliveries
          MaxWeb,      \* bound: sessions made in the browser
          MaxUpdates,  \* bound: updates the user causes, over all bots
          MaxTopics,   \* bound: topics of a bot
          MaxUpsets    \* bound: new pairings, deaths, failed calls and statements

ASSUME TopicConstants ==
    /\ IsFiniteSet(Bots) /\ First \in Bots /\ "poller" \notin Others
    /\ {MaxWeb, MaxUpdates, MaxTopics, MaxUpsets} \subseteq Nat

Threads == Others \cup {"poller"}
WebIds == 1..MaxWeb                                 \* sessions with origin web
\* The rest have origin telegram; an update is handled again after an upset only.
Sessions == 1..(MaxWeb + MaxUpdates * (MaxUpsets + 1))
Numbers == 1..MaxTopics
Updates == Bots \X (1..MaxUpdates)

VARIABLES
    conn,        \* the TelegramBotConnection row: bot, code, status, last
    bound,       \* TelegramTopicSession: session of a topic number, 0 for none
    tomb,        \* TelegramDeletedTopic: the numbers retired in this pairing
    session,     \* status of each session
    busy,        \* topic of the session's queued or running turn, 0 for none
    remote,      \* Telegram: the topics of each bot, in the order they were made
    sent,        \* Telegram: the updates of each bot
    confirmed,   \* Telegram: how many updates of a bot are confirmed
    copy,        \* the poller's copy of the row, read when the poll began
    at, upto,    \* the update in hand and the last one of the batch
    first,       \* no commit has expired the copy since the poll began
    pc, work,    \* place of each thread, and what it works on
    sessionLock, topicLock,
    got,         \* how often an update's text became a turn
    again,       \* how often one did that had become one before
    offered,     \* the updates a handler was called for
    late,        \* texts taken when their bot was no longer the paired one
    torn,        \* an offset was written to a row that had changed its bot
    crashes, faults

rowVars == <<conn, bound, tomb>>
agentVars == <<session, busy>>
telegramVars == <<remote, sent, confirmed>>
pollVars == <<copy, at, upto, first>>
threadVars == <<pc, work>>
lockVars == <<sessionLock, topicLock>>
textVars == <<got, again, late>>
seenVars == <<textVars, offered, torn>>
faultVars == <<crashes, faults>>
vars == <<rowVars, agentVars, telegramVars, pollVars, threadVars, lockVars, seenVars, faultVars>>

Blank == [topic |-> 0, session |-> 0, bot |-> First, code |-> 0, todo |-> {}]
NoCopy == [bot |-> First, code |-> 0, status |-> "pairing", last |-> 0]

NoPoll == copy' = NoCopy /\ at' = 1 /\ upto' = 0 /\ first' = FALSE

Upset == crashes + faults + conn.code - 1 < MaxUpsets
Goto(t, l) == pc' = [pc EXCEPT ![t] = l]
Connected == conn.status = "connected"
Open(b, n) == n \in DOMAIN remote[b] /\ remote[b][n].open
Close(b, n) == IF Open(b, n) THEN [remote EXCEPT ![b][n].open = FALSE] ELSE remote
BoundTo(s) == \E n \in Numbers : bound[n] = s

Init ==
    /\ conn = [bot |-> First, code |-> 1, status |-> "connected", last |-> 0]
    /\ bound = [n \in Numbers |-> 0] /\ tomb = {}
    /\ session = [s \in Sessions |-> "none"] /\ busy = [s \in Sessions |-> 0]
    /\ remote = [b \in Bots |-> <<>>] /\ sent = [b \in Bots |-> <<>>]
    /\ confirmed = [b \in Bots |-> 0]
    /\ copy = NoCopy /\ at = 1 /\ upto = 0 /\ first = FALSE
    /\ pc = [t \in Threads |-> "idle"] /\ work = [t \in Threads |-> Blank]
    /\ sessionLock = {} /\ topicLock = {}
    /\ got = [u \in Updates |-> 0] /\ again = 0 /\ late = 0 /\ offered = {} /\ torn = FALSE
    /\ crashes = 0 /\ faults = 0

(***************************************************************************)
(* The end of a thread's step on one thing: the poller saves the offset    *)
(* while a batch is in hand and then ends its poll; the others are done.   *)
(***************************************************************************)
GiveUp(t) ==
    /\ Goto(t, "idle") /\ work' = [work EXCEPT ![t] = Blank]
    /\ IF t = "poller" THEN NoPoll ELSE UNCHANGED pollVars

Finish(t) ==
    IF t = "poller" /\ at <= upto
    THEN /\ Goto(t, "save") /\ work' = [work EXCEPT ![t] = Blank] /\ UNCHANGED pollVars
    ELSE GiveUp(t)

\* The sessions that are still to be projected by t.
Proceed(t, todo) ==
    IF todo = {} THEN Finish(t)
    ELSE Goto(t, "project") /\ work' = [work EXCEPT ![t] = [Blank EXCEPT !.todo = todo]] /\ UNCHANGED pollVars

Active(s) == session[s] = "active"
ProjectAll == {s \in WebIds : Active(s)}

(***************************************************************************)
(* The long poll.                                                          *)
(***************************************************************************)
\* The row is read for its token and refreshed for its offset; a bot replaced
\* between the two ends the poll, so that one read stands for both.
BeginPoll ==
    /\ pc["poller"] = "idle"
    /\ copy' = conn /\ Goto("poller", "ask")
    /\ UNCHANGED <<rowVars, agentVars, telegramVars, at, upto, first, work, lockVars, seenVars, faultVars>>

\* getUpdates: Telegram forgets what is below the offset and sends the rest.
Receive ==
    LET b == copy.bot
        from == Max({confirmed[b], copy.last})
    IN  /\ pc["poller"] = "ask" /\ from < Len(sent[b])
        /\ confirmed' = [confirmed EXCEPT ![b] = from]
        /\ at' = from + 1 /\ upto' = Len(sent[b]) /\ first' = TRUE
        /\ Goto("poller", "handle")
        /\ UNCHANGED <<rowVars, agentVars, remote, sent, copy, work, lockVars, seenVars, faultVars>>

\* The request ran out of time: there is only what follows a batch.
ReceiveNone ==
    LET b == copy.bot
        from == Max({confirmed[b], copy.last})
    IN  /\ pc["poller"] = "ask" /\ from >= Len(sent[b])
        /\ confirmed' = [confirmed EXCEPT ![b] = from]
        /\ Proceed("poller", IF Connected THEN ProjectAll ELSE {})
        /\ UNCHANGED <<rowVars, agentVars, remote, sent, lockVars, seenVars, faultVars>>

\* Only set_offset's commit expires the copy: db.get gives the first handler of
\* a poll the row as it was when the poll began.
Row == IF first THEN copy ELSE conn
Update == sent[copy.bot][at]
BotOnly == Row.bot = copy.bot  \* mutant of Listening
Listening == Row.bot = copy.bot /\ Row.status = "connected"
Offer == offered' = offered \cup {<<copy.bot, at>>}

AcceptMessage ==
    /\ pc["poller"] = "handle" /\ Update.kind \in {"text", "created"}
    /\ Listening
    /\ Goto("poller", "resolve") /\ work' = [work EXCEPT !["poller"].topic = Update.topic]
    /\ Offer
    /\ UNCHANGED <<rowVars, agentVars, telegramVars, pollVars, lockVars, textVars, torn, faultVars>>

\* An update that is not for the agent is passed over like any other.
IgnoreStops == Goto("poller", "idle") /\ NoPoll  \* mutant of PassOver
PassOver == Goto("poller", "save") /\ UNCHANGED pollVars

IgnoreMessage ==
    /\ pc["poller"] = "handle" /\ Update.kind \in {"text", "created"}
    /\ ~Listening
    /\ PassOver /\ Offer
    /\ UNCHANGED <<rowVars, agentVars, telegramVars, work, lockVars, textVars, torn, faultVars>>

\* resolve_session reads under the topic's lock and keeps it while it claims the
\* topic for a new session; enqueue_turn refuses a session that has a turn.
Ready(s, text) == Active(s) /\ (text => busy[s] = 0)
Resolve ==
    LET n == work["poller"].topic
        s == bound[n]
        text == Update.kind = "text"
    IN  /\ pc["poller"] = "resolve" /\ n \notin topicLock
        /\ \/ /\ s # 0 /\ text /\ Ready(s, text)
              /\ Goto("poller", "take") /\ work' = [work EXCEPT !["poller"].session = s]
              /\ UNCHANGED topicLock
           \/ /\ s # 0 /\ ~text /\ Ready(s, text)
              /\ Goto("poller", "save") /\ work' = [work EXCEPT !["poller"] = Blank]
              /\ UNCHANGED topicLock
           \/ /\ s = 0 /\ n \notin tomb
              /\ Goto("poller", "claim") /\ topicLock' = topicLock \cup {n} /\ UNCHANGED work
           \/ /\ \/ s # 0 /\ ~Ready(s, text)
                 \/ s = 0 /\ n \in tomb
              /\ Goto("poller", IF text THEN "reply" ELSE "close") /\ UNCHANGED <<work, topicLock>>
        /\ UNCHANGED <<rowVars, agentVars, telegramVars, pollVars, sessionLock, seenVars, faultVars>>

Taken(s) ==
    /\ busy' = [busy EXCEPT ![s] = work["poller"].topic]
    /\ got' = [got EXCEPT ![<<copy.bot, at>>] = @ + 1]
    /\ again' = IF got[<<copy.bot, at>>] = 0 THEN again ELSE again + 1
    /\ late' = IF Connected /\ conn.bot = copy.bot THEN late ELSE late + 1

\* The commit of a turn on the session that was found.
Take ==
    /\ pc["poller"] = "take"
    /\ Taken(work["poller"].session) /\ Goto("poller", "reply")
    /\ UNCHANGED <<rowVars, session, telegramVars, pollVars, work, lockVars, offered, torn, faultVars>>

\* The commit of a new session with its topic, and of the turn.
Claim ==
    LET n == work["poller"].topic
        text == Update.kind = "text"
    IN  /\ pc["poller"] = "claim" /\ topicLock' = topicLock \ {n} /\ bound[n] = 0
        /\ \E s \in Sessions \ WebIds :
             /\ session[s] = "none" /\ \A i \in Sessions \ WebIds : session[i] = "none" => s <= i
             /\ session' = [session EXCEPT ![s] = "active"] /\ bound' = [bound EXCEPT ![n] = s]
             /\ \/ text /\ Taken(s)
                \/ ~text /\ UNCHANGED <<busy, textVars>>
        /\ Goto("poller", IF text THEN "reply" ELSE "save")
        /\ work' = IF text THEN work ELSE [work EXCEPT !["poller"] = Blank]
        /\ UNCHANGED <<conn, tomb, telegramVars, pollVars, sessionLock, offered, torn, faultVars>>

\* Another thread bound the topic first: its session is used.
ClaimLost ==
    LET n == work["poller"].topic
        s == bound[n]
        text == Update.kind = "text"
    IN  /\ pc["poller"] = "claim" /\ topicLock' = topicLock \ {n} /\ s # 0
        /\ \/ /\ text /\ Ready(s, text)
              /\ Taken(s) /\ Goto("poller", "reply") /\ UNCHANGED work
           \/ /\ ~text /\ Ready(s, text)
              /\ Goto("poller", "save") /\ work' = [work EXCEPT !["poller"] = Blank]
              /\ UNCHANGED <<busy, textVars>>
           \/ /\ ~Ready(s, text)
              /\ Goto("poller", IF text THEN "reply" ELSE "close")
              /\ UNCHANGED <<busy, textVars, work>>
        /\ UNCHANGED <<rowVars, session, telegramVars, pollVars, sessionLock, offered, torn, faultVars>>

\* A topic that cannot have a session is deleted, in the bot paired now.
CloseTopic ==
    /\ pc["poller"] = "close"
    /\ remote' = IF Connected THEN Close(conn.bot, work["poller"].topic) ELSE remote
    /\ Goto("poller", "save") /\ work' = [work EXCEPT !["poller"] = Blank]
    /\ UNCHANGED <<rowVars, agentVars, sent, confirmed, pollVars, lockVars, seenVars, faultVars>>

(***************************************************************************)
(* Pairing: the settings request, and the /start with the code.            *)
(***************************************************************************)
StartPairing(b) ==
    /\ Upset
    /\ conn' = [bot |-> b, code |-> conn.code + 1, status |-> "pairing", last |-> 0]
    /\ bound' = [n \in Numbers |-> 0] /\ tomb' = {}
    /\ UNCHANGED <<agentVars, telegramVars, pollVars, threadVars, lockVars, seenVars, faultVars>>

Matches == conn.bot = copy.bot /\ conn.status = "pairing" /\ Update.code = conn.code
ReadCode ==
    /\ pc["poller"] = "handle" /\ Update.kind = "code"
    /\ Goto("poller", IF Matches THEN "confirm" ELSE "save") /\ Offer
    /\ UNCHANGED <<rowVars, agentVars, telegramVars, pollVars, work, lockVars, textVars, torn, faultVars>>

\* getMe lies between the look at the row and this commit.
Confirm ==
    /\ pc["poller"] = "confirm"
    /\ conn' = [conn EXCEPT !.status = "connected"]
    /\ Proceed("poller", ProjectAll)
    /\ UNCHANGED <<bound, tomb, agentVars, telegramVars, lockVars, seenVars, faultVars>>

\* getMe fails, or the bot has no topics for its users.
ConfirmFails ==
    /\ pc["poller"] = "confirm" /\ Goto("poller", "save")
    /\ conn' \in {conn, [conn EXCEPT !.status = "invalid"]}
    /\ UNCHANGED <<bound, tomb, agentVars, telegramVars, pollVars, work, lockVars, seenVars, faultVars>>

(***************************************************************************)
(* The offset: refreshed and compared with the bot of the poll, then       *)
(* committed; after the batch the sessions without a topic are projected.  *)
(***************************************************************************)
CheckOffset ==
    /\ pc["poller"] = "save"
    /\ IF conn.bot = copy.bot THEN Goto("poller", "commit") /\ UNCHANGED pollVars
       ELSE /\ Goto("poller", "idle")
            /\ NoPoll
    /\ UNCHANGED <<rowVars, agentVars, telegramVars, work, lockVars, seenVars, faultVars>>

\* The offset is kept after every update, not once for the batch.
BatchEnd == IF at < upto THEN conn.last ELSE at  \* mutant of Kept
Kept == at

SetOffset ==
    /\ pc["poller"] = "commit"
    /\ conn' = [conn EXCEPT !.last = Kept]
    /\ torn' = (torn \/ conn.bot # copy.bot)
    /\ at' = at + 1 /\ first' = FALSE
    /\ Goto("poller", IF at < upto THEN "handle" ELSE "sync")
    /\ UNCHANGED <<bound, tomb, agentVars, telegramVars, copy, upto, work, lockVars, textVars, offered, faultVars>>

Sync ==
    /\ pc["poller"] = "sync"
    /\ Proceed("poller", IF Connected THEN ProjectAll ELSE {})
    /\ UNCHANGED <<rowVars, agentVars, telegramVars, lockVars, seenVars, faultVars>>

(***************************************************************************)
(* create_topic_for_session, for the poller and for the request that made  *)
(* the session.                                                            *)
(***************************************************************************)
Skip(t, s) == Proceed(t, work[t].todo \ {s})

Look(t) ==
    /\ pc[t] = "project"
    /\ \E s \in work[t].todo :
         /\ \A i \in work[t].todo : s <= i
         /\ LET missing == Active(s) /\ Connected /\ ~BoundTo(s)
            IN  \/ ~missing /\ Skip(t, s)
                \/ /\ missing /\ Goto(t, "lock")
                   /\ work' = [work EXCEPT ![t].session = s, ![t].bot = conn.bot, ![t].code = conn.code]
                   /\ UNCHANGED pollVars
    /\ UNCHANGED <<rowVars, agentVars, telegramVars, lockVars, seenVars, faultVars>>

\* The second look at the mapping, under the lock of the session.
NoSecondLook(s) == FALSE  \* mutant of Projected
Projected(s) == BoundTo(s)

Lock(t) ==
    LET s == work[t].session
    IN  /\ pc[t] = "lock" /\ s \notin sessionLock
        /\ \/ Projected(s) /\ Skip(t, s) /\ UNCHANGED sessionLock
           \/ /\ ~Projected(s) /\ sessionLock' = sessionLock \cup {s} /\ Goto(t, "create")
              /\ UNCHANGED <<work, pollVars>>
        /\ UNCHANGED <<rowVars, agentVars, telegramVars, topicLock, seenVars, faultVars>>

Unlock(t) == sessionLock' = sessionLock \ {work[t].session}
Made(t) == [open |-> TRUE, session |-> work[t].session, code |-> work[t].code]

CreateTopic(t) ==
    LET b == work[t].bot
    IN  /\ pc[t] = "create" /\ Len(remote[b]) < MaxTopics
        /\ remote' = [remote EXCEPT ![b] = Append(@, Made(t))]
        /\ Goto(t, "bind") /\ work' = [work EXCEPT ![t].topic = Len(remote[b]) + 1]
        /\ UNCHANGED <<rowVars, agentVars, sent, confirmed, pollVars, lockVars, seenVars, faultVars>>

\* The call fails, before or after Telegram made the topic.
CreateFails(t) ==
    LET b == work[t].bot
    IN  /\ pc[t] = "create"
        /\ \/ /\ Len(remote[b]) = MaxTopics /\ UNCHANGED <<remote, faults>>
           \/ /\ Upset /\ faults' = faults + 1
              /\ \/ UNCHANGED remote
                 \/ Len(remote[b]) < MaxTopics /\ remote' = [remote EXCEPT ![b] = Append(@, Made(t))]
        /\ Unlock(t) /\ Skip(t, work[t].session)
        /\ UNCHANGED <<rowVars, agentVars, sent, confirmed, topicLock, seenVars, crashes>>

\* Either unique constraint may refuse the mapping, or its commit fail: then the
\* topic goes again, and that call may fail too.
Bind(t) ==
    LET n == work[t].topic
        s == work[t].session
    IN  /\ pc[t] = "bind"
        /\ \/ /\ bound[n] = 0 /\ ~BoundTo(s)
              /\ bound' = [bound EXCEPT ![n] = s] /\ UNCHANGED <<remote, faults>>
           \/ /\ bound[n] # 0 \/ BoundTo(s)
              /\ remote' = Close(work[t].bot, n) /\ UNCHANGED <<bound, faults>>
           \/ /\ Upset /\ faults' = faults + 1 /\ UNCHANGED bound
              /\ remote' = Close(work[t].bot, n) \/ UNCHANGED remote
        /\ Unlock(t) /\ Skip(t, s)
        /\ UNCHANGED <<conn, tomb, agentVars, sent, confirmed, topicLock, seenVars, crashes>>

(***************************************************************************)
(* What a thread sends to a topic, and the retirement of a missing one.    *)
(***************************************************************************)
Reply(t) ==
    /\ pc[t] = "reply"
    /\ \/ /\ Connected /\ ~Open(conn.bot, work[t].topic)
          /\ Goto(t, "retire") /\ UNCHANGED <<work, pollVars>>
       \/ (~Connected \/ Open(conn.bot, work[t].topic)) /\ Finish(t)
    /\ UNCHANGED <<rowVars, agentVars, telegramVars, lockVars, seenVars, faultVars>>

Retire(t) ==
    LET n == work[t].topic
    IN  /\ pc[t] = "retire"
        /\ \/ bound[n] = 0 /\ Finish(t) /\ UNCHANGED topicLock
           \/ /\ bound[n] # 0 /\ n \notin topicLock
              /\ topicLock' = topicLock \cup {n} /\ Goto(t, "archive")
              /\ work' = [work EXCEPT ![t].session = bound[n], ![t].code = conn.code]
              /\ UNCHANGED pollVars
        /\ UNCHANGED <<rowVars, agentVars, telegramVars, sessionLock, seenVars, faultVars>>

\* delete_topic_session: an idle session is archived with its topic; of a busy one,
\* or one whose Codex thread cannot be archived, only the mapping goes.  A number that
\* is retired already fails the commit: nothing catches that in _handle_message, and
\* the poller cannot save its offset in the session it leaves.
Archive(t) ==
    LET n == work[t].topic
        s == work[t].session
        idle == ~Active(s) \/ busy[s] = 0
    IN  /\ pc[t] = "archive"
        /\ \/ /\ idle /\ n \notin tomb
              /\ session' = IF Active(s) THEN [session EXCEPT ![s] = "archived"] ELSE session
              /\ bound' = IF conn.code = work[t].code THEN [bound EXCEPT ![n] = 0] ELSE bound
              /\ tomb' = tomb \cup {n}
              /\ Finish(t) /\ UNCHANGED faults
           \/ /\ Active(s) /\ UNCHANGED session
              /\ bound' = [bound EXCEPT ![n] = 0]
              /\ tomb' = IF bound[n] # 0 THEN tomb \cup {n} ELSE tomb
              /\ Finish(t) /\ UNCHANGED faults
           \/ /\ idle /\ n \in tomb /\ UNCHANGED <<session, bound, tomb>>
              /\ GiveUp(t) /\ Upset /\ faults' = faults + 1
        /\ topicLock' = topicLock \ {n}
        /\ UNCHANGED <<conn, busy, telegramVars, sessionLock, seenVars, crashes>>

(***************************************************************************)
(* The other threads: a session made in the browser, and a finished turn.  *)
(***************************************************************************)
CreateSession(t) ==
    /\ pc[t] = "idle"
    /\ \E s \in WebIds :
         /\ session[s] = "none" /\ \A i \in WebIds : session[i] = "none" => s <= i
         /\ session' = [session EXCEPT ![s] = "active"]
         /\ Goto(t, "project") /\ work' = [work EXCEPT ![t].todo = {s}]
    /\ UNCHANGED <<rowVars, busy, telegramVars, pollVars, lockVars, seenVars, faultVars>>

EndTurn(t) ==
    /\ pc[t] = "idle"
    /\ \E s \in Sessions :
         /\ busy[s] # 0 /\ busy' = [busy EXCEPT ![s] = 0]
         /\ Goto(t, "deliver") /\ work' = [work EXCEPT ![t].session = s, ![t].topic = busy[s]]
    /\ UNCHANGED <<rowVars, session, telegramVars, pollVars, lockVars, seenVars, faultVars>>

\* A result goes to the topic of its turn while that is the session's topic.
Deliver(t) ==
    /\ pc[t] = "deliver"
    /\ LET s == work[t].session
           deliverable == Connected /\ Active(s) /\ bound[work[t].topic] = s
       IN  \/ deliverable /\ Goto(t, "reply") /\ UNCHANGED <<work, pollVars>>
           \/ ~deliverable /\ Finish(t)
    /\ UNCHANGED <<rowVars, agentVars, telegramVars, lockVars, seenVars, faultVars>>

WebArchive(s) ==
    /\ Active(s) /\ busy[s] = 0
    /\ session' = [session EXCEPT ![s] = "archived"]
    /\ UNCHANGED <<rowVars, busy, telegramVars, pollVars, threadVars, lockVars, seenVars, faultVars>>

(***************************************************************************)
(* A statement or a commit of a thread fails, on a locked database for     *)
(* instance.  When the session is left in the failed transaction the       *)
(* poller's set_offset raises too, outside of its try, and the poll ends   *)
(* with the offset unsaved; when it was rolled back the poll goes on.      *)
(***************************************************************************)
Fails(t) ==
    /\ pc[t] # "idle" /\ Upset /\ faults' = faults + 1
    /\ GiveUp(t) \/ (pc[t] \notin {"handle", "save", "commit"} /\ Finish(t))
    /\ sessionLock' = IF pc[t] \in {"create", "bind"} THEN sessionLock \ {work[t].session} ELSE sessionLock
    /\ topicLock' = IF pc[t] \in {"claim", "archive"} THEN topicLock \ {work[t].topic} ELSE topicLock
    /\ UNCHANGED <<rowVars, agentVars, telegramVars, seenVars, crashes>>

(***************************************************************************)
(* The user, in the chat with a bot, and the death of the process.         *)
(***************************************************************************)
Sent == {u \in Updates : u[2] <= Len(sent[u[1]])}
Sends(b, update) ==
    /\ Cardinality(Sent) < MaxUpdates
    /\ sent' = [sent EXCEPT ![b] = Append(@, update)]

UserTopic(b) ==
    /\ Len(remote[b]) < MaxTopics
    /\ Sends(b, [kind |-> "created", topic |-> Len(remote[b]) + 1, code |-> 0])
    /\ remote' = [remote EXCEPT ![b] = Append(@, [open |-> TRUE, session |-> 0, code |-> 0])]
    /\ UNCHANGED <<rowVars, agentVars, confirmed, pollVars, threadVars, lockVars, seenVars, faultVars>>

UserText(b) ==
    /\ \E n \in Numbers : Open(b, n) /\ Sends(b, [kind |-> "text", topic |-> n, code |-> 0])
    /\ UNCHANGED <<rowVars, agentVars, remote, confirmed, pollVars, threadVars, lockVars, seenVars, faultVars>>

UserCode ==
    /\ conn.status = "pairing" /\ Sends(conn.bot, [kind |-> "code", topic |-> 0, code |-> conn.code])
    /\ UNCHANGED <<rowVars, agentVars, remote, confirmed, pollVars, threadVars, lockVars, seenVars, faultVars>>

UserDeletes(b) ==
    /\ \E n \in Numbers : Open(b, n) /\ remote' = Close(b, n)
    /\ UNCHANGED <<rowVars, agentVars, sent, confirmed, pollVars, threadVars, lockVars, seenVars, faultVars>>

Crash ==
    /\ Upset /\ crashes' = crashes + 1
    /\ pc' = [t \in Threads |-> "idle"] /\ work' = [t \in Threads |-> Blank]
    /\ NoPoll
    /\ sessionLock' = {} /\ topicLock' = {}
    /\ UNCHANGED <<rowVars, agentVars, telegramVars, seenVars, faults>>

Handle == AcceptMessage \/ IgnoreMessage \/ Resolve \/ Take \/ Claim \/ ClaimLost \/ CloseTopic
Pair == ReadCode \/ Confirm \/ ConfirmFails
Poll == BeginPoll \/ Receive \/ ReceiveNone \/ Handle \/ Pair \/ CheckOffset \/ SetOffset \/ Sync
Work(t) ==
    \/ Look(t) \/ Lock(t) \/ CreateTopic(t) \/ CreateFails(t) \/ Bind(t)
    \/ Reply(t) \/ Retire(t) \/ Archive(t) \/ Deliver(t)
User == \E b \in Bots : StartPairing(b) \/ UserTopic(b) \/ UserText(b) \/ UserDeletes(b)

Next ==
    \/ Poll \/ User \/ UserCode \/ Crash
    \/ \E t \in Threads : Work(t) \/ Fails(t)
    \/ \E t \in Others : CreateSession(t) \/ EndTurn(t)
    \/ \E s \in Sessions : WebArchive(s)

Spec == Init /\ [][Next]_vars

\* The poller's loop and every started thread go on; users need do nothing.
FairSpec == Spec /\ WF_vars(Poll \/ Work("poller")) /\ \A t \in Others : WF_vars(Work(t))

TypeOK ==
    /\ conn \in [bot : Bots, code : 1..(MaxUpsets + 1), status : {"pairing", "connected", "invalid"}, last : 0..MaxUpdates]
    /\ bound \in [Numbers -> Sessions \cup {0}] /\ tomb \subseteq Numbers
    /\ session \in [Sessions -> {"none", "active", "archived"}] /\ busy \in [Sessions -> 0..MaxTopics]
    /\ at \in 1..(MaxUpdates + 1) /\ upto \in 0..MaxUpdates

(***************************************************************************)
(* Properties.                                                             *)
(***************************************************************************)
\* A text becomes a turn once more only after a death, a failed statement or call,
\* or a new pairing, and "a restart does not replay an entire batch"
\* (telegram_provider.py:1550): each death or failure repeats one.  New pairings may
\* repeat a batch, if a look at the old code connects the next bot.
RepeatsNeedUpsets ==
    /\ \A u \in Updates : got[u] <= crashes + faults + conn.code
    /\ conn.code = 1 => again <= crashes + faults

\* A text sent to the bot of an ended pairing becomes a turn at most once per
\* ended pairing: that of the handler that was running when it ended.
OldPairingEnds == late < conn.code

\* In one pairing a session has one open topic, however many requests and polls
\* project it at once; a second is left only by a death, a lost answer or a failed
\* statement or call between the topic and its mapping.  Excepted are
\* the topics whose number was retired: a retirement that was begun in the pairing before
\* takes the topic of this one that has the number.
TopicsOf(s, code) ==
    {x \in Bots \X Numbers : LET b == x[1] n == x[2] IN
        Open(b, n) /\ remote[b][n].session = s /\ remote[b][n].code = code /\ n \notin tomb}
OneTopicPerSession ==
    \A s \in WebIds : Cardinality(TopicsOf(s, conn.code)) <= 1 + crashes + faults

\* Every update is handed to a handler, unless its bot is replaced first: a
\* handler's failure, also one that ends the poll, does not hold back the updates
\* behind it for ever.  Excepted is a retired number that has a session again: each
\* look at its topic, once that is gone, may fail the poll anew.
Stale == \E n \in tomb : bound[n] # 0
EveryUpdateOffered ==
    []<>(torn \/ Stale \/ \A i \in DOMAIN sent[conn.bot] : <<conn.bot, i>> \in offered)

\* docs/integrations/telegram.md:27: the worker refreshes the bot and its
\* pairing before it handles an update.  The message handler does not.
RefreshesFirst ==
    [][pc["poller"] = "handle" /\ pc'["poller"] = "resolve" =>
         conn.bot = copy.bot /\ conn.status = "connected"]_vars
===============================================================================
