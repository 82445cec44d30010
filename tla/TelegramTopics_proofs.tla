------------------------ MODULE TelegramTopics_proofs ------------------------
(***************************************************************************)
(* Safety of the Telegram topics for any bots, threads, sessions, updates  *)
(* and topics, and any number of new pairings, deaths and failures.        *)
(***************************************************************************)
EXTENDS TelegramTopics, FiniteSetTheorems, SequenceTheorems, TLAPS

Before == {"handle", "resolve", "take", "claim"}
InPoll == Before \cup {"reply", "retire", "archive", "close", "confirm", "save", "commit"}
Making == {"create", "bind"}

UpdateRecs == [kind : {"text", "created", "code"}, topic : 0..MaxTopics, code : Nat]
TopicRecs == [open : BOOLEAN, session : Sessions \cup {0}, code : Nat]
WorkRecs ==
    [topic : 0..MaxTopics, session : Sessions \cup {0}, bot : Bots, code : Nat, todo : SUBSET WebIds]
Statuses == {"pairing", "connected", "invalid"}

TypeInv ==
    /\ TypeOK
    /\ crashes \in Nat /\ faults \in Nat /\ crashes + faults + conn.code - 1 <= MaxUpsets
    /\ remote \in [Bots -> Seq(TopicRecs)] /\ \A b \in Bots : Len(remote[b]) <= MaxTopics
    /\ sent \in [Bots -> Seq(UpdateRecs)] /\ \A b \in Bots : Len(sent[b]) <= MaxUpdates
    /\ \A b \in Bots : \A i \in 1..Len(sent[b]) : sent[b][i].kind # "code" => sent[b][i].topic # 0
    /\ confirmed \in [Bots -> Nat]
    /\ copy \in [bot : Bots, code : Nat, status : Statuses, last : 0..MaxUpdates]
    /\ got \in [Updates -> Nat] /\ again \in Nat /\ late \in Nat

\* What a thread works on at each place.
Fits(l, w) ==
    /\ l \in {"resolve", "take", "claim", "bind", "reply", "retire", "archive", "deliver"} => w.topic # 0
    /\ l \in {"take", "archive"} => w.session # 0
    /\ l \in {"lock"} \cup Making => w.session \in WebIds
WorkInv ==
    /\ DOMAIN pc = Threads /\ work \in [Threads -> WorkRecs]
    /\ \A t \in Threads : Fits(pc[t], work[t])

PollInv ==
    /\ at <= upto + 1 /\ upto <= Len(sent[copy.bot])
    /\ pc["poller"] \in {"idle", "ask"} => at = 1 /\ upto = 0 /\ ~first
    /\ pc["poller"] \in InPoll => at <= upto
    /\ pc["poller"] = "sync" => at > upto
    /\ pc["poller"] # "deliver"
    /\ pc["poller"] \in {"resolve", "take", "claim"} => Update.kind # "code"

\* The poller is on its way to take a text of the bot it polls, having found it paired.
Paired == Connected /\ conn.bot = copy.bot
Heard ==
    \/ pc["poller"] \in {"resolve", "take", "claim"}
    \/ (pc["poller"] = "ask" \/ (pc["poller"] = "handle" /\ first)) /\ copy.status = "connected"
LateInv ==
    /\ late < conn.code
    /\ Heard => Paired \/ late + 1 < conn.code

\* The text of b numbered i is not taken again before the next upset: its offset is
\* stored, or it is the one in hand and its turn is made.
Past == pc["poller"] \notin Before
Passed(b, i) ==
    /\ conn.bot = b => conn.last >= i \/ (copy.bot = b /\ at <= upto /\ at = i /\ Past)
    /\ copy.bot = b /\ at <= upto => at > i \/ (at = i /\ Past)
    /\ pc["poller"] = "ask" /\ copy.bot = b => copy.last >= i
Due(b, i) == got[<<b, i>>] < crashes + faults + conn.code
Spent(b, i) == got[<<b, i>>] = crashes + faults + conn.code /\ Passed(b, i)
RepeatInv ==
    /\ pc["poller"] = "commit" => conn.bot = copy.bot \/ conn.last = 0
    /\ \A b \in Bots : \A i \in 1..MaxUpdates : Due(b, i) \/ Spent(b, i)

\* In the first pairing one text at most is taken and its offset not stored: the one
\* in hand, or the one a death or a failure left.
Exposed(i) == got[<<First, i>>] > 0 /\ i > conn.last
FirstPoll ==
    /\ conn.bot = First /\ copy.bot = First /\ confirmed[First] <= conn.last
    /\ pc["poller"] = "ask" => copy.last = conn.last
    /\ upto > 0 => conn.last = at - 1
FirstText ==
    /\ again <= crashes + faults
    /\ \A i \in 1..MaxUpdates : Exposed(i) =>
          i = conn.last + 1 /\ ((at = i /\ at <= upto /\ Past) \/ again < crashes + faults)
FirstInv == conn.code = 1 => FirstPoll /\ FirstText

\* Making a topic for a session: it is made for the row's bot, or for a pairing that
\* has ended; one thread at a time makes one for a session, and none has one by then.
AtMaking == {"lock"} \cup Making
PlanInv ==
    \A t \in Threads : pc[t] \in AtMaking =>
        work[t].code <= conn.code /\ (work[t].code = conn.code => work[t].bot = conn.bot)
AloneInv ==
    /\ \A t \in Threads : pc[t] \in Making => work[t].session \in sessionLock /\ ~BoundTo(work[t].session)
    /\ \A t, u \in Threads :
          pc[t] \in Making /\ pc[u] \in Making /\ work[t].session = work[u].session => t = u
BoundInv == \A s \in WebIds : \A m, n \in Numbers : bound[m] = s /\ bound[n] = s => m = n
CodeInv ==
    \A b \in Bots, n \in Numbers : Open(b, n) =>
        remote[b][n].code <= conn.code /\ (remote[b][n].code = conn.code => b = conn.bot)
MakeInv == PlanInv /\ AloneInv /\ BoundInv /\ CodeInv

\* A topic of the session that is neither bound to it nor about to be.
Binds(t, s, b, n) == pc[t] = "bind" /\ work[t].session = s /\ work[t].bot = b /\ work[t].topic = n
Mine(s, b, n) ==
    Open(b, n) /\ remote[b][n].session = s /\ remote[b][n].code = conn.code /\ n \notin tomb
Stray(s, b, n) == Mine(s, b, n) /\ bound[n] # s /\ \A t \in Threads : ~Binds(t, s, b, n)
Strays(s) == {x \in Bots \X Numbers : Stray(s, x[1], x[2])}
StrayInv == \A s \in WebIds : Cardinality(Strays(s)) <= crashes + faults

-----------------------------------------------------------------------------
(* Which actions write what. *)

ConnWritten == Confirm \/ ConfirmFails \/ SetOffset \/ \E b \in Bots : StartPairing(b)
BoundWritten == Claim \/ (\E b \in Bots : StartPairing(b)) \/ \E t \in Threads : Bind(t) \/ Archive(t)
SessionWritten ==
    Claim \/ (\E t \in Threads : Archive(t)) \/ (\E t \in Others : CreateSession(t)) \/ \E s \in Sessions : WebArchive(s)
TextWritten == Take \/ Claim \/ ClaimLost
BusyWritten == TextWritten \/ \E t \in Others : EndTurn(t)
RemoteWritten ==
    \/ CloseTopic \/ \E b \in Bots : UserTopic(b) \/ UserDeletes(b)
    \/ \E t \in Threads : CreateTopic(t) \/ CreateFails(t) \/ Bind(t)
SentWritten == UserCode \/ \E b \in Bots : UserTopic(b) \/ UserText(b)
LockWritten == Crash \/ \E t \in Threads : Lock(t) \/ CreateFails(t) \/ Bind(t) \/ Fails(t)
\* A call, a statement or a commit fails.
Fault == Upset /\ faults' = faults + 1 /\ UNCHANGED <<crashes, conn>>

Writers ==
    /\ UNCHANGED conn \/ ConnWritten
    /\ UNCHANGED <<bound, tomb>> \/ BoundWritten
    /\ UNCHANGED session \/ SessionWritten
    /\ UNCHANGED busy \/ BusyWritten
    /\ UNCHANGED textVars \/ TextWritten
    /\ UNCHANGED remote \/ RemoteWritten
    /\ UNCHANGED sent \/ SentWritten
    /\ UNCHANGED confirmed \/ Receive \/ ReceiveNone
    /\ UNCHANGED sessionLock \/ LockWritten
    /\ UNCHANGED faultVars \/ Crash \/ Fault

LEMMA WhoWrites == [Next]_vars => Writers
<1> SUFFICES ASSUME [Next]_vars PROVE Writers
  OBVIOUS
<1> USE DEF rowVars, agentVars, telegramVars, pollVars, threadVars, lockVars, textVars, seenVars, faultVars
<1>1. ASSUME BeginPoll PROVE Writers
  BY <1>1 DEF Writers, BeginPoll
<1>2. ASSUME Receive PROVE Writers
  <2>1. UNCHANGED <<conn, bound, tomb, session, busy, textVars, remote, sent, sessionLock, faultVars>>
    BY <1>2 DEF Receive
  <2> QED
    BY <1>2, <2>1 DEF Writers
<1>3. ASSUME ReceiveNone PROVE Writers
  <2>1. UNCHANGED <<conn, bound, tomb, session, busy, textVars, remote, sent, sessionLock, faultVars>>
    BY <1>3 DEF ReceiveNone
  <2> QED
    BY <1>3, <2>1 DEF Writers
<1>4. ASSUME AcceptMessage PROVE Writers
  BY <1>4 DEF Writers, AcceptMessage
<1>5. ASSUME IgnoreMessage PROVE Writers
  BY <1>5 DEF Writers, IgnoreMessage
<1>6. ASSUME Resolve PROVE Writers
  BY <1>6 DEF Writers, Resolve
<1>7. ASSUME Take PROVE Writers
  <2>1. UNCHANGED <<conn, bound, tomb, session, remote, sent, confirmed, sessionLock, faultVars>>
    BY <1>7 DEF Take
  <2> QED
    BY <1>7, <2>1 DEF Writers, BusyWritten, TextWritten
<1>8. ASSUME Claim PROVE Writers
  <2>1. UNCHANGED <<conn, remote, sent, confirmed, sessionLock, faultVars>>
    BY <1>8 DEF Claim
  <2> QED
    BY <1>8, <2>1 DEF Writers, BoundWritten, SessionWritten, BusyWritten, TextWritten
<1>9. ASSUME ClaimLost PROVE Writers
  <2>1. UNCHANGED <<conn, bound, tomb, session, remote, sent, confirmed, sessionLock, faultVars>>
    BY <1>9 DEF ClaimLost
  <2> QED
    BY <1>9, <2>1 DEF Writers, BusyWritten, TextWritten
<1>10. ASSUME CloseTopic PROVE Writers
  <2>1. UNCHANGED <<conn, bound, tomb, session, busy, textVars, sent, confirmed, sessionLock, faultVars>>
    BY <1>10 DEF CloseTopic
  <2> QED
    BY <1>10, <2>1 DEF Writers, RemoteWritten
<1>11. ASSUME ReadCode PROVE Writers
  BY <1>11 DEF Writers, ReadCode
<1>12. ASSUME Confirm PROVE Writers
  <2>1. UNCHANGED <<bound, tomb, session, busy, textVars, remote, sent, confirmed, sessionLock, faultVars>>
    BY <1>12 DEF Confirm
  <2> QED
    BY <1>12, <2>1 DEF Writers, ConnWritten
<1>13. ASSUME ConfirmFails PROVE Writers
  <2>1. UNCHANGED <<bound, tomb, session, busy, textVars, remote, sent, confirmed, sessionLock, faultVars>>
    BY <1>13 DEF ConfirmFails
  <2> QED
    BY <1>13, <2>1 DEF Writers, ConnWritten
<1>14. ASSUME CheckOffset PROVE Writers
  BY <1>14 DEF Writers, CheckOffset
<1>15. ASSUME SetOffset PROVE Writers
  <2>1. UNCHANGED <<bound, tomb, session, busy, textVars, remote, sent, confirmed, sessionLock, faultVars>>
    BY <1>15 DEF SetOffset
  <2> QED
    BY <1>15, <2>1 DEF Writers, ConnWritten
<1>16. ASSUME Sync PROVE Writers
  BY <1>16 DEF Writers, Sync
<1>17. ASSUME NEW t \in Threads, Look(t) PROVE Writers
  BY <1>17 DEF Writers, Look
<1>18. ASSUME NEW t \in Threads, Lock(t) PROVE Writers
  <2>1. UNCHANGED <<conn, bound, tomb, session, busy, textVars, remote, sent, confirmed, faultVars>>
    BY <1>18 DEF Lock
  <2> QED
    BY <1>18, <2>1 DEF Writers, LockWritten
<1>19. ASSUME NEW t \in Threads, CreateTopic(t) PROVE Writers
  <2>1. UNCHANGED <<conn, bound, tomb, session, busy, textVars, sent, confirmed, sessionLock, faultVars>>
    BY <1>19 DEF CreateTopic
  <2> QED
    BY <1>19, <2>1 DEF Writers, RemoteWritten
<1>20. ASSUME NEW t \in Threads, CreateFails(t) PROVE Writers
  <2>1. UNCHANGED <<conn, bound, tomb, session, busy, textVars, sent, confirmed>>
    BY <1>20 DEF CreateFails
  <2>2. UNCHANGED faultVars \/ Fault
    BY <1>20 DEF CreateFails, Fault
  <2> QED
    BY <1>20, <2>1, <2>2 DEF Writers, RemoteWritten, LockWritten
<1>21. ASSUME NEW t \in Threads, Bind(t) PROVE Writers
  <2>1. UNCHANGED <<conn, session, busy, textVars, sent, confirmed>>
    BY <1>21 DEF Bind
  <2>2. UNCHANGED faultVars \/ Fault
    BY <1>21 DEF Bind, Fault
  <2> QED
    BY <1>21, <2>1, <2>2 DEF Writers, BoundWritten, RemoteWritten, LockWritten
<1>22. ASSUME NEW t \in Threads, Reply(t) PROVE Writers
  BY <1>22 DEF Writers, Reply
<1>23. ASSUME NEW t \in Threads, Retire(t) PROVE Writers
  BY <1>23 DEF Writers, Retire
<1>24. ASSUME NEW t \in Threads, Archive(t) PROVE Writers
  <2>1. UNCHANGED <<conn, busy, textVars, remote, sent, confirmed, sessionLock>>
    BY <1>24 DEF Archive
  <2>2. UNCHANGED faultVars \/ Fault
    BY <1>24 DEF Archive, Fault
  <2> QED
    BY <1>24, <2>1, <2>2 DEF Writers, BoundWritten, SessionWritten
<1>25. ASSUME NEW t \in Threads, Deliver(t) PROVE Writers
  BY <1>25 DEF Writers, Deliver
<1>26. ASSUME NEW b \in Bots, StartPairing(b) PROVE Writers
  <2>1. UNCHANGED <<session, busy, textVars, remote, sent, confirmed, sessionLock, faultVars>>
    BY <1>26 DEF StartPairing
  <2> QED
    BY <1>26, <2>1 DEF Writers, ConnWritten, BoundWritten
<1>27. ASSUME NEW b \in Bots, UserTopic(b) PROVE Writers
  <2>1. UNCHANGED <<conn, bound, tomb, session, busy, textVars, confirmed, sessionLock, faultVars>>
    BY <1>27 DEF UserTopic
  <2> QED
    BY <1>27, <2>1 DEF Writers, RemoteWritten, SentWritten
<1>28. ASSUME NEW b \in Bots, UserText(b) PROVE Writers
  <2>1. UNCHANGED <<conn, bound, tomb, session, busy, textVars, remote, confirmed, sessionLock, faultVars>>
    BY <1>28 DEF UserText
  <2> QED
    BY <1>28, <2>1 DEF Writers, SentWritten
<1>29. ASSUME NEW b \in Bots, UserDeletes(b) PROVE Writers
  <2>1. UNCHANGED <<conn, bound, tomb, session, busy, textVars, sent, confirmed, sessionLock, faultVars>>
    BY <1>29 DEF UserDeletes
  <2> QED
    BY <1>29, <2>1 DEF Writers, RemoteWritten
<1>30. ASSUME NEW t \in Others, CreateSession(t) PROVE Writers
  <2>1. UNCHANGED <<conn, bound, tomb, busy, textVars, remote, sent, confirmed, sessionLock, faultVars>>
    BY <1>30 DEF CreateSession
  <2> QED
    BY <1>30, <2>1 DEF Writers, SessionWritten
<1>31. ASSUME NEW t \in Others, EndTurn(t) PROVE Writers
  <2>1. UNCHANGED <<conn, bound, tomb, session, textVars, remote, sent, confirmed, sessionLock, faultVars>>
    BY <1>31 DEF EndTurn
  <2> QED
    BY <1>31, <2>1 DEF Writers, BusyWritten
<1>32. ASSUME NEW s \in Sessions, WebArchive(s) PROVE Writers
  <2>1. UNCHANGED <<conn, bound, tomb, busy, textVars, remote, sent, confirmed, sessionLock, faultVars>>
    BY <1>32 DEF WebArchive
  <2> QED
    BY <1>32, <2>1 DEF Writers, SessionWritten
<1>33. ASSUME UserCode PROVE Writers
  <2>1. UNCHANGED <<conn, bound, tomb, session, busy, textVars, remote, confirmed, sessionLock, faultVars>>
    BY <1>33 DEF UserCode
  <2> QED
    BY <1>33, <2>1 DEF Writers, SentWritten
<1>34. ASSUME Crash PROVE Writers
  <2>1. UNCHANGED <<conn, bound, tomb, session, busy, textVars, remote, sent, confirmed>>
    BY <1>34 DEF Crash
  <2> QED
    BY <1>34, <2>1 DEF Writers, LockWritten
<1>35. ASSUME UNCHANGED vars PROVE Writers
  BY <1>35 DEF Writers, vars
<1>36. ASSUME NEW t \in Threads, Fails(t) PROVE Writers
  <2>1. UNCHANGED <<conn, bound, tomb, session, busy, textVars, remote, sent, confirmed>> /\ Fault
    BY <1>36 DEF Fails, Fault
  <2> QED
    BY <1>36, <2>1 DEF Writers, LockWritten
<1> QED
  BY <1>1, <1>2, <1>3, <1>4, <1>5, <1>6, <1>7, <1>8, <1>9, <1>10, <1>11, <1>12, <1>13, <1>14, <1>15, <1>16, <1>17, <1>18, <1>19, <1>20, <1>21, <1>22, <1>23, <1>24, <1>25, <1>26, <1>27, <1>28, <1>29, <1>30, <1>31, <1>32, <1>33, <1>34, <1>35, <1>36
  DEF Next, Poll, Handle, Pair, User, Work

-----------------------------------------------------------------------------
(* Values. *)

LEMMA Numbering ==
    /\ MaxWeb \in Nat /\ MaxUpdates \in Nat /\ MaxTopics \in Nat /\ MaxUpsets \in Nat
    /\ Sessions \subseteq Nat /\ WebIds \subseteq Sessions /\ 0 \notin Sessions
    /\ "poller" \in Threads /\ "poller" \notin Others /\ Others \subseteq Threads /\ First \in Bots
<1>1. MaxWeb \in Nat /\ MaxUpdates \in Nat /\ MaxTopics \in Nat /\ MaxUpsets \in Nat
  BY TopicConstants DEF TopicConstants
<1>2. MaxUpdates * (MaxUpsets + 1) \in Nat
  BY <1>1
<1>3. Sessions \subseteq Nat /\ WebIds \subseteq Sessions /\ 0 \notin Sessions
  BY <1>1, <1>2 DEF Sessions, WebIds
<1> QED
  BY <1>1, <1>3, TopicConstants DEF TopicConstants, Threads

LEMMA MaxOfTwo ==
    ASSUME NEW m \in Nat, NEW n \in Nat
    PROVE  /\ Max({m, n}) \in Nat /\ Max({m, n}) \in {m, n}
           /\ Max({m, n}) >= m /\ Max({m, n}) >= n
<1>1. \E x \in {m, n} : \A y \in {m, n} : x >= y
  OBVIOUS
<1>2. Max({m, n}) \in {m, n} /\ \A y \in {m, n} : Max({m, n}) >= y
  BY <1>1 DEF Max
<1> QED
  BY <1>2

\* The bound on all updates bounds those of each bot.
LEMMA SentBound ==
    ASSUME TypeInv, Cardinality(Sent) < MaxUpdates, NEW b \in Bots
    PROVE  Len(sent[b]) < MaxUpdates
<1> DEFINE all == {b} \X (1..MaxUpdates)
<1> USE Numbering
<1> SUFFICES ASSUME Len(sent[b]) >= MaxUpdates PROVE FALSE
  BY DEF TypeInv
<1>1. IsFiniteSet(1..MaxUpdates) /\ Cardinality(1..MaxUpdates) = MaxUpdates
  BY FS_Interval
<1>2. IsFiniteSet({b}) /\ Cardinality({b}) = 1
  BY FS_Singleton
<1>3. Cardinality(all) = MaxUpdates
  <2>1. Cardinality(all) = Cardinality({b}) * Cardinality(1..MaxUpdates)
    BY <1>1, <1>2, FS_Product
  <2> QED
    BY <2>1, <1>1, <1>2
<1>4. IsFiniteSet(Updates)
  BY <1>1, FS_Product, TopicConstants DEF Updates, TopicConstants
<1>5. all \subseteq Sent
  BY DEF Sent, Updates, TypeInv
<1>6. Sent \subseteq Updates
  BY DEF Sent
<1>7. Cardinality(Sent) \in Nat /\ Cardinality(all) <= Cardinality(Sent)
  BY <1>4, <1>5, <1>6, FS_Subset, FS_CardinalityType
<1> QED
  BY <1>3, <1>7

BaseInv == TypeInv /\ WorkInv /\ PollInv

\* How a step ends: t takes up the next session, saves the offset, or is done.
Onward(t) ==
    \E l \in {"project", "save", "idle"} :
        /\ pc' = [pc EXCEPT ![t] = l]
        /\ \E w \in WorkRecs : work' = [work EXCEPT ![t] = w]
        /\ l = "save" => t = "poller" /\ at <= upto
        /\ \/ UNCHANGED pollVars /\ ~(t = "poller" /\ l = "idle")
           \/ t = "poller" /\ l = "idle" /\ (~(at <= upto) \/ Fault) /\ NoPoll

LEMMA BlankRecord ==
    ASSUME NEW todo \in SUBSET WebIds
    PROVE  Blank \in WorkRecs /\ [Blank EXCEPT !.todo = todo] \in WorkRecs
  BY Numbering DEF Blank, WorkRecs

LEMMA FinishesOnward ==
    ASSUME NEW t \in Threads, Finish(t) PROVE Onward(t)
<1> Blank \in WorkRecs
  BY BlankRecord
<1> QED
  BY DEF Finish, GiveUp, Goto, Onward, pollVars

LEMMA GivesUpOnward ==
    ASSUME NEW t \in Threads, GiveUp(t), Fault PROVE Onward(t)
<1> Blank \in WorkRecs
  BY BlankRecord
<1> QED
  BY DEF GiveUp, Goto, Onward, pollVars

LEMMA FailsOnward ==
    ASSUME NEW t \in Threads, Fails(t) PROVE Onward(t) /\ Fault
<1>1. Fault
  BY DEF Fails, Fault, rowVars
<1> QED
  BY <1>1, FinishesOnward, GivesUpOnward DEF Fails

LEMMA ArchivesOnward ==
    ASSUME NEW t \in Threads, Archive(t) PROVE Onward(t)
<1>1. GiveUp(t) /\ Upset /\ faults' = faults + 1 => Fault
  BY DEF Archive, Fault
<1> QED
  BY <1>1, FinishesOnward, GivesUpOnward DEF Archive

LEMMA ProceedsOnward ==
    ASSUME NEW t \in Threads, NEW todo \in SUBSET WebIds, Proceed(t, todo) PROVE Onward(t)
<1>1. CASE todo = {}
  BY <1>1, FinishesOnward DEF Proceed
<1>2. CASE todo # {}
  BY <1>2, BlankRecord DEF Proceed, Goto, Onward, pollVars
<1> QED
  BY <1>1, <1>2

LEMMA SkipsOnward ==
    ASSUME BaseInv, NEW t \in Threads, NEW s, Skip(t, s) PROVE Onward(t)
<1> work[t].todo \in SUBSET WebIds
  BY DEF BaseInv, WorkInv, WorkRecs
<1> QED
  BY ProceedsOnward DEF Skip

LEMMA MoveKeepsWork ==
    ASSUME BaseInv, NEW t \in Threads, NEW l, NEW w \in WorkRecs, Fits(l, w),
           pc' = [pc EXCEPT ![t] = l], work' = [work EXCEPT ![t] = w]
    PROVE  WorkInv'
<1>1. DOMAIN pc' = Threads /\ work' \in [Threads -> WorkRecs]
  BY DEF BaseInv, WorkInv
<1>2. ASSUME NEW u \in Threads PROVE Fits(pc'[u], work'[u])
  BY DEF BaseInv, WorkInv
<1> QED
  BY <1>1, <1>2 DEF WorkInv

LEMMA StayKeepsWork ==
    ASSUME BaseInv, NEW t \in Threads, NEW l, Fits(l, work[t]),
           pc' = [pc EXCEPT ![t] = l], UNCHANGED work
    PROVE  WorkInv'
<1>1. work[t] \in WorkRecs /\ work' = [work EXCEPT ![t] = work[t]]
  BY DEF BaseInv, WorkInv
<1> QED
  BY <1>1, MoveKeepsWork

LEMMA OnwardKeepsWork ==
    ASSUME BaseInv, NEW t \in Threads, Onward(t) PROVE WorkInv'
<1> PICK l \in {"project", "save", "idle"}, w \in WorkRecs :
       pc' = [pc EXCEPT ![t] = l] /\ work' = [work EXCEPT ![t] = w]
  BY DEF Onward
<1> Fits(l, w)
  BY DEF Fits, Making
<1> QED
  BY MoveKeepsWork

LEMMA WorkStep == BaseInv /\ [Next]_vars => WorkInv'
<1> SUFFICES ASSUME BaseInv, [Next]_vars PROVE WorkInv'
  OBVIOUS
<1> USE Numbering
<1>a. WorkInv /\ TypeInv /\ PollInv
  BY DEF BaseInv
<1>b. \A t \in Threads : work[t] \in WorkRecs /\ Fits(pc[t], work[t])
  BY <1>a DEF WorkInv
<1>c. Blank \in WorkRecs
  BY BlankRecord
<1>0. ASSUME UNCHANGED <<pc, work>> PROVE WorkInv'
  BY <1>a, <1>0 DEF WorkInv
<1>1. ASSUME BeginPoll \/ Receive \/ CheckOffset \/ SetOffset \/ IgnoreMessage \/ ReadCode \/ ConfirmFails
      PROVE  WorkInv'
  <2>1. PICK l \in {"idle", "ask", "handle", "save", "confirm", "commit", "sync"} :
           pc' = [pc EXCEPT !["poller"] = l] /\ UNCHANGED work
    BY <1>1 DEF BeginPoll, Receive, CheckOffset, SetOffset, IgnoreMessage, PassOver, ReadCode, ConfirmFails, Goto
  <2>2. Fits(l, work["poller"])
    BY DEF Fits, Making
  <2> QED
    BY <2>1, <2>2, StayKeepsWork
<1>2. ASSUME ReceiveNone \/ Confirm \/ Sync PROVE WorkInv'
  <2>1. ProjectAll \in SUBSET WebIds /\ {} \in SUBSET WebIds
    BY DEF ProjectAll
  <2>2. Onward("poller")
    BY <1>2, <2>1, ProceedsOnward DEF ReceiveNone, Confirm, Sync
  <2> QED
    BY <2>2, OnwardKeepsWork
<1>3. ASSUME AcceptMessage PROVE WorkInv'
  <2> DEFINE n == Update.topic
             w == [work["poller"] EXCEPT !.topic = n]
  <2>0. Update.kind # "code" /\ pc["poller"] = "handle"
    BY <1>3 DEF AcceptMessage
  <2>1. at \in 1..Len(sent[copy.bot]) /\ copy.bot \in Bots
    <3>1. copy.bot \in Bots /\ TypeOK
      BY <1>a DEF TypeInv
    <3>2. Len(sent[copy.bot]) \in Nat
      BY <1>a, <3>1 DEF TypeInv
    <3>3. at <= upto /\ upto <= Len(sent[copy.bot])
      BY <1>a, <2>0 DEF PollInv, InPoll, Before
    <3>4. at \in Nat /\ at # 0 /\ upto \in Nat
      BY <3>1 DEF TypeOK
    <3> QED
      BY <3>1, <3>2, <3>3, <3>4
  <2>2. Update \in UpdateRecs /\ Update.topic # 0
    BY <1>a, <2>0, <2>1 DEF TypeInv, Update
  <2>3. n \in 0..MaxTopics /\ n # 0
    BY <2>2 DEF UpdateRecs
  <2>4. pc' = [pc EXCEPT !["poller"] = "resolve"] /\ work' = [work EXCEPT !["poller"] = w]
    BY <1>3 DEF AcceptMessage, Goto
  <2> HIDE DEF n
  <2>5. w \in WorkRecs /\ Fits("resolve", w)
    BY <1>b, <2>3 DEF WorkRecs, Fits, Making
  <2> QED
    BY <2>4, <2>5, MoveKeepsWork
<1>4. ASSUME Resolve PROVE WorkInv'
  <2> DEFINE s == bound[work["poller"].topic]
             w == [work["poller"] EXCEPT !.session = s]
  <2>0. pc["poller"] = "resolve"
    BY <1>4 DEF Resolve
  <2>1. work["poller"].topic \in Numbers /\ Fits("resolve", work["poller"])
    BY <1>b, <2>0 DEF Fits, WorkRecs, Numbers
  <2>2. s \in Sessions \cup {0}
    BY <2>1, <1>a DEF TypeInv, TypeOK
  <2>3. CASE pc' = [pc EXCEPT !["poller"] = "take"] /\ work' = [work EXCEPT !["poller"] = w] /\ s # 0
    <3> HIDE DEF s
    <3>1. w \in WorkRecs /\ Fits("take", w)
      BY <1>b, <2>1, <2>2, <2>3 DEF WorkRecs, Fits, Making
    <3> QED
      BY <2>3, <3>1, MoveKeepsWork
  <2>4. CASE pc' = [pc EXCEPT !["poller"] = "save"] /\ work' = [work EXCEPT !["poller"] = Blank]
    <3>1. Fits("save", Blank)
      BY DEF Fits, Making
    <3> QED
      BY <2>4, <3>1, <1>c, MoveKeepsWork
  <2>5. CASE UNCHANGED work /\ \E l \in {"claim", "reply", "close"} : pc' = [pc EXCEPT !["poller"] = l]
    <3> PICK l \in {"claim", "reply", "close"} : pc' = [pc EXCEPT !["poller"] = l]
      BY <2>5
    <3>1. Fits(l, work["poller"])
      BY <2>1 DEF Fits, Making
    <3> QED
      BY <2>5, <3>1, StayKeepsWork
  <2> QED
    BY <1>4, <2>3, <2>4, <2>5 DEF Resolve, Goto
<1>5. ASSUME Take PROVE WorkInv'
  <2>1. pc["poller"] = "take" /\ pc' = [pc EXCEPT !["poller"] = "reply"] /\ UNCHANGED work
    BY <1>5 DEF Take, Goto
  <2>2. Fits("reply", work["poller"])
    BY <1>b, <2>1 DEF Fits, Making
  <2> QED
    BY <2>1, <2>2, StayKeepsWork
<1>6. ASSUME Claim \/ ClaimLost \/ CloseTopic PROVE WorkInv'
  <2>1. CASE work' = [work EXCEPT !["poller"] = Blank] /\ pc' = [pc EXCEPT !["poller"] = "save"]
    <3>1. Fits("save", Blank)
      BY DEF Fits, Making
    <3> QED
      BY <2>1, <3>1, <1>c, MoveKeepsWork
  <2>2. CASE pc["poller"] = "claim" /\ UNCHANGED work /\ \E l \in {"reply", "close"} : pc' = [pc EXCEPT !["poller"] = l]
    <3> PICK l \in {"reply", "close"} : pc' = [pc EXCEPT !["poller"] = l]
      BY <2>2
    <3>1. Fits(l, work["poller"])
      BY <1>b, <2>2 DEF Fits, Making
    <3> QED
      BY <2>2, <3>1, StayKeepsWork
  <2> QED
    BY <1>6, <2>1, <2>2 DEF Claim, ClaimLost, CloseTopic, Goto
<1>8. ASSUME NEW t \in Threads, Look(t) PROVE WorkInv'
  <2> PICK s \in work[t].todo : \/ Skip(t, s)
                               \/ /\ Goto(t, "lock")
                                  /\ work' = [work EXCEPT ![t].session = s, ![t].bot = conn.bot, ![t].code = conn.code]
    BY <1>8 DEF Look
  <2> DEFINE Plan(r, b, c) == [r EXCEPT !.session = s, !.bot = b, !.code = c]
             w == Plan(work[t], conn.bot, conn.code)
  <2>1. s \in WebIds /\ s \in Sessions
    BY <1>b DEF WorkRecs
  <2>2. CASE Skip(t, s)
    BY <2>2, SkipsOnward, OnwardKeepsWork
  <2>3. CASE pc' = [pc EXCEPT ![t] = "lock"] /\ work' = [work EXCEPT ![t] = w]
    <3>1. conn.bot \in Bots /\ conn.code \in Nat
      <4>1. conn.bot \in Bots /\ conn.code \in 1..(MaxUpsets + 1)
        BY <1>a DEF TypeInv, TypeOK
      <4> QED
        BY <4>1
    <3>2. w \in WorkRecs /\ w.session = s
      <4>1. ASSUME NEW r \in WorkRecs, NEW b \in Bots, NEW c \in Nat
            PROVE  Plan(r, b, c) \in WorkRecs /\ Plan(r, b, c).session = s
        BY <2>1 DEF WorkRecs
      <4>2. work[t] \in WorkRecs
        BY <1>b
      <4> HIDE DEF Plan
      <4> QED
        BY <3>1, <4>1, <4>2
    <3>3. Fits("lock", w)
      BY <2>1, <3>2 DEF Fits
    <3> QED
      BY <2>3, <3>2, <3>3, MoveKeepsWork
  <2>4. work' = [work EXCEPT ![t].session = s, ![t].bot = conn.bot, ![t].code = conn.code] =>
           work' = [work EXCEPT ![t] = w]
    BY <1>a DEF WorkInv
  <2> QED
    BY <2>2, <2>3, <2>4 DEF Goto
<1>9. ASSUME NEW t \in Threads, Lock(t) PROVE WorkInv'
  <2>1. CASE Skip(t, work[t].session)
    BY <2>1, SkipsOnward, OnwardKeepsWork
  <2>2. CASE pc[t] = "lock" /\ pc' = [pc EXCEPT ![t] = "create"] /\ UNCHANGED work
    <3>1. Fits("create", work[t])
      BY <1>b, <2>2 DEF Fits, Making
    <3> QED
      BY <2>2, <3>1, StayKeepsWork
  <2> QED
    BY <1>9, <2>1, <2>2 DEF Lock, Goto
<1>10. ASSUME NEW t \in Threads, CreateTopic(t) PROVE WorkInv'
  <2> DEFINE n == Len(remote[work[t].bot]) + 1
             w == [work[t] EXCEPT !.topic = n]
  <2>1. work[t].bot \in Bots
    BY <1>b DEF WorkRecs
  <2>2. Len(remote[work[t].bot]) \in Nat /\ Len(remote[work[t].bot]) < MaxTopics
    <3>1. remote[work[t].bot] \in Seq(TopicRecs)
      BY <1>a, <2>1 DEF TypeInv
    <3> QED
      BY <1>10, <3>1, LenProperties DEF CreateTopic
  <2>3. n \in 0..MaxTopics /\ n # 0
    <3>1. \A k \in Nat : k < MaxTopics => k + 1 \in 0..MaxTopics /\ k + 1 # 0
      OBVIOUS
    <3> QED
      BY <2>2, <3>1
  <2>4. pc' = [pc EXCEPT ![t] = "bind"] /\ work' = [work EXCEPT ![t] = w] /\ pc[t] = "create"
    BY <1>10 DEF CreateTopic, Goto
  <2> HIDE DEF n
  <2>5. work[t] \in WorkRecs /\ work[t].session \in WebIds
    BY <1>b, <2>4 DEF Fits, Making
  <2>6. w \in WorkRecs /\ w.topic = n /\ w.session = work[t].session
    BY <2>3, <2>5 DEF WorkRecs
  <2>7. Fits("bind", w)
    BY <2>3, <2>5, <2>6 DEF Fits
  <2> QED
    BY <2>4, <2>6, <2>7, MoveKeepsWork
<1>11. ASSUME NEW t \in Threads, CreateFails(t) \/ Bind(t) PROVE WorkInv'
  <2>1. Skip(t, work[t].session)
    BY <1>11 DEF CreateFails, Bind
  <2> QED
    BY <2>1, SkipsOnward, OnwardKeepsWork
<1>12. ASSUME NEW t \in Threads, Reply(t) PROVE WorkInv'
  <2>1. CASE Finish(t)
    BY <2>1, FinishesOnward, OnwardKeepsWork
  <2>2. CASE pc[t] = "reply" /\ pc' = [pc EXCEPT ![t] = "retire"] /\ UNCHANGED work
    <3>1. Fits("retire", work[t])
      BY <1>b, <2>2 DEF Fits, Making
    <3> QED
      BY <2>2, <3>1, StayKeepsWork
  <2> QED
    BY <1>12, <2>1, <2>2 DEF Reply, Goto
<1>13. ASSUME NEW t \in Threads, Retire(t) PROVE WorkInv'
  <2> DEFINE s == bound[work[t].topic]
             w == [work[t] EXCEPT !.session = s, !.code = conn.code]
  <2>1. CASE Finish(t)
    BY <2>1, FinishesOnward, OnwardKeepsWork
  <2>2. CASE pc[t] = "retire" /\ s # 0 /\ pc' = [pc EXCEPT ![t] = "archive"] /\ work' = [work EXCEPT ![t] = w]
    <3>1. work[t].topic \in Numbers /\ work[t].topic # 0
      BY <1>b, <2>2 DEF Fits, WorkRecs, Numbers
    <3>2. s \in Sessions
      <4>1. bound \in [Numbers -> Sessions \cup {0}]
        BY <1>a DEF TypeInv, TypeOK
      <4> QED
        BY <4>1, <3>1, <2>2
    <3>4. conn.code \in Nat
      BY <1>a DEF TypeInv, TypeOK
    <3> HIDE DEF s
    <3>3. w \in WorkRecs /\ Fits("archive", w)
      BY <1>b, <2>2, <3>1, <3>2, <3>4 DEF WorkRecs, Fits, Making
    <3> QED
      BY <2>2, <3>3, MoveKeepsWork
  <2>3. work' = [work EXCEPT ![t].session = s, ![t].code = conn.code] => work' = [work EXCEPT ![t] = w]
    BY <1>a DEF WorkInv
  <2> QED
    BY <1>13, <2>1, <2>2, <2>3 DEF Retire, Goto
<1>14. ASSUME NEW t \in Threads, Archive(t) PROVE WorkInv'
  BY <1>14, ArchivesOnward, OnwardKeepsWork
<1>15. ASSUME NEW t \in Threads, Deliver(t) PROVE WorkInv'
  <2>1. CASE Finish(t)
    BY <2>1, FinishesOnward, OnwardKeepsWork
  <2>2. CASE pc[t] = "deliver" /\ pc' = [pc EXCEPT ![t] = "reply"] /\ UNCHANGED work
    <3>1. Fits("reply", work[t])
      BY <1>b, <2>2 DEF Fits, Making
    <3> QED
      BY <2>2, <3>1, StayKeepsWork
  <2> QED
    BY <1>15, <2>1, <2>2 DEF Deliver, Goto
<1>16. ASSUME NEW t \in Others, CreateSession(t) PROVE WorkInv'
  <2> PICK s \in WebIds : Goto(t, "project") /\ work' = [work EXCEPT ![t].todo = {s}]
    BY <1>16 DEF CreateSession
  <2> DEFINE w == [work[t] EXCEPT !.todo = {s}]
  <2>1. t \in Threads /\ w \in WorkRecs /\ Fits("project", w)
    BY <1>b DEF WorkRecs, Fits, Making
  <2>2. pc' = [pc EXCEPT ![t] = "project"] /\ work' = [work EXCEPT ![t] = w]
    BY DEF Goto
  <2> QED
    BY <2>1, <2>2, MoveKeepsWork
<1>17. ASSUME NEW t \in Others, EndTurn(t) PROVE WorkInv'
  <2> PICK s \in Sessions : /\ busy[s] # 0 /\ Goto(t, "deliver")
                            /\ work' = [work EXCEPT ![t].session = s, ![t].topic = busy[s]]
    BY <1>17 DEF EndTurn
  <2> DEFINE w == [work[t] EXCEPT !.session = s, !.topic = busy[s]]
  <2>1. busy[s] \in 0..MaxTopics
    BY <1>a DEF TypeInv, TypeOK
  <2>2. t \in Threads /\ w \in WorkRecs /\ Fits("deliver", w)
    BY <1>b, <2>1 DEF WorkRecs, Fits, Making
  <2>3. pc' = [pc EXCEPT ![t] = "deliver"] /\ work' = [work EXCEPT ![t] = w]
    BY <1>a DEF Goto, WorkInv
  <2> QED
    BY <2>2, <2>3, MoveKeepsWork
<1>18. ASSUME Crash PROVE WorkInv'
  <2>1. pc' = [t \in Threads |-> "idle"] /\ work' = [t \in Threads |-> Blank]
    BY <1>18 DEF Crash
  <2>2. Fits("idle", Blank)
    BY DEF Fits, Making
  <2> QED
    BY <1>c, <2>1, <2>2 DEF WorkInv
<1>19. ASSUME UserCode \/ (\E s \in Sessions : WebArchive(s)) \/ User PROVE UNCHANGED <<pc, work>>
  BY <1>19 DEF UserCode, WebArchive, User, StartPairing, UserTopic, UserText, UserDeletes, threadVars
<1>20. ASSUME UNCHANGED vars PROVE UNCHANGED <<pc, work>>
  BY <1>20 DEF vars, threadVars
<1>21. ASSUME NEW t \in Threads, Fails(t) PROVE WorkInv'
  BY <1>21, FailsOnward, OnwardKeepsWork
<1> QED
  BY <1>0, <1>1, <1>2, <1>3, <1>4, <1>5, <1>6, <1>8, <1>9, <1>10, <1>11, <1>12, <1>13, <1>14, <1>15,
     <1>16, <1>17, <1>18, <1>19, <1>20, <1>21
  DEF Next, Poll, Handle, Pair, Work

LEMMA SentGrows ==
    ASSUME BaseInv, [Next]_vars, NEW b \in Bots
    PROVE  /\ Len(sent'[b]) \in Nat /\ Len(sent[b]) \in Nat /\ Len(sent'[b]) >= Len(sent[b])
           /\ \A i \in 1..Len(sent[b]) : sent'[b][i] = sent[b][i]
<1>1. sent \in [Bots -> Seq(UpdateRecs)]
  BY DEF BaseInv, TypeInv
<1>2. UNCHANGED sent \/ \E c \in Bots : \E u : Sends(c, u)
  BY WhoWrites DEF Writers, SentWritten, UserCode, UserTopic, UserText, BaseInv, TypeInv, TypeOK
<1>3. ASSUME NEW c \in Bots, NEW u, sent' = [sent EXCEPT ![c] = Append(@, u)]
      PROVE  Len(sent'[b]) >= Len(sent[b]) /\ Len(sent'[b]) \in Nat /\ \A i \in 1..Len(sent[b]) : sent'[b][i] = sent[b][i]
  BY <1>1, <1>3
<1> QED
  BY <1>1, <1>2, <1>3 DEF Sends

\* The poller's steps: along its poll, out of it, into it and to the next update.
Along ==
    /\ UNCHANGED pollVars
    /\ pc'["poller"] \notin {"idle", "ask", "handle", "sync", "deliver"}
    /\ pc'["poller"] \in InPoll => at <= upto
    /\ pc'["poller"] \in {"resolve", "take", "claim"} => Update.kind # "code"
    /\ pc'["poller"] = "resolve" => pc["poller"] = "handle" /\ Listening
    /\ pc'["poller"] \in {"take", "claim"} => pc["poller"] = "resolve"
    /\ pc'["poller"] = "commit" => conn.bot = copy.bot
Ends ==
    /\ pc'["poller"] = "idle" /\ NoPoll
    /\ Crash \/ Fault \/ ~(at <= upto) \/ conn.bot # copy.bot
PollerStep ==
    \/ UNCHANGED pollVars /\ pc'["poller"] = pc["poller"]
    \/ Along \/ Ends \/ BeginPoll \/ Receive \/ SetOffset

LEMMA OnwardIsPollerStep ==
    ASSUME BaseInv, NEW t \in Threads, Onward(t) PROVE PollerStep
<1> PICK l \in {"project", "save", "idle"} :
       /\ pc' = [pc EXCEPT ![t] = l]
       /\ l = "save" => t = "poller" /\ at <= upto
       /\ \/ UNCHANGED pollVars /\ ~(t = "poller" /\ l = "idle")
          \/ t = "poller" /\ l = "idle" /\ (~(at <= upto) \/ Fault) /\ NoPoll
  BY DEF Onward
<1>1. DOMAIN pc = Threads
  BY DEF BaseInv, WorkInv
<1>2. CASE t = "poller" /\ l = "idle"
  BY <1>1, <1>2 DEF PollerStep, Ends
<1>3. CASE t = "poller" /\ l # "idle"
  <2>1. pc'["poller"] = l /\ UNCHANGED pollVars
    BY <1>1, <1>3
  <2> QED
    BY <1>3, <2>1 DEF PollerStep, Along, InPoll, Before
<1>4. CASE t # "poller"
  BY <1>1, <1>4, Numbering DEF PollerStep
<1> QED
  BY <1>2, <1>3, <1>4

\* A step of any thread to a place that is not the poller's alone.
LEMMA ElseIsPollerStep ==
    ASSUME BaseInv, NEW t \in Threads, NEW l \in {"lock", "create", "bind", "retire", "archive", "reply"},
           pc' = [pc EXCEPT ![t] = l], UNCHANGED pollVars, l \in InPoll => pc[t] \in InPoll \/ t # "poller"
    PROVE  PollerStep
<1>1. DOMAIN pc = Threads /\ (pc["poller"] \in InPoll => at <= upto)
  BY DEF BaseInv, WorkInv, PollInv
<1>2. CASE t = "poller"
  <2>1. pc'["poller"] = l
    BY <1>1, <1>2
  <2>2. l \in InPoll => at <= upto
    BY <1>1, <1>2
  <2> QED
    BY <2>1, <2>2 DEF PollerStep, Along
<1>3. CASE t # "poller"
  BY <1>1, <1>3, Numbering DEF PollerStep
<1> QED
  BY <1>2, <1>3

LEMMA PollerSteps == BaseInv /\ [Next]_vars => PollerStep
<1> SUFFICES ASSUME BaseInv, [Next]_vars PROVE PollerStep
  OBVIOUS
<1> USE Numbering
<1>a. DOMAIN pc = Threads /\ PollInv
  BY DEF BaseInv, WorkInv
<1>b. pc["poller"] \in InPoll => at <= upto
  BY <1>a DEF PollInv
<1>1. ASSUME AcceptMessage PROVE PollerStep
  BY <1>a, <1>b, <1>1 DEF AcceptMessage, Goto, PollerStep, Along, InPoll, Before
<1>2. ASSUME IgnoreMessage \/ ReadCode \/ ConfirmFails \/ CloseTopic PROVE PollerStep
  <2>1. /\ pc["poller"] \in {"handle", "confirm", "close"} /\ UNCHANGED pollVars
        /\ pc' = [pc EXCEPT !["poller"] = "save"] \/ pc' = [pc EXCEPT !["poller"] = "confirm"]
    BY <1>2 DEF IgnoreMessage, PassOver, ReadCode, ConfirmFails, CloseTopic, Goto
  <2> QED
    BY <1>a, <1>b, <2>1 DEF PollerStep, Along, InPoll, Before
<1>3. ASSUME Resolve PROVE PollerStep
  <2>1. /\ pc["poller"] = "resolve" /\ UNCHANGED pollVars
        /\ \E l \in {"take", "save", "claim", "reply", "close"} : pc' = [pc EXCEPT !["poller"] = l]
    BY <1>3 DEF Resolve, Goto
  <2>2. Update.kind # "code"
    BY <1>a, <2>1 DEF PollInv
  <2> QED
    BY <1>a, <1>b, <2>1, <2>2 DEF PollerStep, Along, InPoll, Before
<1>4. ASSUME Take \/ Claim \/ ClaimLost PROVE PollerStep
  <2>1. /\ pc["poller"] \in {"take", "claim"} /\ UNCHANGED pollVars
        /\ \E l \in {"save", "reply", "close"} : pc' = [pc EXCEPT !["poller"] = l]
    BY <1>4 DEF Take, Claim, ClaimLost, Goto
  <2> QED
    BY <1>a, <1>b, <2>1 DEF PollerStep, Along, InPoll, Before
<1>5. ASSUME CheckOffset PROVE PollerStep
  <2>1. CASE conn.bot = copy.bot
    BY <1>a, <1>b, <1>5, <2>1 DEF CheckOffset, Goto, PollerStep, Along, InPoll, Before
  <2>2. CASE conn.bot # copy.bot
    BY <1>a, <1>5, <2>2 DEF CheckOffset, Goto, PollerStep, Ends
  <2> QED
    BY <2>1, <2>2
<1>6. ASSUME ReceiveNone \/ Confirm \/ Sync PROVE PollerStep
  <2>1. ProjectAll \in SUBSET WebIds /\ {} \in SUBSET WebIds
    BY DEF ProjectAll
  <2>2. Onward("poller")
    BY <1>6, <2>1, ProceedsOnward DEF ReceiveNone, Confirm, Sync
  <2> QED
    BY <2>2, OnwardIsPollerStep
<1>7. ASSUME NEW t \in Threads, Work(t) PROVE PollerStep
  <2>1. CASE \E s : Skip(t, s)
    BY <2>1, SkipsOnward, OnwardIsPollerStep
  <2>2. CASE Finish(t)
    BY <2>2, FinishesOnward, OnwardIsPollerStep
  <2>3. CASE /\ UNCHANGED pollVars
             /\ \E l \in {"lock", "create", "bind"} : pc' = [pc EXCEPT ![t] = l]
    BY <2>3, ElseIsPollerStep DEF InPoll, Before
  <2>4. CASE /\ UNCHANGED pollVars /\ pc[t] \in {"reply", "retire", "deliver"}
             /\ \E l \in {"retire", "archive", "reply"} : pc' = [pc EXCEPT ![t] = l]
    <3>1. pc[t] = "deliver" => t # "poller"
      BY <1>a DEF PollInv
    <3> QED
      BY <2>4, <3>1, ElseIsPollerStep DEF InPoll, Before
  <2>5. Look(t) \/ Lock(t) \/ CreateTopic(t) \/ CreateFails(t) \/ Bind(t) => 
           (\E s : Skip(t, s)) \/ (UNCHANGED pollVars /\ \E l \in {"lock", "create", "bind"} : pc' = [pc EXCEPT ![t] = l])
    BY DEF Look, Lock, CreateTopic, CreateFails, Bind, Goto, pollVars
  <2>6. Reply(t) \/ Retire(t) \/ Deliver(t) =>
           \/ Finish(t)
           \/ /\ UNCHANGED pollVars /\ pc[t] \in {"reply", "retire", "deliver"}
              /\ \E l \in {"retire", "archive", "reply"} : pc' = [pc EXCEPT ![t] = l]
    BY DEF Reply, Retire, Deliver, Goto
  <2>7. CASE Archive(t)
    BY <2>7, ArchivesOnward, OnwardIsPollerStep
  <2> QED
    BY <1>7, <2>1, <2>2, <2>3, <2>4, <2>5, <2>6, <2>7 DEF Work
<1>8. ASSUME NEW t \in Others, CreateSession(t) \/ EndTurn(t) PROVE PollerStep
  <2>1. UNCHANGED pollVars /\ t # "poller" /\ \E l : pc' = [pc EXCEPT ![t] = l]
    BY <1>8 DEF CreateSession, EndTurn, Goto
  <2> QED
    BY <1>a, <2>1 DEF PollerStep
<1>9. ASSUME Crash PROVE PollerStep
  BY <1>9 DEF Crash, PollerStep, Ends
<1>10. ASSUME UserCode \/ (\E s \in Sessions : WebArchive(s)) \/ User \/ UNCHANGED vars PROVE PollerStep
  <2>1. UNCHANGED <<pc, pollVars>>
    BY <1>10 DEF UserCode, WebArchive, User, StartPairing, UserTopic, UserText, UserDeletes, threadVars, vars
  <2> QED
    BY <2>1 DEF PollerStep
<1>11. BeginPoll \/ Receive \/ SetOffset => PollerStep
  BY DEF PollerStep
<1>12. ASSUME NEW t \in Threads, Fails(t) PROVE PollerStep
  BY <1>12, FailsOnward, OnwardIsPollerStep
<1> QED
  BY <1>1, <1>2, <1>3, <1>4, <1>5, <1>6, <1>7, <1>8, <1>9, <1>10, <1>11, <1>12 DEF Next, Poll, Handle, Pair

LEMMA PollStep == BaseInv /\ [Next]_vars => PollInv'
<1> SUFFICES ASSUME BaseInv, [Next]_vars PROVE PollInv'
  OBVIOUS
<1> USE Numbering
<1>a. PollInv /\ DOMAIN pc = Threads
  BY DEF BaseInv, WorkInv
<1>b. copy.bot \in Bots /\ at \in Nat /\ upto \in Nat /\ at # 0
  <2>1. TypeOK /\ copy.bot \in Bots
    BY DEF BaseInv, TypeInv
  <2> QED
    BY <2>1 DEF TypeOK
<1>c. /\ Len(sent'[copy.bot]) \in Nat /\ Len(sent[copy.bot]) \in Nat /\ Len(sent'[copy.bot]) >= Len(sent[copy.bot])
      /\ at <= upto => sent'[copy.bot][at] = sent[copy.bot][at]
  BY <1>a, <1>b, SentGrows DEF PollInv
<1>1. CASE UNCHANGED pollVars /\ pc'["poller"] = pc["poller"]
  <2>1. pc["poller"] \in {"resolve", "take", "claim"} => Update' = Update
    BY <1>a, <1>c, <1>1 DEF PollInv, Update, pollVars, InPoll, Before
  <2> QED
    BY <1>a, <1>b, <1>c, <1>1, <2>1 DEF PollInv, pollVars
<1>2. CASE Along
  <2>1. pc'["poller"] \in {"resolve", "take", "claim"} => Update' = Update
    BY <1>c, <1>2 DEF Along, Update, pollVars, InPoll, Before
  <2> QED
    BY <1>a, <1>b, <1>c, <1>2, <2>1 DEF PollInv, pollVars, Along
<1>3. CASE Ends
  <2>1. copy'.bot \in Bots
    BY <1>3 DEF Ends, NoPoll, NoCopy
  <2>2. Len(sent'[copy'.bot]) \in Nat
    BY <2>1, SentGrows
  <2> QED
    BY <1>3, <2>2 DEF PollInv, Ends, NoPoll, InPoll, Before
<1>4. CASE BeginPoll
  <2>1. conn.bot \in Bots
    BY DEF BaseInv, TypeInv, TypeOK
  <2>2. Len(sent'[conn.bot]) \in Nat
    BY <2>1, SentGrows
  <2> QED
    BY <1>a, <1>4, <2>2 DEF BeginPoll, PollInv, Goto, InPoll, Before
<1>5. CASE Receive
  <2>1. copy.last \in Nat /\ confirmed[copy.bot] \in Nat
    BY <1>b DEF BaseInv, TypeInv
  <2> DEFINE from == Max({confirmed[copy.bot], copy.last})
  <2>2. from \in Nat
    BY <2>1, MaxOfTwo
  <2>3. /\ at' = from + 1 /\ upto' = Len(sent[copy.bot]) /\ pc' = [pc EXCEPT !["poller"] = "handle"]
        /\ from < Len(sent[copy.bot]) /\ UNCHANGED <<sent, copy>>
    BY <1>5 DEF Receive, Goto
  <2> QED
    BY <1>a, <1>c, <2>2, <2>3 DEF PollInv, InPoll, Before
<1>6. CASE SetOffset
  <2>1. /\ at' = at + 1 /\ UNCHANGED <<copy, upto, sent>> /\ pc["poller"] = "commit" /\ ~first'
        /\ pc' = [pc EXCEPT !["poller"] = IF at < upto THEN "handle" ELSE "sync"]
    BY <1>6 DEF SetOffset, Goto, telegramVars
  <2> QED
    BY <1>a, <1>b, <1>c, <2>1 DEF PollInv, InPoll, Before
<1> QED
  BY <1>1, <1>2, <1>3, <1>4, <1>5, <1>6, PollerSteps DEF PollerStep

LEMMA TypeStep == BaseInv /\ [Next]_vars => TypeInv'
<1> SUFFICES ASSUME BaseInv, [Next]_vars PROVE TypeInv'
  OBVIOUS
<1> USE Numbering
<1>a. TypeInv /\ TypeOK /\ WorkInv /\ PollInv /\ Writers
  BY WhoWrites DEF BaseInv, TypeInv
<1>b. \A t \in Threads : work[t] \in WorkRecs /\ Fits(pc[t], work[t])
  BY <1>a DEF WorkInv
<1>c. /\ at \in Nat /\ upto \in Nat /\ at # 0 /\ at <= upto + 1 /\ upto <= MaxUpdates /\ copy.bot \in Bots
      /\ conn.code \in Nat /\ conn.bot \in Bots /\ conn.last \in 0..MaxUpdates /\ conn.status \in Statuses
      /\ conn.code # 0 /\ conn.code <= MaxUpsets + 1
  <2>1. at \in Nat /\ upto \in Nat /\ at # 0 /\ upto <= MaxUpdates
    BY <1>a DEF TypeOK
  <2>2. at <= upto + 1
    BY <1>a DEF PollInv
  <2>3. copy.bot \in Bots
    BY <1>a DEF TypeInv
  <2>4. conn.bot \in Bots /\ conn.last \in 0..MaxUpdates /\ conn.status \in Statuses
    BY <1>a DEF TypeOK, Statuses
  <2>5. conn.code \in 1..(MaxUpsets + 1)
    BY <1>a DEF TypeOK
  <2> QED
    BY <2>1, <2>2, <2>3, <2>4, <2>5
<1>d. pc["poller"] \in {"resolve", "take", "claim", "reply", "close", "commit"} => at <= upto
  <2>1. pc["poller"] \in InPoll => at <= upto
    BY <1>a DEF PollInv
  <2> QED
    BY <2>1 DEF InPoll, Before
<1>1. conn' \in [bot : Bots, code : 1..(MaxUpsets + 1), status : Statuses, last : 0..MaxUpdates]
  <2>0. conn \in [bot : Bots, code : 1..(MaxUpsets + 1), status : Statuses, last : 0..MaxUpdates]
    BY <1>a DEF TypeOK, Statuses
  <2>1. CASE UNCHANGED conn
    BY <2>0, <2>1
  <2>2. CASE Confirm \/ ConfirmFails
    BY <2>0, <2>2 DEF Confirm, ConfirmFails, Statuses
  <2>3. CASE SetOffset
    <3>1. at \in 0..MaxUpdates
      BY <1>c, <1>d, <2>3 DEF SetOffset
    <3> QED
      BY <2>0, <2>3, <3>1 DEF SetOffset, Kept
  <2>4. ASSUME NEW b \in Bots, StartPairing(b) PROVE conn' \in [bot : Bots, code : 1..(MaxUpsets + 1), status : Statuses, last : 0..MaxUpdates]
    <3>1. conn' = [bot |-> b, code |-> conn.code + 1, status |-> "pairing", last |-> 0]
      BY <2>4 DEF StartPairing
    <3>2. conn.code + 1 \in 1..(MaxUpsets + 1)
      <4>1. crashes \in Nat /\ faults \in Nat /\ Upset
        BY <1>a, <2>4 DEF StartPairing, TypeInv
      <4> QED
        BY <1>c, <4>1 DEF Upset
    <3> QED
      BY <3>1, <3>2 DEF Statuses
  <2> QED
    BY <1>a, <2>1, <2>2, <2>3, <2>4 DEF Writers, ConnWritten
<1>2. /\ crashes' \in Nat /\ faults' \in Nat /\ crashes' + faults' + conn'.code - 1 <= MaxUpsets
  <2>0. crashes \in Nat /\ faults \in Nat /\ crashes + faults + conn.code - 1 <= MaxUpsets
    BY <1>a DEF TypeInv
  <2>1. ASSUME NEW b \in Bots, StartPairing(b) PROVE conn'.code = conn.code + 1 /\ UNCHANGED faultVars /\ Upset
    BY <2>1 DEF StartPairing
  <2>2. Confirm \/ ConfirmFails \/ SetOffset => conn'.code = conn.code /\ UNCHANGED faultVars
    BY <1>a DEF Confirm, ConfirmFails, SetOffset, TypeOK
  <2>3. Crash => crashes' = crashes + 1 /\ UNCHANGED <<conn, faults>> /\ Upset
    BY DEF Crash, rowVars
  <2>4. Fault => UNCHANGED <<conn, crashes>> /\ faults' = faults + 1 /\ Upset
    BY DEF Fault
  <2>5. (UNCHANGED faultVars /\ (UNCHANGED conn \/ ConnWritten)) \/ Crash \/ Fault
    BY <1>a DEF Writers
  <2> QED
    BY <1>c, <2>0, <2>1, <2>2, <2>3, <2>4, <2>5 DEF ConnWritten, Upset, faultVars
<1>3. bound' \in [Numbers -> Sessions \cup {0}]
  <2>0. bound \in [Numbers -> Sessions \cup {0}]
    BY <1>a DEF TypeOK
  <2>1. CASE Claim
    BY <2>0, <2>1 DEF Claim
  <2>2. ASSUME NEW b \in Bots, StartPairing(b) PROVE bound' \in [Numbers -> Sessions \cup {0}]
    BY <2>2 DEF StartPairing
  <2>3. ASSUME NEW t \in Threads, Bind(t) PROVE bound' \in [Numbers -> Sessions \cup {0}]
    <3>1. work[t].session \in Sessions
      BY <1>b, <2>3 DEF Bind, Fits, Making
    <3>2. bound' = bound \/ bound' = [bound EXCEPT ![work[t].topic] = work[t].session]
      BY <2>3 DEF Bind
    <3> QED
      BY <2>0, <3>1, <3>2
  <2>4. ASSUME NEW t \in Threads, Archive(t) PROVE bound' \in [Numbers -> Sessions \cup {0}]
    <3>1. bound' = bound \/ bound' = [bound EXCEPT ![work[t].topic] = 0]
      BY <2>4 DEF Archive
    <3> QED
      BY <2>0, <3>1
  <2> QED
    BY <1>a, <2>0, <2>1, <2>2, <2>3, <2>4 DEF Writers, BoundWritten
<1>4. tomb' \subseteq Numbers
  <2>0. tomb \subseteq Numbers
    BY <1>a DEF TypeOK
  <2>1. ASSUME NEW t \in Threads, Archive(t) PROVE tomb' \subseteq Numbers
    <3>1. work[t].topic \in Numbers
      BY <1>b, <2>1 DEF Archive, Fits, WorkRecs, Numbers
    <3> QED
      BY <2>0, <2>1, <3>1 DEF Archive
  <2>2. Claim => UNCHANGED tomb
    BY DEF Claim
  <2>3. ASSUME NEW b \in Bots, StartPairing(b) PROVE tomb' = {}
    BY <2>3 DEF StartPairing
  <2>4. ASSUME NEW t \in Threads, Bind(t) PROVE UNCHANGED tomb
    BY <2>4 DEF Bind
  <2> QED
    BY <1>a, <2>0, <2>1, <2>2, <2>3, <2>4 DEF Writers, BoundWritten
<1>5. session' \in [Sessions -> {"none", "active", "archived"}]
  <2>0. session \in [Sessions -> {"none", "active", "archived"}]
    BY <1>a DEF TypeOK
  <2>1. CASE Claim
    BY <2>0, <2>1 DEF Claim
  <2>2. ASSUME NEW t \in Threads, Archive(t) PROVE session' = session \/ session' = [session EXCEPT ![work[t].session] = "archived"]
    BY <2>2 DEF Archive
  <2>3. ASSUME NEW t \in Others, CreateSession(t) PROVE \E s \in WebIds : session' = [session EXCEPT ![s] = "active"]
    BY <2>3 DEF CreateSession
  <2>4. ASSUME NEW s \in Sessions, WebArchive(s) PROVE session' = [session EXCEPT ![s] = "archived"]
    BY <2>4 DEF WebArchive
  <2> QED
    BY <1>a, <2>0, <2>1, <2>2, <2>3, <2>4 DEF Writers, SessionWritten
<1>6. busy' \in [Sessions -> 0..MaxTopics]
  <2>0. busy \in [Sessions -> 0..MaxTopics]
    BY <1>a DEF TypeOK
  <2>1. work["poller"].topic \in 0..MaxTopics
    BY <1>b DEF WorkRecs
  <2>2. Taken(work["poller"].session) \/ (\E s \in Sessions : Taken(s)) \/ Taken(bound[work["poller"].topic])
           => \E s : busy' = [busy EXCEPT ![s] = work["poller"].topic]
    BY DEF Taken
  <2>3. TextWritten => UNCHANGED busy \/ \E s : busy' = [busy EXCEPT ![s] = work["poller"].topic]
    BY <2>2 DEF TextWritten, Take, Claim, ClaimLost
  <2>4. ASSUME NEW t \in Others, EndTurn(t) PROVE \E s : busy' = [busy EXCEPT ![s] = 0]
    BY <2>4 DEF EndTurn
  <2> QED
    BY <1>a, <2>0, <2>1, <2>3, <2>4 DEF Writers, BusyWritten
<1>7. /\ at' \in 1..(MaxUpdates + 1) /\ upto' \in 0..MaxUpdates
      /\ copy' \in [bot : Bots, code : Nat, status : Statuses, last : 0..MaxUpdates]
  <2>0. copy \in [bot : Bots, code : Nat, status : Statuses, last : 0..MaxUpdates]
    BY <1>a DEF TypeInv
  <2>1. CASE UNCHANGED pollVars
    BY <2>0, <2>1, <1>c DEF pollVars
  <2>2. CASE Ends
    BY <2>2 DEF Ends, NoPoll, NoCopy, Statuses
  <2>3. CASE BeginPoll
    BY <2>3, <1>a, <1>c DEF BeginPoll, TypeOK, Statuses
  <2>4. CASE Receive
    <3> DEFINE from == Max({confirmed[copy.bot], copy.last})
    <3>1. confirmed[copy.bot] \in Nat /\ copy.last \in Nat
      BY <1>a, <1>c, <2>0 DEF TypeInv
    <3>2. from \in Nat
      BY <3>1, MaxOfTwo
    <3>3. Len(sent[copy.bot]) \in Nat /\ Len(sent[copy.bot]) <= MaxUpdates
      BY <1>a, <1>c DEF TypeInv
    <3>4. /\ from < Len(sent[copy.bot]) /\ at' = from + 1 /\ upto' = Len(sent[copy.bot]) /\ UNCHANGED copy
      BY <2>4 DEF Receive
    <3> HIDE DEF from
    <3> QED
      BY <2>0, <3>2, <3>3, <3>4
  <2>5. CASE SetOffset
    <3>1. at' = at + 1 /\ UNCHANGED <<copy, upto>> /\ at <= upto
      BY <1>d, <2>5 DEF SetOffset
    <3> QED
      BY <2>0, <3>1, <1>c
  <2> QED
    BY <2>1, <2>2, <2>3, <2>4, <2>5, PollerSteps DEF PollerStep, Along
<1>8. remote' \in [Bots -> Seq(TopicRecs)] /\ \A b \in Bots : Len(remote'[b]) <= MaxTopics
  <2>0. remote \in [Bots -> Seq(TopicRecs)] /\ \A b \in Bots : Len(remote[b]) <= MaxTopics
    BY <1>a DEF TypeInv
  <2>1. ASSUME NEW b \in Bots, NEW r \in TopicRecs, Len(remote[b]) < MaxTopics, remote' = [remote EXCEPT ![b] = Append(@, r)]
        PROVE  remote' \in [Bots -> Seq(TopicRecs)] /\ \A c \in Bots : Len(remote'[c]) <= MaxTopics
    BY <2>0, <2>1
  <2>2. ASSUME NEW b \in Bots, NEW n, remote' = Close(b, n)
        PROVE  remote' \in [Bots -> Seq(TopicRecs)] /\ \A c \in Bots : Len(remote'[c]) <= MaxTopics
    <3>1. CASE ~Open(b, n)
      BY <2>0, <2>2, <3>1 DEF Close
    <3>2. CASE Open(b, n)
      <4>1. n \in 1..Len(remote[b]) /\ remote[b] \in Seq(TopicRecs)
        BY <2>0, <3>2 DEF Open
      <4>2. [remote[b][n] EXCEPT !.open = FALSE] \in TopicRecs
        <5>1. remote[b][n] \in TopicRecs
          BY <4>1
        <5> QED
          BY <5>1 DEF TopicRecs
      <4> DEFINE r == [remote[b][n] EXCEPT !.open = FALSE]
      <4>3. remote' = [remote EXCEPT ![b] = [remote[b] EXCEPT ![n] = r]]
        BY <2>0, <2>2, <3>2 DEF Close
      <4> HIDE DEF r
      <4>4. [remote[b] EXCEPT ![n] = r] \in Seq(TopicRecs) /\ Len([remote[b] EXCEPT ![n] = r]) = Len(remote[b])
        BY <4>1, <4>2, ExceptSeq DEF r
      <4> QED
        BY <2>0, <4>3, <4>4
    <3> QED
      BY <3>1, <3>2
  <2>3. CASE CloseTopic
    BY <1>c, <2>0, <2>2, <2>3 DEF CloseTopic
  <2>4. ASSUME NEW b \in Bots, UserTopic(b) PROVE remote' \in [Bots -> Seq(TopicRecs)] /\ \A c \in Bots : Len(remote'[c]) <= MaxTopics
    <3>1. [open |-> TRUE, session |-> 0, code |-> 0] \in TopicRecs
      BY DEF TopicRecs
    <3> QED
      BY <2>1, <2>4, <3>1 DEF UserTopic
  <2>5. ASSUME NEW b \in Bots, UserDeletes(b) PROVE remote' \in [Bots -> Seq(TopicRecs)] /\ \A c \in Bots : Len(remote'[c]) <= MaxTopics
    BY <2>2, <2>5 DEF UserDeletes
  <2>6. ASSUME NEW t \in Threads, CreateTopic(t) \/ CreateFails(t) \/ Bind(t)
        PROVE  remote' \in [Bots -> Seq(TopicRecs)] /\ \A c \in Bots : Len(remote'[c]) <= MaxTopics
    <3>1. work[t].bot \in Bots /\ Made(t) \in TopicRecs
      BY <1>b DEF WorkRecs, Made, TopicRecs
    <3>2. \/ UNCHANGED remote \/ remote' = Close(work[t].bot, work[t].topic)
          \/ Len(remote[work[t].bot]) < MaxTopics /\ remote' = [remote EXCEPT ![work[t].bot] = Append(@, Made(t))]
      BY <2>6 DEF CreateTopic, CreateFails, Bind
    <3> QED
      BY <2>0, <2>1, <2>2, <3>1, <3>2
  <2> QED
    BY <1>a, <2>0, <2>3, <2>4, <2>5, <2>6 DEF Writers, RemoteWritten
<1>9. /\ sent' \in [Bots -> Seq(UpdateRecs)] /\ \A b \in Bots : Len(sent'[b]) <= MaxUpdates
      /\ \A b \in Bots : \A i \in 1..Len(sent'[b]) : sent'[b][i].kind # "code" => sent'[b][i].topic # 0
  <2>0. /\ sent \in [Bots -> Seq(UpdateRecs)] /\ \A b \in Bots : Len(sent[b]) <= MaxUpdates
        /\ \A b \in Bots : \A i \in 1..Len(sent[b]) : sent[b][i].kind # "code" => sent[b][i].topic # 0
    BY <1>a DEF TypeInv
  <2>1. ASSUME NEW b \in Bots, NEW u \in UpdateRecs, u.kind # "code" => u.topic # 0, Sends(b, u)
        PROVE  /\ sent' \in [Bots -> Seq(UpdateRecs)] /\ \A c \in Bots : Len(sent'[c]) <= MaxUpdates
               /\ \A c \in Bots : \A i \in 1..Len(sent'[c]) : sent'[c][i].kind # "code" => sent'[c][i].topic # 0
    <3>1. Len(sent[b]) < MaxUpdates
      BY <1>a, <2>1, SentBound DEF Sends
    <3>2. sent' = [sent EXCEPT ![b] = Append(@, u)]
      BY <2>1 DEF Sends
    <3>3. sent' \in [Bots -> Seq(UpdateRecs)] /\ \A c \in Bots : Len(sent'[c]) <= MaxUpdates
      BY <2>0, <3>1, <3>2
    <3>4. ASSUME NEW c \in Bots, NEW i \in 1..Len(sent'[c])
          PROVE  sent'[c][i].kind # "code" => sent'[c][i].topic # 0
      <4>1. sent'[c][i] = u \/ (i \in 1..Len(sent[c]) /\ sent'[c][i] = sent[c][i])
        BY <2>0, <3>2
      <4> QED
        BY <2>0, <2>1, <4>1
    <3> QED
      BY <3>3, <3>4
  <2>2. CASE UserCode
    <3> DEFINE u == [kind |-> "code", topic |-> 0, code |-> conn.code]
    <3>1. u \in UpdateRecs /\ u.kind = "code"
      BY <1>c DEF UpdateRecs
    <3>2. Sends(conn.bot, u)
      BY <2>2 DEF UserCode
    <3> HIDE DEF u
    <3> QED
      BY <1>c, <2>1, <3>1, <3>2
  <2>3. ASSUME NEW b \in Bots, UserTopic(b) \/ UserText(b)
        PROVE  /\ sent' \in [Bots -> Seq(UpdateRecs)] /\ \A c \in Bots : Len(sent'[c]) <= MaxUpdates
               /\ \A c \in Bots : \A i \in 1..Len(sent'[c]) : sent'[c][i].kind # "code" => sent'[c][i].topic # 0
    <3>1. Len(remote[b]) \in Nat
      BY <1>a DEF TypeInv
    <3>2. PICK n \in 1..MaxTopics, k \in {"text", "created"} : Sends(b, [kind |-> k, topic |-> n, code |-> 0])
      BY <2>3, <3>1 DEF UserTopic, UserText, Numbers
    <3> DEFINE u == [kind |-> k, topic |-> n, code |-> 0]
    <3>3. u \in UpdateRecs /\ u.topic # 0
      BY DEF UpdateRecs
    <3>4. Sends(b, u)
      BY <3>2
    <3> HIDE DEF u
    <3> QED
      BY <2>1, <3>3, <3>4
  <2> QED
    BY <1>a, <2>0, <2>2, <2>3 DEF Writers, SentWritten
<1>10. confirmed' \in [Bots -> Nat]
  <2>0. confirmed \in [Bots -> Nat] /\ copy.last \in Nat
    BY <1>a DEF TypeInv
  <2>a. confirmed[copy.bot] \in Nat
    BY <1>c, <2>0
  <2>1. Max({confirmed[copy.bot], copy.last}) \in Nat
    BY <2>0, <2>a, MaxOfTwo
  <2>2. UNCHANGED confirmed \/ confirmed' = [confirmed EXCEPT ![copy.bot] = Max({confirmed[copy.bot], copy.last})]
    BY <1>a DEF Writers, Receive, ReceiveNone
  <2> QED
    BY <2>0, <2>1, <2>2
<1>11. got' \in [Updates -> Nat] /\ again' \in Nat /\ late' \in Nat
  <2>0. got \in [Updates -> Nat] /\ again \in Nat /\ late \in Nat
    BY <1>a DEF TypeInv
  <2>1. ASSUME NEW s, Taken(s) PROVE got' \in [Updates -> Nat] /\ again' \in Nat /\ late' \in Nat
    <3> DEFINE k == <<copy.bot, at>>
    <3>1. got' = [got EXCEPT ![k] = @ + 1] /\ again' \in {again, again + 1} /\ late' \in {late, late + 1}
      BY <2>1 DEF Taken
    <3> HIDE DEF k
    <3>2. ASSUME NEW u \in Updates PROVE got'[u] \in Nat
      BY <2>0, <3>1
    <3>3. got' \in [Updates -> Nat]
      BY <2>0, <3>1, <3>2
    <3>4. again' \in Nat
      BY <2>0, <3>1
    <3>5. late' \in Nat
      BY <2>0, <3>1
    <3> QED
      BY <3>3, <3>4, <3>5
  <2>2. UNCHANGED textVars \/ \E s : Taken(s)
    BY <1>a DEF Writers, TextWritten, Take, Claim, ClaimLost
  <2> QED
    BY <2>0, <2>1, <2>2 DEF textVars
<1>12. TypeOK'
  BY <1>1, <1>3, <1>4, <1>5, <1>6, <1>7 DEF TypeOK, Statuses
<1> QED
  BY <1>2, <1>7, <1>8, <1>9, <1>10, <1>11, <1>12 DEF TypeInv

LEMMA BaseInit == Init => BaseInv
<1> SUFFICES ASSUME Init PROVE BaseInv
  OBVIOUS
<1> USE Numbering
<1>1. TypeOK
  BY DEF Init, TypeOK
<1>2. remote = [b \in Bots |-> <<>>] /\ sent = [b \in Bots |-> <<>>]
  BY DEF Init
<1>3. remote \in [Bots -> Seq(TopicRecs)] /\ \A b \in Bots : Len(remote[b]) = 0
  BY <1>2
<1>4. sent \in [Bots -> Seq(UpdateRecs)] /\ \A b \in Bots : Len(sent[b]) = 0
  BY <1>2
<1>5. TypeInv
  BY <1>1, <1>3, <1>4 DEF Init, TypeInv, NoCopy, Statuses
<1>6. WorkInv
  BY BlankRecord DEF Init, WorkInv, Fits, Making
<1>7. PollInv
  BY <1>4 DEF Init, PollInv, NoCopy, InPoll, Before
<1> QED
  BY <1>5, <1>6, <1>7 DEF BaseInv

LEMMA BaseStep == BaseInv /\ [Next]_vars => BaseInv'
  BY TypeStep, WorkStep, PollStep DEF BaseInv

LEMMA BaseAlways == Spec => []BaseInv
  BY BaseInit, BaseStep, PTL DEF Spec

\* The rows, the offsets and the poll have the values they should have.
THEOREM TypeCorrect == Spec => []TypeOK
<1>1. BaseInv => TypeOK
  BY DEF BaseInv, TypeInv
<1> QED
  BY <1>1, BaseAlways, PTL

-----------------------------------------------------------------------------
(* Texts of an ended pairing. *)

LEMMA TakenOnce ==
    ASSUME BaseInv, TextWritten
    PROVE  /\ pc["poller"] \in {"take", "claim"} /\ pc'["poller"] \notin Before \cup {"idle", "ask"}
           /\ UNCHANGED <<conn, pollVars, faultVars, confirmed>>
           /\ UNCHANGED textVars \/ \E s : Taken(s)
<1>1. DOMAIN pc = Threads
  BY DEF BaseInv, WorkInv
<1>2. pc["poller"] \in {"take", "claim"} /\ \E l \in {"reply", "save", "close"} : pc' = [pc EXCEPT !["poller"] = l]
  BY DEF TextWritten, Take, Claim, ClaimLost, Goto
<1>3. UNCHANGED <<conn, pollVars, faultVars, confirmed>> /\ (UNCHANGED textVars \/ \E s : Taken(s))
  BY DEF TextWritten, Take, Claim, ClaimLost, rowVars, telegramVars
<1> QED
  BY <1>1, <1>2, <1>3, Numbering DEF Before

\* But for a new pairing and an offset, the row keeps its bot, code and offset.
LEMMA RowKept ==
    ASSUME BaseInv, [Next]_vars, ~\E b \in Bots : StartPairing(b)
    PROVE  /\ conn'.bot = conn.bot /\ conn'.code = conn.code
           /\ SetOffset \/ conn'.last = conn.last
           /\ UNCHANGED conn \/ pc["poller"] \in {"confirm", "commit"}
<1>1. conn \in [bot : Bots, code : 1..(MaxUpsets + 1), status : Statuses, last : 0..MaxUpdates]
  BY DEF BaseInv, TypeInv, TypeOK, Statuses
<1>2. UNCHANGED conn \/ Confirm \/ ConfirmFails \/ SetOffset
  BY WhoWrites DEF Writers, ConnWritten
<1> QED
  BY <1>1, <1>2 DEF Confirm, ConfirmFails, SetOffset

LEMMA LateStep == BaseInv /\ LateInv /\ [Next]_vars => LateInv'
<1> SUFFICES ASSUME BaseInv, LateInv, [Next]_vars PROVE LateInv'
  OBVIOUS
<1>a. late \in Nat /\ conn.code \in Nat
  <2>1. TypeOK /\ late \in Nat
    BY DEF BaseInv, TypeInv
  <2> QED
    BY <2>1 DEF TypeOK
<1>1. ASSUME NEW b \in Bots, StartPairing(b) PROVE LateInv'
  <2>1. conn'.code = conn.code + 1 /\ UNCHANGED late
    BY <1>1 DEF StartPairing, seenVars, textVars
  <2> QED
    BY <1>a, <2>1 DEF LateInv
<1>2. CASE TextWritten
  <2>1. late' = late \/ (late' = late + 1 /\ ~Paired)
    BY <1>2, TakenOnce DEF Taken, textVars, Paired
  <2>2. Heard /\ ~Heard' /\ UNCHANGED conn
    BY <1>2, TakenOnce DEF Heard, Before
  <2> QED
    BY <1>a, <2>1, <2>2 DEF LateInv
<1>3. CASE ~TextWritten /\ ~\E b \in Bots : StartPairing(b)
  <2>1. UNCHANGED late
    BY <1>3, WhoWrites DEF Writers, textVars
  <2>2. conn'.bot = conn.bot /\ conn'.code = conn.code /\ (UNCHANGED conn \/ pc["poller"] \in {"confirm", "commit"})
    BY <1>3, RowKept
  <2>3. Heard => UNCHANGED conn
    BY <2>2 DEF Heard
  <2>4. Heard' => (Heard /\ UNCHANGED copy) \/ Paired'
    <3>1. CASE UNCHANGED pollVars /\ pc'["poller"] = pc["poller"]
      BY <3>1 DEF Heard, pollVars
    <3>2. CASE Along
      <4>1. pc["poller"] = "handle" => UNCHANGED conn
        BY <2>2
      <4> QED
        BY <3>2, <4>1 DEF Along, Heard, Listening, Row, Paired, Connected, pollVars
    <3>3. CASE Ends
      BY <3>3 DEF Ends, Heard
    <3>4. CASE BeginPoll
      BY <3>4 DEF BeginPoll, Heard, Paired, Connected, Goto, rowVars, BaseInv, WorkInv
    <3>5. CASE Receive
      BY <3>5 DEF Receive, Heard, Goto, BaseInv, WorkInv
    <3>6. CASE SetOffset
      <4>1. ~first' /\ pc' = [pc EXCEPT !["poller"] = IF at < upto THEN "handle" ELSE "sync"] /\ DOMAIN pc = Threads
        BY <3>6 DEF SetOffset, Goto, BaseInv, WorkInv
      <4> QED
        BY <4>1, Numbering DEF Heard
    <3> QED
      BY <3>1, <3>2, <3>3, <3>4, <3>5, <3>6, PollerSteps DEF PollerStep
  <2> QED
    BY <2>1, <2>2, <2>3, <2>4 DEF LateInv, Paired, Connected
<1> QED
  BY <1>1, <1>2, <1>3

\* The bot of an ended pairing is heard for one more text at most: what the poll
\* has read of the row stands for one handler, and a new pairing makes room for it.
THEOREM EndedPairingIsDeaf == Spec => []OldPairingEnds
<1>1. Init => LateInv
  BY Numbering DEF Init, LateInv, Heard
<1>2. LateInv => OldPairingEnds
  BY DEF LateInv, OldPairingEnds
<1> QED
  BY <1>1, <1>2, LateStep, BaseAlways, PTL DEF Spec

-----------------------------------------------------------------------------
(* Texts that are taken again. *)

LEMMA Counts ==
    ASSUME BaseInv
    PROVE  /\ crashes \in Nat /\ faults \in Nat /\ conn.code \in Nat /\ conn.code # 0 /\ again \in Nat
           /\ at \in Nat /\ at # 0 /\ upto \in Nat /\ upto <= MaxUpdates /\ at <= upto + 1
           /\ conn.last \in Nat /\ copy.last \in Nat /\ conn.bot \in Bots /\ copy.bot \in Bots
           /\ \A b \in Bots : confirmed[b] \in Nat
           /\ \A b \in Bots : \A i \in 1..MaxUpdates : got[<<b, i>>] \in Nat
           /\ pc["poller"] \in {"idle", "ask"} => at = 1 /\ upto = 0
           /\ pc["poller"] \in InPoll => at <= upto
           /\ DOMAIN pc = Threads
<1>1. TypeOK /\ TypeInv /\ PollInv /\ WorkInv
  BY DEF BaseInv, TypeInv
<1>2. conn.code \in Nat /\ conn.code # 0 /\ at \in Nat /\ at # 0 /\ upto \in Nat /\ upto <= MaxUpdates
      /\ conn.last \in Nat /\ conn.bot \in Bots
  BY <1>1, Numbering DEF TypeOK
<1>3. crashes \in Nat /\ faults \in Nat /\ again \in Nat /\ copy.last \in Nat /\ copy.bot \in Bots /\ \A b \in Bots : confirmed[b] \in Nat
  BY <1>1 DEF TypeInv
<1>4. ASSUME NEW b \in Bots, NEW i \in 1..MaxUpdates PROVE got[<<b, i>>] \in Nat
  <2>1. got \in [Updates -> Nat]
    BY <1>1 DEF TypeInv
  <2>2. <<b, i>> \in Updates
    BY DEF Updates
  <2> QED
    BY <2>1, <2>2
<1> QED
  BY <1>1, <1>2, <1>3, <1>4 DEF PollInv, WorkInv

\* What taking a text does to the count of each.
LEMMA TakenCounts ==
    ASSUME BaseInv, NEW s, Taken(s)
    PROVE  /\ \A b \in Bots : \A i \in 1..MaxUpdates :
                got'[<<b, i>>] = IF b = copy.bot /\ i = at THEN got[<<b, i>>] + 1 ELSE got[<<b, i>>]
           /\ again' = IF got[<<copy.bot, at>>] = 0 THEN again ELSE again + 1
<1> DEFINE k == <<copy.bot, at>>
<1>1. got' = [got EXCEPT ![k] = got[k] + 1] /\ got \in [Updates -> Nat]
  BY DEF Taken, BaseInv, TypeInv
<1>2. ASSUME NEW b \in Bots, NEW i \in 1..MaxUpdates
      PROVE  got'[<<b, i>>] = IF b = copy.bot /\ i = at THEN got[<<b, i>>] + 1 ELSE got[<<b, i>>]
  <2> DEFINE u == <<b, i>>
  <2>1. u \in Updates /\ (u = k <=> b = copy.bot /\ i = at)
    BY DEF Updates
  <2> HIDE DEF u, k
  <2>2. got'[u] = IF u = k THEN got[u] + 1 ELSE got[u]
    BY <1>1, <2>1
  <2> QED
    BY <2>1, <2>2 DEF u
<1> QED
  BY <1>2 DEF Taken

LEMMA AlongKeepsPast == Along /\ Past => Past'
  BY DEF Along, Past, Before

LEMMA FaultTakesNothing == BaseInv /\ TextWritten => ~Fault
  BY TakenOnce, Counts DEF Fault, faultVars

\* A step that takes no text, pairs nothing, fails at nothing and does not kill the process.
LEMMA PassedStays ==
    ASSUME BaseInv, RepeatInv, [Next]_vars, ~TextWritten, ~Crash, ~Fault, ~\E b \in Bots : StartPairing(b),
           NEW b \in Bots, NEW i \in 1..MaxUpdates, Passed(b, i)
    PROVE  Passed(b, i)'
<1>a. conn'.bot = conn.bot /\ (SetOffset \/ conn'.last = conn.last)
  BY RowKept
<1>b. i \in Nat /\ i # 0
  BY Numbering
<1>1. CASE SetOffset
  <2>1. /\ pc["poller"] = "commit" /\ conn'.last = at /\ at' = at + 1 /\ UNCHANGED <<copy, upto>>
    BY <1>1, Counts DEF SetOffset, Kept, BaseInv, TypeInv, TypeOK
  <2>2. pc'["poller"] \in {"handle", "sync"}
    BY <1>1, Counts, Numbering DEF SetOffset, Goto
  <2>3. at <= upto /\ at \in Nat /\ upto \in Nat
    BY <2>1, Counts DEF InPoll
  <2>4. conn.bot = copy.bot \/ conn.last = 0
    BY <2>1 DEF RepeatInv
  <2> QED
    BY <1>a, <1>b, <2>1, <2>2, <2>3, <2>4, Counts DEF Passed
<1>2. CASE ~SetOffset /\ UNCHANGED pollVars /\ pc'["poller"] = pc["poller"]
  BY <1>a, <1>2 DEF Passed, Past, pollVars
<1>3. CASE ~SetOffset /\ Along
  BY <1>a, <1>3, AlongKeepsPast DEF Passed, Along, pollVars
<1>4. CASE ~SetOffset /\ Ends
  <2>1. ~(at <= upto) \/ conn.bot # copy.bot
    BY <1>4 DEF Ends
  <2> QED
    BY <1>a, <1>4, <2>1 DEF Passed, Ends, NoPoll
<1>5. CASE ~SetOffset /\ BeginPoll
  <2>1. copy' = conn /\ UNCHANGED <<conn, at, upto>> /\ at = 1 /\ upto = 0
    BY <1>5, Counts DEF BeginPoll, rowVars
  <2> QED
    BY <2>1 DEF Passed
<1>6. CASE ~SetOffset /\ Receive
  <2> DEFINE from == Max({confirmed[copy.bot], copy.last})
  <2>1. from \in Nat /\ from >= copy.last
    BY Counts, MaxOfTwo
  <2>2. /\ pc["poller"] = "ask" /\ at = 1 /\ upto = 0 /\ UNCHANGED <<conn, copy>> /\ at' = from + 1
        /\ pc'["poller"] = "handle"
    BY <1>6, Counts, Numbering DEF Receive, rowVars, Goto
  <2> HIDE DEF from
  <2> QED
    BY <1>b, <2>1, <2>2, Counts DEF Passed
<1> QED
  BY <1>1, <1>2, <1>3, <1>4, <1>5, <1>6, PollerSteps DEF PollerStep

LEMMA RepeatStep == BaseInv /\ RepeatInv /\ [Next]_vars => RepeatInv'
<1> SUFFICES ASSUME BaseInv, RepeatInv, [Next]_vars PROVE RepeatInv'
  OBVIOUS
<1> USE Numbering
<1>0. ASSUME ~Crash, ~\E b \in Bots : StartPairing(b)
      PROVE  pc'["poller"] = "commit" => conn'.bot = copy'.bot \/ conn'.last = 0
  <2>1. conn'.bot = conn.bot /\ (SetOffset \/ conn'.last = conn.last)
    BY <1>0, RowKept
  <2>2. SetOffset \/ BeginPoll \/ Receive => pc'["poller"] # "commit"
    BY Counts DEF SetOffset, BeginPoll, Receive, Goto
  <2>3. Ends => pc'["poller"] # "commit"
    BY DEF Ends
  <2>4. Along /\ pc'["poller"] = "commit" => conn.bot = copy.bot /\ UNCHANGED copy
    BY DEF Along, pollVars
  <2>5. UNCHANGED pollVars /\ pc'["poller"] = pc["poller"] => UNCHANGED copy
    BY DEF pollVars
  <2> QED
    BY <2>1, <2>2, <2>3, <2>4, <2>5, PollerSteps DEF PollerStep, RepeatInv
<1>1. ASSUME (\E b \in Bots : StartPairing(b)) \/ Crash \/ Fault PROVE RepeatInv'
  <2>1. crashes' + faults' + conn'.code = crashes + faults + conn.code + 1 /\ UNCHANGED got
    <3>1. CASE (\E b \in Bots : StartPairing(b)) \/ Crash
      BY <3>1, Counts DEF StartPairing, Crash, rowVars, seenVars, textVars, faultVars
    <3>2. CASE Fault
      <4>1. UNCHANGED textVars
        BY <3>2, FaultTakesNothing, WhoWrites DEF Writers
      <4> QED
        BY <3>2, <4>1, Counts DEF Fault, textVars
    <3> QED
      BY <1>1, <3>1, <3>2
  <2>2. pc'["poller"] = "commit" => conn'.bot = copy'.bot \/ conn'.last = 0
    BY <1>0 DEF StartPairing, Crash
  <2>3. ASSUME NEW b \in Bots, NEW i \in 1..MaxUpdates PROVE Due(b, i)'
    <3>1. got[<<b, i>>] <= crashes + faults + conn.code
      BY Counts DEF RepeatInv, Due, Spent
    <3> QED
      BY <2>1, <3>1, Counts DEF Due
  <2> QED
    BY <2>2, <2>3 DEF RepeatInv
<1>2. CASE TextWritten
  <2>1. /\ pc["poller"] \in {"take", "claim"} /\ pc'["poller"] \notin Before \cup {"idle", "ask", "commit"}
        /\ UNCHANGED <<conn, pollVars, faultVars>>
    <3>1. pc'["poller"] # "commit"
      BY <1>2, Counts DEF TextWritten, Take, Claim, ClaimLost, Goto
    <3> QED
      BY <1>2, <3>1, TakenOnce
  <2>2. ~Past /\ Past' /\ at <= upto
    BY <2>1, Counts DEF Past, Before, InPoll
  <2>3. ASSUME NEW b \in Bots, NEW i \in 1..MaxUpdates, Passed(b, i) PROVE Passed(b, i)'
    BY <2>1, <2>2, <2>3 DEF Passed, pollVars
  <2>4. ASSUME NEW b \in Bots, NEW i \in 1..MaxUpdates, b = copy.bot, i = at PROVE ~Passed(b, i) /\ Passed(b, i)'
    BY <2>1, <2>2, <2>4, Counts DEF Passed, pollVars
  <2>5. ASSUME NEW b \in Bots, NEW i \in 1..MaxUpdates PROVE Due(b, i)' \/ Spent(b, i)'
    <3>1. Due(b, i) \/ Spent(b, i)
      BY DEF RepeatInv
    <3>2. UNCHANGED <<crashes, faults, conn>>
      BY <2>1 DEF faultVars
    <3>3. CASE got'[<<b, i>>] = got[<<b, i>>]
      BY <2>3, <3>1, <3>2, <3>3 DEF Due, Spent
    <3>4. CASE b = copy.bot /\ i = at /\ got'[<<b, i>>] = got[<<b, i>>] + 1
      BY <2>4, <3>1, <3>2, <3>4, Counts DEF Due, Spent
    <3> QED
      BY <1>2, <3>3, <3>4, TakenOnce, TakenCounts DEF textVars
  <2> QED
    BY <2>1, <2>5 DEF RepeatInv
<1>3. CASE ~TextWritten /\ ~Crash /\ ~Fault /\ ~\E b \in Bots : StartPairing(b)
  <2>1. UNCHANGED <<got, crashes, faults>>
    BY <1>3, WhoWrites DEF Writers, textVars, faultVars
  <2>2. conn'.code = conn.code
    BY <1>3, RowKept
  <2>3. ASSUME NEW b \in Bots, NEW i \in 1..MaxUpdates PROVE Due(b, i)' \/ Spent(b, i)'
    <3>1. Due(b, i) \/ Spent(b, i)
      BY DEF RepeatInv
    <3>2. Passed(b, i) => Passed(b, i)'
      BY <1>3, PassedStays
    <3> QED
      BY <2>1, <2>2, <3>1, <3>2 DEF Due, Spent
  <2> QED
    BY <1>0, <1>3, <2>3 DEF RepeatInv
<1> QED
  BY <1>1, <1>2, <1>3

LEMMA FirstStep == BaseInv /\ FirstInv /\ [Next]_vars => FirstInv'
<1> SUFFICES ASSUME BaseInv, FirstInv, [Next]_vars, conn'.code = 1 PROVE FirstPoll' /\ FirstText'
  BY DEF FirstInv
<1> USE Numbering
<1>0. ~\E b \in Bots : StartPairing(b)
  <2>1. ASSUME NEW b \in Bots, StartPairing(b) PROVE conn'.code = conn.code + 1
    BY <2>1 DEF StartPairing
  <2> QED
    BY <2>1, Counts
<1>a. conn'.bot = conn.bot /\ conn.code = 1 /\ (SetOffset \/ conn'.last = conn.last)
  BY <1>0, RowKept
<1>b. FirstPoll /\ FirstText
  BY <1>a DEF FirstInv
<1>c. /\ conn.bot = First /\ copy.bot = First /\ conn.last \in Nat /\ confirmed[First] \in Nat
      /\ confirmed[First] <= conn.last
  BY <1>b, Counts DEF FirstPoll
<1>d. confirmed'[First] \in Nat /\ confirmed'[First] <= conn.last
  <2>1. CASE UNCHANGED confirmed
    BY <1>c, <2>1
  <2>2. CASE Receive \/ ReceiveNone
    <3>1. pc["poller"] = "ask" /\ confirmed' = [confirmed EXCEPT ![First] = Max({confirmed[First], copy.last})]
      BY <1>c, <2>2 DEF Receive, ReceiveNone
    <3>2. copy.last = conn.last
      BY <1>b, <3>1 DEF FirstPoll
    <3>3. Max({confirmed[First], copy.last}) \in {confirmed[First], conn.last}
      BY <1>c, <3>2, MaxOfTwo
    <3> QED
      BY <1>c, <3>1, <3>3 DEF BaseInv, TypeInv
  <2> QED
    BY <2>1, <2>2, WhoWrites DEF Writers
<1>1. CASE Crash
  <2>1. /\ copy' = NoCopy /\ at' = 1 /\ upto' = 0 /\ pc'["poller"] = "idle" /\ crashes' = crashes + 1
        /\ UNCHANGED <<conn, got, again, faults>>
    BY <1>1 DEF Crash, NoPoll, rowVars, seenVars, textVars
  <2>2. FirstPoll'
    BY <1>c, <1>d, <2>1 DEF FirstPoll, NoCopy
  <2>3. FirstText'
    BY <1>b, <2>1, Counts DEF FirstText, Exposed
  <2> QED
    BY <2>2, <2>3
<1>2. CASE TextWritten
  <2>1. /\ pc["poller"] \in {"take", "claim"} /\ pc'["poller"] \notin Before \cup {"idle", "ask"}
        /\ UNCHANGED <<conn, pollVars, crashes, faults, confirmed>>
    BY <1>2, TakenOnce DEF faultVars
  <2>2. ~Past /\ Past' /\ at <= upto /\ upto > 0 /\ at \in 1..MaxUpdates
    BY <2>1, Counts DEF Past, Before, InPoll
  <2>3. FirstPoll'
    BY <1>b, <2>1 DEF FirstPoll, pollVars
  <2>4. at = conn.last + 1
    BY <1>b, <2>2, Counts DEF FirstPoll
  <2>5. CASE UNCHANGED textVars
    <3>1. \A i \in 1..MaxUpdates : Exposed(i)' => Exposed(i)
      BY <2>1, <2>5 DEF Exposed, textVars
    <3>2. again <= crashes + faults /\ \A i \in 1..MaxUpdates : Exposed(i) => i = conn.last + 1 /\ again < crashes + faults
      BY <1>b, <2>2 DEF FirstText
    <3>3. UNCHANGED <<again, crashes, faults, conn>>
      BY <2>1, <2>5 DEF textVars
    <3> QED
      BY <2>3, <3>1, <3>2, <3>3 DEF FirstText
  <2>6. ASSUME NEW s, Taken(s) PROVE FirstText'
    <3>1. /\ \A i \in 1..MaxUpdates : got'[<<First, i>>] = IF i = at THEN got[<<First, i>>] + 1 ELSE got[<<First, i>>]
          /\ again' = IF got[<<First, at>>] = 0 THEN again ELSE again + 1
      BY <1>c, <2>6, TakenCounts
    <3>2. \A i \in 1..MaxUpdates : Exposed(i) => i = at /\ again < crashes + faults
      BY <1>b, <2>2, <2>4 DEF FirstText
    <3>3. got[<<First, at>>] > 0 => Exposed(at)
      BY <2>4, Counts DEF Exposed
    <3>4. again <= crashes + faults
      BY <1>b DEF FirstText
    <3>5. again' <= crashes' + faults'
      BY <2>1, <2>2, <3>1, <3>2, <3>3, <3>4, <1>c, Counts
    <3>6. \A i \in 1..MaxUpdates : Exposed(i)' => i = at
      BY <2>1, <3>1, <3>2 DEF Exposed
    <3> QED
      BY <2>1, <2>2, <2>4, <3>5, <3>6 DEF FirstText, pollVars
  <2> QED
    BY <1>2, <2>3, <2>5, <2>6, TakenOnce
<1>3. CASE Fault
  <2>1. UNCHANGED <<got, again, conn>> /\ crashes' + faults' = crashes + faults + 1
    <3>1. UNCHANGED textVars
      BY <1>3, FaultTakesNothing, WhoWrites DEF Writers
    <3> QED
      BY <1>3, <3>1, Counts DEF Fault, textVars
  <2>2. FirstText'
    <3>1. again' < crashes' + faults'
      BY <1>b, <2>1, Counts DEF FirstText
    <3>2. \A i \in 1..MaxUpdates : Exposed(i)' => i = conn'.last + 1
      BY <1>b, <2>1 DEF FirstText, Exposed
    <3> QED
      BY <3>1, <3>2, <2>1, Counts DEF FirstText
  <2>3. FirstPoll'
    <3>1. CASE UNCHANGED pollVars /\ pc'["poller"] = pc["poller"]
      BY <1>a, <1>b, <1>d, <2>1, <3>1 DEF FirstPoll, pollVars
    <3>2. CASE Along
      BY <1>a, <1>b, <1>d, <2>1, <3>2 DEF FirstPoll, Along, pollVars
    <3>3. CASE Ends
      BY <1>a, <1>c, <1>d, <2>1, <3>3 DEF FirstPoll, Ends, NoPoll, NoCopy
    <3>4. ~(BeginPoll \/ Receive \/ SetOffset)
      <4>1. BeginPoll \/ Receive \/ SetOffset => UNCHANGED faults
        BY DEF BeginPoll, Receive, SetOffset, faultVars
      <4> QED
        BY <1>3, <4>1, Counts DEF Fault
    <3> QED
      BY <3>1, <3>2, <3>3, <3>4, PollerSteps DEF PollerStep
  <2> QED
    BY <2>2, <2>3
<1>4. CASE ~Crash /\ ~TextWritten /\ ~Fault
  <2>1. UNCHANGED <<got, again, crashes, faults>>
    BY <1>4, WhoWrites DEF Writers, textVars, faultVars
  <2>2. \A i \in 1..MaxUpdates : ~SetOffset => Exposed(i)' = Exposed(i)
    BY <1>a, <2>1 DEF Exposed
  <2>3. again <= crashes + faults
    BY <1>b DEF FirstText
  <2>4. CASE SetOffset
    <3>1. /\ pc["poller"] = "commit" /\ conn'.last = at /\ at' = at + 1 /\ UNCHANGED <<copy, upto>>
      BY <2>4, Counts DEF SetOffset, Kept, BaseInv, TypeInv, TypeOK
    <3>2. at <= upto /\ upto > 0
      BY <3>1, Counts DEF InPoll
    <3>3. at = conn.last + 1
      BY <1>b, <3>2, Counts DEF FirstPoll
    <3>4. pc'["poller"] # "ask"
      BY <2>4, Counts DEF SetOffset, Goto
    <3>5. FirstPoll'
      BY <1>a, <1>c, <1>d, <3>1, <3>3, <3>4, Counts DEF FirstPoll
    <3>6. \A i \in 1..MaxUpdates : ~Exposed(i)'
      BY <1>b, <2>1, <3>1, <3>3, Counts DEF Exposed, FirstText
    <3> QED
      BY <2>1, <2>3, <3>5, <3>6 DEF FirstText
  <2>5. CASE ~SetOffset /\ UNCHANGED pollVars /\ pc'["poller"] = pc["poller"]
    BY <1>a, <1>b, <1>d, <2>1, <2>2, <2>5 DEF FirstPoll, FirstText, Past, pollVars
  <2>6. CASE ~SetOffset /\ Along
    <3>1. FirstPoll'
      BY <1>a, <1>b, <1>d, <2>6 DEF FirstPoll, Along, pollVars
    <3>2. FirstText'
      BY <1>a, <1>b, <2>1, <2>2, <2>6, AlongKeepsPast DEF FirstText, Along, pollVars
    <3> QED
      BY <3>1, <3>2
  <2>7. CASE ~SetOffset /\ Ends
    <3>1. ~(at <= upto) /\ copy' = NoCopy /\ upto' = 0 /\ pc'["poller"] = "idle"
      BY <1>4, <1>c, <2>7 DEF Ends, NoPoll
    <3>2. FirstPoll'
      BY <1>a, <1>c, <1>d, <2>7, <3>1 DEF FirstPoll, NoCopy
    <3>3. FirstText'
      BY <1>a, <1>b, <2>1, <2>2, <2>7, <3>1 DEF FirstText
    <3> QED
      BY <3>2, <3>3
  <2>8. CASE ~SetOffset /\ BeginPoll
    <3>1. copy' = conn /\ UNCHANGED <<conn, at, upto>> /\ upto = 0 /\ at = 1
      BY <2>8, Counts DEF BeginPoll, rowVars
    <3>2. FirstPoll'
      BY <1>c, <1>d, <3>1 DEF FirstPoll
    <3>3. FirstText'
      BY <1>b, <2>1, <2>2, <2>8, <3>1 DEF FirstText
    <3> QED
      BY <3>2, <3>3
  <2>9. CASE ~SetOffset /\ Receive
    <3>1. /\ pc["poller"] = "ask" /\ at = 1 /\ upto = 0 /\ UNCHANGED <<conn, copy>>
          /\ at' = Max({confirmed[First], copy.last}) + 1 /\ pc'["poller"] = "handle"
      BY <1>c, <2>9, Counts DEF Receive, rowVars, Goto
    <3>2. copy.last = conn.last
      BY <1>b, <3>1 DEF FirstPoll
    <3>3. Max({confirmed[First], copy.last}) = conn.last
      BY <1>c, <3>2, MaxOfTwo
    <3>4. FirstPoll'
      BY <1>c, <1>d, <3>1, <3>3 DEF FirstPoll
    <3>5. FirstText'
      BY <1>b, <2>1, <2>2, <2>9, <3>1 DEF FirstText
    <3> QED
      BY <3>4, <3>5
  <2> QED
    BY <2>4, <2>5, <2>6, <2>7, <2>8, <2>9, PollerSteps DEF PollerStep
<1> QED
  BY <1>1, <1>2, <1>3, <1>4

\* A text becomes a turn once, and once more for each death, each failed statement or
\* call and each new pairing at most; in the first pairing each death or failure repeats
\* one text at most, however many were in the batch, because the offset is kept after
\* every update.
THEOREM RepeatsAreExplained == Spec => []RepeatsNeedUpsets
<1>1. Init => RepeatInv /\ FirstInv
  <2> SUFFICES ASSUME Init PROVE RepeatInv /\ FirstInv
    OBVIOUS
  <2>1. \A b \in Bots : \A i \in 1..MaxUpdates : got[<<b, i>>] = 0
    BY DEF Init, Updates
  <2>2. pc["poller"] = "idle" /\ confirmed[First] = 0
    BY Numbering DEF Init
  <2> QED
    <3>1. crashes = 0 /\ faults = 0 /\ again = 0 /\ upto = 0 /\ copy.bot = First
      BY DEF Init, NoCopy
    <3>2. conn.code = 1 /\ conn.last = 0 /\ conn.bot = First
      BY DEF Init
    <3>3. RepeatInv
      BY <2>1, <2>2, <3>1, <3>2 DEF RepeatInv, Due
    <3>4. FirstText
      BY <2>1, <3>1, Numbering DEF FirstText, Exposed
    <3> QED
      BY <2>2, <3>1, <3>2, <3>3, <3>4 DEF FirstInv, FirstPoll
<1>2. BaseInv /\ RepeatInv /\ FirstInv => RepeatsNeedUpsets
  <2> SUFFICES ASSUME BaseInv, RepeatInv, FirstInv PROVE RepeatsNeedUpsets
    OBVIOUS
  <2>1. ASSUME NEW u \in Updates PROVE got[u] <= crashes + faults + conn.code
    <3> PICK b \in Bots, i \in 1..MaxUpdates : u = <<b, i>>
      BY DEF Updates
    <3>1. Due(b, i) \/ Spent(b, i)
      BY DEF RepeatInv
    <3> QED
      BY <3>1, Counts DEF Due, Spent
  <2> QED
    BY <2>1 DEF RepeatsNeedUpsets, FirstInv, FirstText
<1> QED
  BY <1>1, <1>2, RepeatStep, FirstStep, BaseAlways, PTL DEF Spec

-----------------------------------------------------------------------------
(* Topics of a session. *)

\* One thread moves at a time, but for a death.
Still(u) == \A t \in Threads : t # u => pc'[t] = pc[t] /\ work'[t] = work[t]
Elsewhere(u) == pc[u] \notin AtMaking /\ pc'[u] \notin AtMaking
Mover(u) ==
    Still(u) /\ (Look(u) \/ Lock(u) \/ CreateTopic(u) \/ CreateFails(u) \/ Bind(u) \/ Fails(u) \/ Elsewhere(u))

LEMMA OnwardIsStill ==
    ASSUME BaseInv, NEW t \in Threads, Onward(t) PROVE Still(t) /\ pc'[t] \in {"project", "save", "idle"}
<1> PICK l \in {"project", "save", "idle"}, w \in WorkRecs :
       pc' = [pc EXCEPT ![t] = l] /\ work' = [work EXCEPT ![t] = w]
  BY DEF Onward
<1>1. DOMAIN pc = Threads /\ work \in [Threads -> WorkRecs]
  BY DEF BaseInv, WorkInv
<1> QED
  BY <1>1 DEF Still

LEMMA Movers == BaseInv /\ [Next]_vars => Crash \/ UNCHANGED <<pc, work>> \/ \E u \in Threads : Mover(u)
<1> SUFFICES ASSUME BaseInv, [Next]_vars, ~Crash, ~UNCHANGED <<pc, work>> PROVE \E u \in Threads : Mover(u)
  OBVIOUS
<1> USE Numbering
<1>a. DOMAIN pc = Threads /\ work \in [Threads -> WorkRecs]
  BY DEF BaseInv, WorkInv
<1>1. ASSUME Poll PROVE Mover("poller")
  <2>1. CASE ReceiveNone \/ Confirm \/ Sync
    <3>1. ProjectAll \in SUBSET WebIds /\ {} \in SUBSET WebIds
      BY DEF ProjectAll
    <3>2. Onward("poller") /\ pc["poller"] \in {"ask", "confirm", "sync"}
      BY <2>1, <3>1, ProceedsOnward DEF ReceiveNone, Confirm, Sync
    <3> QED
      BY <3>2, OnwardIsStill DEF Mover, Elsewhere, AtMaking, Making
  <2>2. CASE ~(ReceiveNone \/ Confirm \/ Sync)
    <3>1. pc["poller"] \notin AtMaking
      BY <1>1, <2>2 DEF Poll, Handle, Pair, BeginPoll, Receive, AcceptMessage, IgnoreMessage, Resolve, Take, Claim,
         ClaimLost, CloseTopic, ReadCode, ConfirmFails, CheckOffset, SetOffset, AtMaking, Making
    <3>2. \E l \in {"ask", "handle", "resolve", "save", "take", "claim", "reply", "close", "confirm", "commit", "idle", "sync"} :
             pc' = [pc EXCEPT !["poller"] = l]
      BY <1>1, <2>2 DEF Poll, Handle, Pair, BeginPoll, Receive, AcceptMessage, IgnoreMessage, PassOver, Resolve, Take,
         Claim, ClaimLost, CloseTopic, ReadCode, ConfirmFails, CheckOffset, SetOffset, Goto
    <3>3. UNCHANGED work \/ \E w : work' = [work EXCEPT !["poller"] = w]
      BY <1>1, <2>2 DEF Poll, Handle, Pair, BeginPoll, Receive, AcceptMessage, IgnoreMessage, Resolve, Take,
         Claim, ClaimLost, CloseTopic, ReadCode, ConfirmFails, CheckOffset, SetOffset
    <3>4. Still("poller") /\ pc'["poller"] \notin AtMaking
      BY <1>a, <3>2, <3>3 DEF Still, AtMaking, Making
    <3> QED
      BY <3>1, <3>4 DEF Mover, Elsewhere
  <2> QED
    BY <2>1, <2>2
<1>2. ASSUME NEW t \in Threads, Work(t) PROVE Mover(t)
  <2>1. CASE Onward(t)
    <3>1. Look(t) \/ Lock(t) \/ CreateFails(t) \/ Bind(t) \/ CreateTopic(t) \/ pc[t] \in {"reply", "retire", "archive", "deliver"}
      BY <1>2 DEF Work, Reply, Retire, Archive, Deliver
    <3> QED
      BY <2>1, <3>1, OnwardIsStill DEF Mover, Elsewhere, AtMaking, Making
  <2>2. CASE /\ \E l : pc' = [pc EXCEPT ![t] = l]
             /\ UNCHANGED work \/ \E w : work' = [work EXCEPT ![t] = w]
             /\ Look(t) \/ Lock(t) \/ CreateTopic(t) \/ Elsewhere(t)
    BY <1>a, <2>2 DEF Mover, Still
  <2>3. CASE Look(t)
    <3>1. (\E s : Skip(t, s)) \/ (Goto(t, "lock") /\ \E w : work' = [work EXCEPT ![t] = w])
      <4> PICK s \in work[t].todo : \/ Skip(t, s)
                                   \/ /\ Goto(t, "lock")
                                      /\ work' = [work EXCEPT ![t].session = s, ![t].bot = conn.bot, ![t].code = conn.code]
        BY <2>3 DEF Look
      <4> QED
        BY <1>a
    <3> QED
      BY <2>1, <2>2, <2>3, <3>1, SkipsOnward DEF Goto
  <2>4. CASE Lock(t)
    BY <2>1, <2>2, <2>4, SkipsOnward DEF Lock, Goto
  <2>5. CASE CreateTopic(t)
    <3>1. (\E l : pc' = [pc EXCEPT ![t] = l]) /\ \E w : work' = [work EXCEPT ![t] = w]
      BY <1>a, <2>5 DEF CreateTopic, Goto
    <3> QED
      BY <2>2, <2>5, <3>1
  <2>6. CASE CreateFails(t) \/ Bind(t)
    BY <2>1, <2>6, SkipsOnward DEF CreateFails, Bind
  <2>7. CASE Reply(t) \/ Retire(t) \/ Archive(t) \/ Deliver(t)
    <3>1. \/ Finish(t) \/ Onward(t)
          \/ /\ \E l \in {"retire", "archive", "reply"} : pc' = [pc EXCEPT ![t] = l]
             /\ UNCHANGED work \/ \E w : work' = [work EXCEPT ![t] = w]
      BY <1>a, <2>7, ArchivesOnward DEF Reply, Retire, Deliver, Goto
    <3>2. pc[t] \notin AtMaking
      BY <2>7 DEF Reply, Retire, Archive, Deliver, AtMaking, Making
    <3>3. (\E l \in {"retire", "archive", "reply"} : pc' = [pc EXCEPT ![t] = l]) => Elsewhere(t)
      BY <1>a, <3>2 DEF Elsewhere, AtMaking, Making
    <3> QED
      BY <2>1, <2>2, <3>1, <3>3, FinishesOnward
  <2> QED
    BY <1>2, <2>3, <2>4, <2>5, <2>6, <2>7 DEF Work
<1>3. ASSUME NEW t \in Others, CreateSession(t) \/ EndTurn(t) PROVE Mover(t)
  <2>1. /\ pc[t] = "idle" /\ \E l \in {"project", "deliver"} : pc' = [pc EXCEPT ![t] = l]
        /\ \E w : work' = [work EXCEPT ![t] = w]
    BY <1>a, <1>3 DEF CreateSession, EndTurn, Goto
  <2> QED
    BY <1>a, <2>1 DEF Mover, Still, Elsewhere, AtMaking, Making
<1>4. UserCode \/ (\E s \in Sessions : WebArchive(s)) \/ User \/ UNCHANGED vars => UNCHANGED <<pc, work>>
  BY DEF UserCode, WebArchive, User, StartPairing, UserTopic, UserText, UserDeletes, threadVars, vars
<1>5. ASSUME NEW t \in Threads, Fails(t) PROVE Mover(t)
  BY <1>5, FailsOnward, OnwardIsStill DEF Mover
<1> QED
  BY <1>1, <1>2, <1>3, <1>4, <1>5 DEF Next

\* How a thread comes to be where topics are made, and how it leaves.
LEMMA MakerSteps ==
    ASSUME BaseInv, [Next]_vars, NEW t \in Threads
    PROVE  /\ pc'[t] \in AtMaking =>
                \/ pc'[t] = pc[t] /\ work'[t] = work[t]
                \/ Look(t) /\ pc'[t] = "lock" /\ work'[t].code = conn.code /\ work'[t].bot = conn.bot
                \/ Lock(t) /\ pc[t] = "lock" /\ pc'[t] = "create" /\ work'[t] = work[t]
                \/ /\ CreateTopic(t) /\ pc[t] = "create" /\ pc'[t] = "bind"
                   /\ work'[t].code = work[t].code /\ work'[t].bot = work[t].bot
                   /\ work'[t].session = work[t].session /\ work'[t].topic = Len(remote[work[t].bot]) + 1
           /\ pc[t] \in Making /\ pc'[t] \notin Making => Crash \/ CreateFails(t) \/ Bind(t) \/ Fails(t)
<1>a. DOMAIN pc = Threads /\ work \in [Threads -> WorkRecs] /\ work[t] \in WorkRecs
  BY DEF BaseInv, WorkInv
<1>1. CASE Crash
  BY <1>1 DEF Crash, AtMaking, Making
<1>2. CASE UNCHANGED <<pc, work>>
  BY <1>2
<1>3. ASSUME NEW u \in Threads, u # t, Still(u) PROVE pc'[t] = pc[t] /\ work'[t] = work[t]
  BY <1>3 DEF Still
<1>4. CASE Look(t)
  <2>1. pc[t] = "project"
    BY <1>4 DEF Look
  <2>2. PICK s \in work[t].todo : \/ Skip(t, s)
                                  \/ /\ Goto(t, "lock")
                                     /\ work' = [work EXCEPT ![t].session = s, ![t].bot = conn.bot, ![t].code = conn.code]
    BY <1>4 DEF Look
  <2>3. CASE Skip(t, s)
    BY <2>1, <2>3, SkipsOnward, OnwardIsStill DEF AtMaking, Making
  <2>4. CASE /\ Goto(t, "lock")
             /\ work' = [work EXCEPT ![t].session = s, ![t].bot = conn.bot, ![t].code = conn.code]
    BY <1>a, <1>4, <2>1, <2>4 DEF Goto, WorkRecs, Making
  <2> QED
    BY <2>2, <2>3, <2>4
<1>5. CASE Lock(t)
  <2>1. pc[t] = "lock"
    BY <1>5 DEF Lock
  <2>2. CASE Skip(t, work[t].session)
    BY <2>1, <2>2, SkipsOnward, OnwardIsStill DEF AtMaking, Making
  <2>3. CASE Goto(t, "create") /\ UNCHANGED work
    BY <1>a, <1>5, <2>1, <2>3 DEF Goto, Making
  <2> QED
    BY <1>5, <2>2, <2>3 DEF Lock
<1>6. CASE CreateTopic(t)
  BY <1>a, <1>6 DEF CreateTopic, Goto, WorkRecs, Making
<1>7. CASE CreateFails(t) \/ Bind(t)
  <2>1. Skip(t, work[t].session)
    BY <1>7 DEF CreateFails, Bind
  <2> QED
    BY <1>7, <2>1, SkipsOnward, OnwardIsStill DEF AtMaking, Making
<1>8. CASE Elsewhere(t)
  BY <1>8 DEF Elsewhere, AtMaking
<1>9. CASE Fails(t)
  BY <1>9, FailsOnward, OnwardIsStill DEF AtMaking, Making
<1> QED
  BY <1>1, <1>2, <1>3, <1>4, <1>5, <1>6, <1>7, <1>8, <1>9, Movers DEF Mover

LEMMA PlanStep == BaseInv /\ PlanInv /\ [Next]_vars => PlanInv'
<1> SUFFICES ASSUME BaseInv, PlanInv, [Next]_vars, NEW t \in Threads, pc'[t] \in AtMaking
             PROVE  work'[t].code <= conn'.code /\ (work'[t].code = conn'.code => work'[t].bot = conn'.bot)
  BY DEF PlanInv
<1>a. conn.code \in Nat /\ work[t].code \in Nat
  BY Counts DEF BaseInv, WorkInv, WorkRecs
<1>1. CASE \E b \in Bots : StartPairing(b)
  <2>1. conn'.code = conn.code + 1 /\ UNCHANGED <<pc, work>>
    BY <1>1 DEF StartPairing, threadVars
  <2> QED
    BY <1>a, <2>1 DEF PlanInv
<1>2. CASE ~\E b \in Bots : StartPairing(b)
  <2>1. conn'.bot = conn.bot /\ conn'.code = conn.code
    BY <1>2, RowKept
  <2>2. \/ pc[t] \in AtMaking /\ work'[t].code = work[t].code /\ work'[t].bot = work[t].bot
        \/ work'[t].code = conn.code /\ work'[t].bot = conn.bot
    BY MakerSteps DEF AtMaking, Making
  <2> QED
    BY <1>a, <2>1, <2>2 DEF PlanInv
<1> QED
  BY <1>1, <1>2

\* Which mappings a step makes, for a session made in the browser.
LEMMA BindsOnly ==
    ASSUME BaseInv, [Next]_vars, NEW s \in WebIds, NEW n \in Numbers, bound'[n] = s, bound[n] # s
    PROVE  \E t \in Threads : /\ Bind(t) /\ work[t].session = s /\ work[t].topic = n /\ ~BoundTo(s)
                              /\ bound' = [bound EXCEPT ![n] = s]
<1>a. bound \in [Numbers -> Sessions \cup {0}] /\ s # 0
  BY Numbering DEF BaseInv, TypeInv, TypeOK
<1>1. CASE Claim
  BY <1>a, <1>1 DEF Claim
<1>2. ASSUME NEW b \in Bots, StartPairing(b) PROVE FALSE
  BY <1>a, <1>2 DEF StartPairing
<1>3. ASSUME NEW t \in Threads, Archive(t) PROVE FALSE
  <2>1. bound' = bound \/ bound' = [bound EXCEPT ![work[t].topic] = 0]
    BY <1>3 DEF Archive
  <2> QED
    BY <1>a, <2>1
<1>4. ASSUME NEW t \in Threads, Bind(t)
      PROVE  work[t].session = s /\ work[t].topic = n /\ ~BoundTo(s) /\ bound' = [bound EXCEPT ![n] = s]
  <2>1. bound' = bound \/ (bound' = [bound EXCEPT ![work[t].topic] = work[t].session] /\ ~BoundTo(work[t].session))
    BY <1>4 DEF Bind
  <2> QED
    BY <1>a, <2>1
<1> QED
  BY <1>1, <1>2, <1>3, <1>4, WhoWrites DEF Writers, BoundWritten

LEMMA BoundStep == BaseInv /\ BoundInv /\ [Next]_vars => BoundInv'
<1> SUFFICES ASSUME BaseInv, BoundInv, [Next]_vars,
                    NEW s \in WebIds, NEW m \in Numbers, NEW n \in Numbers, bound'[m] = s, bound'[n] = s
             PROVE  m = n
  BY DEF BoundInv
<1>a. bound \in [Numbers -> Sessions \cup {0}]
  BY DEF BaseInv, TypeInv, TypeOK
<1>1. CASE bound[m] = s /\ bound[n] = s
  BY <1>1 DEF BoundInv
<1>2. ASSUME NEW k \in Numbers, bound[k] # s, bound'[k] = s, NEW l \in Numbers, bound'[l] = s PROVE l = k
  <2>1. ~BoundTo(s) /\ bound' = [bound EXCEPT ![k] = s]
    BY <1>2, BindsOnly
  <2> QED
    BY <1>a, <1>2, <2>1 DEF BoundTo
<1> QED
  BY <1>1, <1>2

LEMMA AloneStep == BaseInv /\ AloneInv /\ [Next]_vars => AloneInv'
<1> SUFFICES ASSUME BaseInv, AloneInv, [Next]_vars PROVE AloneInv'
  OBVIOUS
<1>a. \A t \in Threads : pc'[t] \in Making => pc'[t] \in AtMaking
  BY DEF AtMaking
<1>b. \A t \in Threads : pc'[t] \in Making =>
         \/ pc[t] \in Making /\ work'[t].session = work[t].session
         \/ Lock(t) /\ pc[t] = "lock" /\ work'[t] = work[t] /\ pc'[t] = "create"
  BY <1>a, MakerSteps DEF Making
<1>c. ASSUME NEW t \in Threads, Lock(t), pc'[t] = "create"
      PROVE  /\ work[t].session \notin sessionLock /\ sessionLock' = sessionLock \cup {work[t].session}
             /\ ~BoundTo(work[t].session) /\ UNCHANGED bound
  <2>1. ~Skip(t, work[t].session)
    <3>1. Skip(t, work[t].session) => pc'[t] \in {"project", "save", "idle"}
      BY SkipsOnward, OnwardIsStill
    <3> QED
      BY <1>c, <3>1
  <2> QED
    BY <1>c, <2>1 DEF Lock, Projected, rowVars
<1>d. ASSUME NEW t \in Threads, pc'[t] \in Making, NEW u \in Threads, CreateFails(u) \/ Bind(u) \/ Fails(u)
      PROVE  t # u
  <2>1. CreateFails(u) \/ Bind(u) => Skip(u, work[u].session)
    BY DEF CreateFails, Bind
  <2>2. pc'[u] \in {"project", "save", "idle"}
    BY <1>d, <2>1, SkipsOnward, FailsOnward, OnwardIsStill
  <2> QED
    BY <1>d, <2>2 DEF Making
<1>1. ASSUME NEW t \in Threads, pc'[t] \in Making, NEW u \in Threads, pc'[u] \in Making,
             work'[t].session = work'[u].session
      PROVE  t = u
  <2>1. CASE pc[t] \in Making /\ pc[u] \in Making
    BY <1>1, <1>b, <2>1 DEF AloneInv, Making
  <2>2. CASE Lock(t) /\ Lock(u)
    <3>1. ASSUME t # u PROVE FALSE
      <4>1. pc[t] = "lock" /\ pc[u] = "lock" /\ pc'[t] = "create" /\ pc'[u] = "create"
        BY <1>1, <1>b, <2>2 DEF Lock, Making
      <4>2. Crash \/ UNCHANGED <<pc, work>> \/ \E v \in Threads : Still(v)
        BY Movers DEF Mover
      <4>3. ~Crash
        BY <4>1 DEF Crash
      <4> QED
        BY <3>1, <4>1, <4>2, <4>3 DEF Still
    <3> QED
      BY <3>1
  <2>3. ASSUME NEW v \in Threads, NEW w \in Threads, Lock(v), pc'[v] = "create", pc[w] \in Making,
               work[v].session = work[w].session
        PROVE  FALSE
    BY <1>c, <2>3 DEF AloneInv
  <2> QED
    BY <1>1, <1>b, <2>1, <2>2, <2>3
<1>2. ASSUME NEW t \in Threads, pc'[t] \in Making PROVE work'[t].session \in sessionLock'
  <2>1. CASE Lock(t) /\ pc'[t] = "create" /\ work'[t] = work[t]
    BY <1>c, <2>1
  <2>2. CASE pc[t] \in Making /\ work'[t].session = work[t].session
    <3>1. work[t].session \in sessionLock
      BY <2>2 DEF AloneInv
    <3>2. ~Crash
      BY <1>2 DEF Crash, Making
    <3>3. ASSUME NEW u \in Threads, Lock(u) PROVE sessionLock \subseteq sessionLock'
      BY <3>3 DEF Lock
    <3>4. ASSUME NEW u \in Threads, CreateFails(u) \/ Bind(u) PROVE work[t].session \in sessionLock'
      <4>1. t # u /\ pc[u] \in Making
        BY <1>2, <1>d, <3>4 DEF CreateFails, Bind, Making
      <4>2. work[t].session # work[u].session
        BY <2>2, <4>1 DEF AloneInv
      <4> QED
        BY <3>1, <3>4, <4>2 DEF CreateFails, Bind, Unlock
    <3>5. ASSUME NEW u \in Threads, Fails(u) PROVE work[t].session \in sessionLock'
      <4>1. t # u
        BY <1>2, <1>d, <3>5
      <4>2. pc[u] \in Making => work[t].session # work[u].session
        BY <2>2, <4>1 DEF AloneInv
      <4> QED
        BY <3>1, <3>5, <4>2 DEF Fails, Making
    <3> QED
      BY <2>2, <3>1, <3>2, <3>3, <3>4, <3>5, WhoWrites DEF Writers, LockWritten
  <2> QED
    BY <1>2, <1>b, <2>1, <2>2
<1>3. ASSUME NEW t \in Threads, pc'[t] \in Making PROVE \A n \in Numbers : bound'[n] # work'[t].session
  <2> DEFINE s == work'[t].session
  <2>0. s \in WebIds
    BY <1>3, WorkStep DEF WorkInv, Fits
  <2> HIDE DEF s
  <2>1. ~BoundTo(s)
    BY <1>3, <1>b, <1>c DEF AloneInv, s
  <2>2. ASSUME NEW n \in Numbers, bound'[n] = s PROVE FALSE
    <3>1. bound[n] # s
      BY <2>1 DEF BoundTo
    <3> PICK u \in Threads : Bind(u) /\ work[u].session = s
      BY <2>0, <2>2, <3>1, BindsOnly
    <3>2. t # u /\ pc[u] \in Making
      BY <1>3, <1>d DEF Bind, Making
    <3>3. CASE pc[t] \in Making /\ work'[t].session = work[t].session
      BY <3>2, <3>3 DEF AloneInv, s
    <3>4. CASE Lock(t) /\ pc'[t] = "create"
      BY <1>c, <2>2, <3>1, <3>4
    <3> QED
      BY <1>3, <1>b, <3>3, <3>4
  <2> QED
    BY <2>2 DEF s
<1> QED
  BY <1>1, <1>2, <1>3 DEF AloneInv, BoundTo

\* An open topic was open before, or is the new last one of its bot.
Grown(c, r) == [remote EXCEPT ![c] = Append(@, r)]
LEMMA AppendOpens ==
    ASSUME BaseInv, NEW c \in Bots, NEW r \in TopicRecs, remote' = Grown(c, r),
           NEW b \in Bots, NEW n \in Nat, Open(b, n)'
    PROVE  \/ Open(b, n) /\ remote'[b][n] = remote[b][n]
           \/ b = c /\ n = Len(remote[c]) + 1 /\ remote'[b][n] = r
<1>1. remote \in [Bots -> Seq(TopicRecs)]
  BY DEF BaseInv, TypeInv
<1>2. CASE b # c
  BY <1>1, <1>2 DEF Open, Grown
<1>3. CASE b = c
  <2> DEFINE q == remote[c]
  <2>1. q \in Seq(TopicRecs) /\ remote'[b] = Append(q, r) /\ n \in DOMAIN remote'[b] /\ remote'[b][n].open
    BY <1>1, <1>3 DEF Open, Grown
  <2> HIDE DEF q
  <2>2. n \in 1..(Len(q) + 1)
    BY <2>1
  <2>3. n \in 1..Len(q) => n \in DOMAIN q /\ Append(q, r)[n] = q[n]
    BY <2>1
  <2>4. n = Len(q) + 1 => Append(q, r)[n] = r
    BY <2>1
  <2> QED
    BY <1>3, <2>1, <2>2, <2>3, <2>4 DEF Open, q
<1> QED
  BY <1>2, <1>3

LEMMA CloseOpens ==
    ASSUME BaseInv, NEW c \in Bots, NEW m, remote' = Close(c, m),
           NEW b \in Bots, NEW n \in Nat, Open(b, n)'
    PROVE  Open(b, n) /\ remote'[b][n] = remote[b][n] /\ ~(b = c /\ n = m)
<1>1. remote \in [Bots -> Seq(TopicRecs)]
  BY DEF BaseInv, TypeInv
<1>2. CASE ~Open(c, m)
  BY <1>2 DEF Open, Close
<1>3. CASE Open(c, m)
  <2> DEFINE q == remote[c]
             r == [q[m] EXCEPT !.open = FALSE]
             p == [q EXCEPT ![m] = r]
  <2>1. remote' = [remote EXCEPT ![c] = p]
    BY <1>1, <1>3 DEF Close
  <2>2. q \in Seq(TopicRecs) /\ m \in DOMAIN q
    BY <1>1, <1>3 DEF Open
  <2>3. q[m] \in TopicRecs
    BY <2>2
  <2>4. r.open = FALSE
    BY <2>3 DEF TopicRecs
  <2> HIDE DEF r, q
  <2>5. b # c => remote'[b] = remote[b]
    BY <1>1, <2>1
  <2>6. b = c => remote'[b] = p
    BY <1>1, <2>1
  <2>7. DOMAIN p = DOMAIN q /\ p[m] = r /\ (n \in DOMAIN q /\ n # m => p[n] = q[n])
    BY <2>2
  <2> HIDE DEF p
  <2>8. b = c => n # m
    BY <2>4, <2>6, <2>7 DEF Open
  <2>9. b = c => Open(b, n) /\ remote'[b][n] = remote[b][n]
    BY <2>6, <2>7, <2>8 DEF Open, q
  <2> QED
    BY <2>5, <2>8, <2>9 DEF Open
<1> QED
  BY <1>2, <1>3

Makes(t) == CreateTopic(t) \/ (CreateFails(t) /\ faults' = faults + 1)

LEMMA OpensBy ==
    ASSUME BaseInv, [Next]_vars, NEW b \in Bots, NEW n \in Nat, Open(b, n)'
    PROVE  \/ Open(b, n) /\ remote'[b][n] = remote[b][n]
           \/ remote'[b][n].session = 0 /\ remote'[b][n].code = 0
           \/ \E t \in Threads : Makes(t) /\ b = work[t].bot /\ n = Len(remote[b]) + 1 /\ remote'[b][n] = Made(t)
<1>a. conn.bot \in Bots
  BY Counts
<1>1. CASE UNCHANGED remote
  BY <1>1 DEF Open
<1>2. CASE CloseTopic
  <2>1. remote' = remote \/ remote' = Close(conn.bot, work["poller"].topic)
    BY <1>2 DEF CloseTopic
  <2> QED
    BY <1>a, <1>1, <2>1, CloseOpens
<1>3. ASSUME NEW c \in Bots, UserTopic(c)
      PROVE  (Open(b, n) /\ remote'[b][n] = remote[b][n]) \/ (remote'[b][n].session = 0 /\ remote'[b][n].code = 0)
  <2> DEFINE r == [open |-> TRUE, session |-> 0, code |-> 0]
  <2>1. r \in TopicRecs /\ r.session = 0 /\ r.code = 0
    BY DEF TopicRecs
  <2>2. remote' = Grown(c, r)
    BY <1>3 DEF UserTopic, Grown
  <2> HIDE DEF r
  <2> QED
    BY <2>1, <2>2, AppendOpens
<1>4. ASSUME NEW c \in Bots, UserDeletes(c) PROVE Open(b, n) /\ remote'[b][n] = remote[b][n]
  <2> PICK m \in Numbers : remote' = Close(c, m)
    BY <1>4 DEF UserDeletes
  <2> QED
    BY CloseOpens
<1>5. ASSUME NEW t \in Threads, CreateTopic(t) \/ CreateFails(t) \/ Bind(t)
      PROVE  \/ Open(b, n) /\ remote'[b][n] = remote[b][n]
             \/ Makes(t) /\ b = work[t].bot /\ n = Len(remote[b]) + 1 /\ remote'[b][n] = Made(t)
  <2>1. work[t] \in WorkRecs
    BY DEF BaseInv, WorkInv
  <2>2. work[t].bot \in Bots /\ Made(t) \in TopicRecs
    BY <2>1 DEF WorkRecs, Made, TopicRecs
  <2>3. \/ UNCHANGED remote
        \/ Makes(t) /\ remote' = Grown(work[t].bot, Made(t))
        \/ remote' = Close(work[t].bot, work[t].topic)
    BY <1>5 DEF CreateTopic, CreateFails, Bind, Makes, Grown
  <2>4. CASE UNCHANGED remote
    BY <2>4 DEF Open
  <2>5. CASE Makes(t) /\ remote' = Grown(work[t].bot, Made(t))
    <3> DEFINE c == work[t].bot
               r == Made(t)
    <3>1. c \in Bots /\ r \in TopicRecs /\ remote' = Grown(c, r)
      BY <2>2, <2>5
    <3> HIDE DEF c, r
    <3>2. \/ Open(b, n) /\ remote'[b][n] = remote[b][n]
          \/ b = c /\ n = Len(remote[c]) + 1 /\ remote'[b][n] = r
      BY <3>1, AppendOpens
    <3> QED
      BY <2>5, <3>2 DEF c, r
  <2>6. CASE remote' = Close(work[t].bot, work[t].topic)
    BY <2>2, <2>6, CloseOpens
  <2> QED
    BY <2>3, <2>4, <2>5, <2>6
<1> QED
  BY <1>1, <1>2, <1>3, <1>4, <1>5, WhoWrites DEF Writers, RemoteWritten

LEMMA CodeStep == BaseInv /\ PlanInv /\ CodeInv /\ [Next]_vars => CodeInv'
<1> SUFFICES ASSUME BaseInv, PlanInv, CodeInv, [Next]_vars,
                    NEW b \in Bots, NEW n \in Numbers, Open(b, n)'
             PROVE  remote'[b][n].code <= conn'.code /\ (remote'[b][n].code = conn'.code => b = conn'.bot)
  BY DEF CodeInv
<1>a. conn.code \in Nat /\ conn.code # 0 /\ conn'.code \in Nat /\ conn'.code # 0
  <2>1. TypeOK /\ TypeOK'
    BY TypeStep DEF BaseInv, TypeInv
  <2> QED
    BY <2>1, Numbering DEF TypeOK
<1>b. n \in Nat
  BY DEF Numbers
<1>c. Open(b, n) => remote[b][n].code \in Nat
  <2>1. remote \in [Bots -> Seq(TopicRecs)]
    BY DEF BaseInv, TypeInv
  <2>2. ASSUME Open(b, n) PROVE remote[b][n] \in TopicRecs
    BY <2>1, <2>2 DEF Open
  <2> QED
    BY <2>2 DEF TopicRecs
<1>1. CASE \E c \in Bots : StartPairing(c)
  <2>1. conn'.code = conn.code + 1 /\ UNCHANGED remote
    BY <1>1 DEF StartPairing, telegramVars
  <2>2. Open(b, n)
    BY <2>1 DEF Open
  <2> QED
    BY <1>a, <1>c, <2>1, <2>2 DEF CodeInv
<1>2. CASE ~\E c \in Bots : StartPairing(c)
  <2>1. conn'.bot = conn.bot /\ conn'.code = conn.code
    BY <1>2, RowKept
  <2>2. CASE Open(b, n) /\ remote'[b][n] = remote[b][n]
    BY <2>1, <2>2 DEF CodeInv
  <2>3. CASE remote'[b][n].session = 0 /\ remote'[b][n].code = 0
    BY <1>a, <2>3
  <2>4. ASSUME NEW t \in Threads, Makes(t), b = work[t].bot, remote'[b][n] = Made(t)
        PROVE  remote'[b][n].code <= conn'.code /\ (remote'[b][n].code = conn'.code => b = conn'.bot)
    <3>1. pc[t] \in AtMaking
      BY <2>4 DEF Makes, CreateTopic, CreateFails, AtMaking, Making
    <3>2. Made(t).code = work[t].code
      BY DEF Made
    <3> QED
      BY <2>1, <2>4, <3>1, <3>2 DEF PlanInv
  <2> QED
    BY <1>b, <2>2, <2>3, <2>4, OpensBy
<1> QED
  BY <1>1, <1>2

LEMMA MakeStep == BaseInv /\ MakeInv /\ [Next]_vars => MakeInv'
  BY PlanStep, AloneStep, BoundStep, CodeStep DEF MakeInv

\* A number is not tombed and its mapping kept otherwise.
LEMMA MappingStays ==
    ASSUME BaseInv, [Next]_vars, ~\E b \in Bots : StartPairing(b)
    PROVE  /\ tomb \subseteq tomb'
           /\ \A n \in Numbers : bound[n] # 0 /\ n \notin tomb' => bound'[n] = bound[n]
<1>a. bound \in [Numbers -> Sessions \cup {0}]
  BY DEF BaseInv, TypeInv, TypeOK
<1>1. CASE UNCHANGED <<bound, tomb>>
  BY <1>1
<1>2. CASE Claim
  BY <1>a, <1>2 DEF Claim
<1>3. ASSUME NEW t \in Threads, Bind(t)
      PROVE  tomb' = tomb /\ \A n \in Numbers : bound[n] # 0 => bound'[n] = bound[n]
  <2> DEFINE m == work[t].topic
  <2>1. tomb' = tomb /\ (bound' = bound \/ (bound[m] = 0 /\ bound' = [bound EXCEPT ![m] = work[t].session]))
    BY <1>3 DEF Bind
  <2> HIDE DEF m
  <2> QED
    BY <1>a, <2>1
<1>4. ASSUME NEW t \in Threads, Archive(t)
      PROVE  tomb \subseteq tomb' /\ \A n \in Numbers : bound[n] # 0 /\ n \notin tomb' => bound'[n] = bound[n]
  <2> DEFINE m == work[t].topic
  <2>1. tomb \subseteq tomb' /\ (bound[m] # 0 => m \in tomb' \/ bound' = bound)
    BY <1>4 DEF Archive
  <2>2. bound' = bound \/ bound' = [bound EXCEPT ![m] = 0]
    BY <1>4 DEF Archive
  <2> HIDE DEF m
  <2> QED
    BY <1>a, <2>1, <2>2
<1> QED
  BY <1>1, <1>2, <1>3, <1>4, WhoWrites DEF Writers, BoundWritten

\* Where a topic that nobody will bind comes from: a death or a failure before its mapping,
\* or a call that failed after Telegram made it.
Loses(t, s, b, n) == (Fails(t) \/ (Bind(t) /\ faults' = faults + 1)) /\ Binds(t, s, b, n)
LostBy(s, b, n) ==
    \/ Crash /\ \E t \in Threads : Binds(t, s, b, n)
    \/ \E t \in Threads : Loses(t, s, b, n)
    \/ \E t \in Threads : CreateFails(t) /\ faults' = faults + 1 /\ b = work[t].bot /\ n = Len(remote[b]) + 1

LEMMA NewStray ==
    ASSUME BaseInv, MakeInv, [Next]_vars, NEW s \in WebIds, NEW b \in Bots, NEW n \in Numbers,
           Stray(s, b, n)', ~Stray(s, b, n)
    PROVE  LostBy(s, b, n)
<1>a. s # 0 /\ n \in Nat
  BY Numbering DEF Numbers
<1>b. Open(b, n)' /\ remote'[b][n].session = s /\ remote'[b][n].code = conn'.code /\ n \notin tomb' /\ bound'[n] # s
  BY DEF Stray, Mine
<1>c. ASSUME NEW t \in Threads
      PROVE  ~(pc'[t] = "bind" /\ work'[t].session = s /\ work'[t].bot = b /\ work'[t].topic = n)
  BY DEF Stray, Binds
<1>1. ASSUME NEW c \in Bots, StartPairing(c) PROVE FALSE
  <2>1. conn'.code = conn.code + 1 /\ UNCHANGED remote
    BY <1>1 DEF StartPairing, telegramVars
  <2>2. Open(b, n) /\ remote[b][n].code = conn.code + 1
    BY <1>b, <2>1 DEF Open
  <2>3. remote[b][n].code <= conn.code /\ conn.code \in Nat
    BY <2>2, Counts DEF MakeInv, CodeInv
  <2> QED
    BY <2>2, <2>3
<1>2. conn'.code = conn.code /\ tomb \subseteq tomb' /\ (bound[n] # 0 => bound'[n] = bound[n])
  BY <1>1, <1>b, RowKept, MappingStays
<1>3. CASE Open(b, n) /\ remote'[b][n] = remote[b][n]
  <2>1. Mine(s, b, n) /\ bound[n] # s
    BY <1>a, <1>b, <1>2, <1>3 DEF Mine
  <2> PICK t \in Threads : Binds(t, s, b, n)
    BY <2>1 DEF Stray
  <2>2. pc[t] = "bind" /\ work[t].session = s /\ work[t].bot = b /\ work[t].topic = n
    BY DEF Binds
  <2>3. CASE Crash
    BY <2>3 DEF LostBy
  <2>6. CASE Fails(t) \/ (Bind(t) /\ faults' = faults + 1)
    BY <2>6 DEF LostBy, Loses
  <2>4. CASE Bind(t) /\ ~(faults' = faults + 1)
    <3>1. ~BoundTo(s)
      BY <2>2 DEF MakeInv, AloneInv, Making
    <3>2. CASE bound[n] = 0
      <4>1. bound' = [bound EXCEPT ![n] = s] /\ bound \in [Numbers -> Sessions \cup {0}]
        BY <2>2, <2>4, <3>1, <3>2 DEF Bind, BaseInv, TypeInv, TypeOK
      <4> QED
        BY <1>b, <4>1
    <3>3. CASE bound[n] # 0
      <4>1. remote' = Close(b, n)
        BY <2>2, <2>4, <3>3 DEF Bind
      <4> QED
        BY <1>a, <1>b, <4>1, CloseOpens
    <3> QED
      BY <3>2, <3>3
  <2>5. CASE ~Crash /\ ~Bind(t) /\ ~Fails(t)
    <3>1. ~CreateFails(t) /\ ~Lock(t) /\ ~CreateTopic(t) /\ ~Look(t)
      BY <2>2 DEF CreateFails, Lock, CreateTopic, Look
    <3>2. pc'[t] = pc[t] /\ work'[t] = work[t]
      BY <2>2, <2>5, <3>1, MakerSteps DEF AtMaking, Making
    <3> QED
      BY <1>c, <2>2, <3>2
  <2> QED
    BY <2>3, <2>4, <2>5, <2>6
<1>4. CASE remote'[b][n].session = 0
  BY <1>a, <1>b, <1>4
<1>5. ASSUME NEW t \in Threads, Makes(t), b = work[t].bot, n = Len(remote[b]) + 1, remote'[b][n] = Made(t)
      PROVE  LostBy(s, b, n)
  <2>1. work[t].session = s
    BY <1>b, <1>5 DEF Made
  <2>2. ~CreateTopic(t)
    <3>1. ASSUME CreateTopic(t) PROVE pc'[t] = "bind" /\ work'[t] = [work[t] EXCEPT !.topic = Len(remote[b]) + 1]
      BY <1>5, <3>1 DEF CreateTopic, Goto, BaseInv, WorkInv
    <3>2. work[t] \in WorkRecs
      BY DEF BaseInv, WorkInv
    <3>3. ASSUME CreateTopic(t) PROVE work'[t].session = s /\ work'[t].bot = b /\ work'[t].topic = n
      BY <1>5, <2>1, <3>1, <3>2, <3>3 DEF WorkRecs
    <3> QED
      BY <1>c, <3>1, <3>3
  <2> QED
    BY <1>5, <2>2 DEF Makes, LostBy
<1> QED
  BY <1>a, <1>b, <1>3, <1>4, <1>5, OpensBy

\* A step loses one topic of a session at most, and counts it.
LEMMA OneIsLost ==
    ASSUME BaseInv, AloneInv, [Next]_vars, NEW s \in WebIds,
           NEW b \in Bots, NEW n \in Numbers, LostBy(s, b, n),
           NEW c \in Bots, NEW m \in Numbers, LostBy(s, c, m)
    PROVE  b = c /\ n = m
<1>1. ASSUME NEW t \in Threads, NEW u \in Threads, Binds(t, s, b, n), Binds(u, s, c, m) PROVE b = c /\ n = m
  BY <1>1 DEF Binds, AloneInv, Making
<1>2. ASSUME NEW t \in Threads, CreateFails(t) PROVE pc[t] = "create" /\ pc'[t] # "create" /\ Still(t) /\ ~Crash
  <2>1. Skip(t, work[t].session) /\ pc[t] = "create" /\ UNCHANGED crashes
    BY <1>2 DEF CreateFails
  <2>2. ~Crash
    BY <2>1, Counts DEF Crash
  <2> QED
    BY <2>1, <2>2, SkipsOnward, OnwardIsStill
<1>3. ASSUME NEW t \in Threads, NEW u \in Threads, CreateFails(t), CreateFails(u) PROVE t = u
  BY <1>2, <1>3 DEF Still
<1>4. ASSUME NEW t \in Threads, NEW u \in Threads, CreateFails(t), NEW d, NEW k, Loses(u, s, d, k) PROVE FALSE
  <2>1. pc[u] = "bind" /\ pc'[u] # "bind"
    <3>1. Bind(u) => Skip(u, work[u].session)
      BY DEF Bind
    <3> QED
      BY <1>4, <3>1, SkipsOnward, FailsOnward, OnwardIsStill DEF Loses, Binds
  <2> QED
    BY <1>2, <1>4, <2>1 DEF Still
<1>5. \A t \in Threads : \A d, k : Loses(t, s, d, k) => Binds(t, s, d, k)
  BY DEF Loses
<1> QED
  BY <1>1, <1>2, <1>3, <1>4, <1>5 DEF LostBy

LEMMA LossesCount ==
    ASSUME BaseInv, [Next]_vars
    PROVE  /\ crashes + faults \in Nat /\ crashes' + faults' \in Nat /\ crashes + faults <= crashes' + faults'
           /\ \A s, b, n : LostBy(s, b, n) => crashes' + faults' = crashes + faults + 1
<1>1. crashes \in Nat /\ faults \in Nat
  BY DEF BaseInv, TypeInv
<1>2. Crash => crashes' = crashes + 1 /\ faults' = faults
  BY DEF Crash
<1>3. Fault => crashes' = crashes /\ faults' = faults + 1
  BY DEF Fault
<1>4. UNCHANGED faultVars \/ Crash \/ Fault
  BY WhoWrites DEF Writers
<1>5. \A s, b, n : LostBy(s, b, n) => Crash \/ (crashes' = crashes /\ faults' = faults + 1)
  BY DEF LostBy, Loses, Fails, Bind, CreateFails
<1> QED
  BY <1>1, <1>2, <1>3, <1>4, <1>5 DEF faultVars

LEMMA TopicsFinite == IsFiniteSet(Bots \X Numbers)
<1>1. IsFiniteSet(Numbers)
  BY Numbering, FS_Interval DEF Numbers
<1> QED
  BY <1>1, FS_Product, TopicConstants DEF TopicConstants

\* A set of topics with one more at most.
LEMMA OneMoreTopic ==
    ASSUME NEW S \in SUBSET (Bots \X Numbers), NEW T, NEW x, T \subseteq S \cup {x}
    PROVE  Cardinality(S) \in Nat /\ Cardinality(T) \in Nat /\ Cardinality(T) <= Cardinality(S) + 1
<1>1. IsFiniteSet(S)
  BY TopicsFinite, FS_Subset
<1>2. IsFiniteSet(S \cup {x}) /\ Cardinality(S) \in Nat /\ Cardinality(S \cup {x}) <= Cardinality(S) + 1
  BY <1>1, FS_AddElement, FS_CardinalityType
<1>3. IsFiniteSet(T) /\ Cardinality(T) <= Cardinality(S \cup {x})
  BY <1>2, FS_Subset
<1> QED
  BY <1>2, <1>3, FS_CardinalityType

LEMMA StrayStep == BaseInv /\ MakeInv /\ StrayInv /\ [Next]_vars => StrayInv'
<1> SUFFICES ASSUME BaseInv, MakeInv, StrayInv, [Next]_vars, NEW s \in WebIds
             PROVE  Cardinality(Strays(s)') <= crashes' + faults'
  BY DEF StrayInv
<1>a. Strays(s) \in SUBSET (Bots \X Numbers) /\ Strays(s)' \in SUBSET (Bots \X Numbers)
  BY DEF Strays
<1>b. Cardinality(Strays(s)) <= crashes + faults
  BY DEF StrayInv
<1>c. \A b \in Bots, n \in Numbers : <<b, n>> \in Strays(s)' /\ <<b, n>> \notin Strays(s) => LostBy(s, b, n)
  <2> SUFFICES ASSUME NEW b \in Bots, NEW n \in Numbers, <<b, n>> \in Strays(s)', <<b, n>> \notin Strays(s)
               PROVE  LostBy(s, b, n)
    OBVIOUS
  <2>1. Stray(s, b, n)' /\ ~Stray(s, b, n)
    BY DEF Strays
  <2> QED
    BY <2>1, NewStray
<1>1. CASE \E b \in Bots, n \in Numbers : LostBy(s, b, n)
  <2> PICK b \in Bots, n \in Numbers : LostBy(s, b, n)
    BY <1>1
  <2> DEFINE x == <<b, n>>
  <2>1. \A c \in Bots, m \in Numbers : LostBy(s, c, m) => <<c, m>> = x
    BY OneIsLost DEF MakeInv
  <2>2. Strays(s)' \subseteq Strays(s) \cup {x}
    <3> SUFFICES ASSUME NEW y \in Strays(s)', y \notin Strays(s) PROVE y = x
      OBVIOUS
    <3> PICK c \in Bots, m \in Numbers : y = <<c, m>>
      BY <1>a
    <3> QED
      BY <1>c, <2>1
  <2> HIDE DEF x
  <2>3. Cardinality(Strays(s)) \in Nat /\ Cardinality(Strays(s)') \in Nat
        /\ Cardinality(Strays(s)') <= Cardinality(Strays(s)) + 1
    BY <1>a, <2>2, OneMoreTopic
  <2>4. crashes' + faults' = crashes + faults + 1 /\ crashes + faults \in Nat
    BY LossesCount
  <2> QED
    BY <1>b, <2>3, <2>4
<1>2. CASE ~\E b \in Bots, n \in Numbers : LostBy(s, b, n)
  <2>1. Strays(s)' \subseteq Strays(s)
    <3> SUFFICES ASSUME NEW y \in Strays(s)' PROVE y \in Strays(s)
      OBVIOUS
    <3> PICK c \in Bots, m \in Numbers : y = <<c, m>>
      BY <1>a
    <3> QED
      BY <1>c, <1>2
  <2>2. IsFiniteSet(Strays(s))
    BY <1>a, TopicsFinite, FS_Subset
  <2>3. Cardinality(Strays(s)) \in Nat /\ Cardinality(Strays(s)') \in Nat
        /\ Cardinality(Strays(s)') <= Cardinality(Strays(s))
    BY <2>1, <2>2, FS_Subset, FS_CardinalityType
  <2> QED
    BY <1>b, <2>3, LossesCount
<1> QED
  BY <1>1, <1>2

\* The topics of a session that are not strays are one: the one about to be bound, or
\* the one that is.
LEMMA OneIsNoStray == BaseInv /\ MakeInv /\ StrayInv => OneTopicPerSession
<1> SUFFICES ASSUME BaseInv, MakeInv, StrayInv, NEW s \in WebIds
             PROVE  Cardinality(TopicsOf(s, conn.code)) <= 1 + crashes + faults
  BY DEF OneTopicPerSession
<1> DEFINE T == TopicsOf(s, conn.code)
<1>a. Strays(s) \in SUBSET (Bots \X Numbers) /\ Cardinality(Strays(s)) <= crashes + faults
  BY DEF Strays, StrayInv
<1>b. crashes \in Nat /\ faults \in Nat
  BY DEF BaseInv, TypeInv
<1>c. ASSUME NEW y \in T, y \notin Strays(s)
      PROVE  \E n \in Numbers : y = <<conn.bot, n>> /\ (bound[n] = s \/ \E t \in Threads : Binds(t, s, conn.bot, n))
  <2> PICK b \in Bots, n \in Numbers : y = <<b, n>>
    BY DEF TopicsOf
  <2>1. Mine(s, b, n)
    BY DEF TopicsOf, Mine
  <2>2. b = conn.bot
    BY <2>1 DEF Mine, MakeInv, CodeInv
  <2>3. ~Stray(s, b, n)
    BY <1>c DEF Strays
  <2> QED
    BY <2>1, <2>2, <2>3 DEF Stray
<1>d. ASSUME NEW m \in Numbers, NEW n \in Numbers,
             bound[m] = s \/ \E t \in Threads : Binds(t, s, conn.bot, m),
             bound[n] = s \/ \E t \in Threads : Binds(t, s, conn.bot, n)
      PROVE  m = n
  <2>1. CASE bound[m] = s /\ bound[n] = s
    BY <2>1 DEF MakeInv, BoundInv
  <2>2. ASSUME NEW t \in Threads, NEW k \in Numbers, Binds(t, s, conn.bot, k), NEW l \in Numbers, bound[l] = s
        PROVE  FALSE
    BY <2>2 DEF Binds, MakeInv, AloneInv, Making, BoundTo
  <2>3. ASSUME NEW t \in Threads, NEW u \in Threads, Binds(t, s, conn.bot, m), Binds(u, s, conn.bot, n)
        PROVE  m = n
    BY <2>3 DEF Binds, MakeInv, AloneInv, Making
  <2> QED
    BY <1>d, <2>1, <2>2, <2>3
<1>1. \E x : T \subseteq Strays(s) \cup {x}
  <2>1. CASE T \subseteq Strays(s)
    BY <2>1
  <2>2. CASE ~(T \subseteq Strays(s))
    <3> PICK x \in T : x \notin Strays(s)
      BY <2>2
    <3>1. ASSUME NEW y \in T, y \notin Strays(s) PROVE y = x
      <4> HIDE DEF T
      <4> PICK m \in Numbers : x = <<conn.bot, m>> /\ (bound[m] = s \/ \E t \in Threads : Binds(t, s, conn.bot, m))
        BY <1>c
      <4> PICK n \in Numbers : y = <<conn.bot, n>> /\ (bound[n] = s \/ \E t \in Threads : Binds(t, s, conn.bot, n))
        BY <1>c, <3>1
      <4>1. m = n
        BY <1>d
      <4> QED
        BY <4>1
    <3> HIDE DEF T
    <3> QED
      BY <3>1
  <2> QED
    BY <2>1, <2>2
<1> HIDE DEF T
<1>2. Cardinality(Strays(s)) \in Nat /\ Cardinality(T) \in Nat /\ Cardinality(T) <= Cardinality(Strays(s)) + 1
  BY <1>1, <1>a, OneMoreTopic
<1>3. Cardinality(T) <= 1 + crashes + faults
  BY <1>a, <1>b, <1>2
<1> QED
  BY <1>3 DEF T

LEMMA MakeInit == Init => MakeInv /\ StrayInv
<1> SUFFICES ASSUME Init PROVE MakeInv /\ StrayInv
  OBVIOUS
<1>1. \A t \in Threads : pc[t] \notin AtMaking /\ pc[t] \notin Making
  BY DEF Init, AtMaking, Making
<1>2. \A n \in Numbers : bound[n] = 0
  BY DEF Init
<1>3. \A b \in Bots, n \in Numbers : ~Open(b, n)
  <2>1. \A b \in Bots : remote[b] = <<>>
    BY DEF Init
  <2>2. \A n : n \notin DOMAIN <<>>
    OBVIOUS
  <2> QED
    BY <2>1, <2>2 DEF Open
<1>4. \A s \in WebIds : s # 0
  BY Numbering
<1>5. MakeInv
  BY <1>1, <1>2, <1>3, <1>4 DEF MakeInv, PlanInv, AloneInv, BoundInv, CodeInv
<1>6. \A s \in WebIds : Strays(s) = {}
  BY <1>3 DEF Strays, Stray, Mine
<1>7. crashes = 0 /\ faults = 0
  BY DEF Init
<1> QED
  BY <1>5, <1>6, <1>7, FS_EmptySet DEF StrayInv

\* In one pairing a session has one open topic, and one more at most for each death, each
\* lost answer and each failed statement or call, however many requests and polls create topics for it at once.  The
\* argument: a thread that makes a topic holds the session's lock and has found it without
\* one, so that a topic which is made is bound or is closed again.
THEOREM SessionsHaveOneTopic == Spec => []OneTopicPerSession
  BY BaseAlways, MakeInit, MakeStep, StrayStep, OneIsNoStray, PTL DEF Spec

=============================================================================
