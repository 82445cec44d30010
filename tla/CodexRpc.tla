------------------------------ MODULE CodexRpc ------------------------------
(***************************************************************************)
(* CodexAppServerClient: request threads share one Codex App Server child  *)
(* process over its stdio.  Starting it again makes a new generation, with *)
(* request ids that begin at 1 again.                                      *)
(*                                                                         *)
(* _lifecycle_lock is a variable, as it is held over many steps; a section *)
(* under _state_lock is one action, and so is one under _write_lock unless *)
(* the pipe is full: then the writer keeps _write_lock until the child     *)
(* reads on or exits.  Waking a waiter and its running on are separate.    *)
(***************************************************************************)
EXTENDS Naturals, FiniteSets

CONSTANTS
    Threads,   \* threads that call request(), restart() or stop()
    MaxCalls,  \* bound: calls of the public methods
    MaxGen,    \* bound: processes started
    MaxExits   \* bound: processes that die, or close their output, by themselves

ASSUME BoundsAssumption == MaxCalls \in Nat /\ MaxGen \in Nat /\ MaxExits \in Nat

Gens == 1..MaxGen
\* A generation serves its own initialize and at most every call.
Ids == 1..(MaxCalls + 1)
Messages == [gen : Gens, id : Ids]
Unset == [gen |-> 0, id |-> 0]

VARIABLES
    lock,       \* the thread in _lifecycle_lock, as a set
    process,    \* generation of _process, 0 for None
    gen,        \* _generation
    readerErr,  \* _reader_error is set
    lastId,     \* _request_id
    pending,    \* _pending: id -> generation of the request registered, 0 for none
    orphans,    \* _orphan_responses
    reply,      \* _PendingResponse.response of each request
    failed,     \* the requests whose _PendingResponse.error is set
    server,     \* the child process of each generation
    inbox,      \* requests a child process has not answered
    outbox,     \* answers in its output pipe
    reader,     \* the _read_messages thread of each generation
    seen,       \* history: answers read while their generation was current
    pc,         \* where each thread is
    mine,       \* the request it has registered
    writer,     \* the thread that holds _write_lock in a full pipe, as a set
    asks,       \* threads whose call is request(), not restart() or stop()
    calls, exits

clientVars == <<lock, process, gen, readerErr, lastId, pending, orphans>>
waitVars   == <<reply, failed>>
childVars  == <<server, inbox, outbox, reader, seen>>
threadVars == <<pc, mine, asks>>
boundVars  == <<calls, exits>>
vars == <<clientVars, waitVars, childVars, threadVars, writer, boundVars>>

Goto(t, p) == pc' = [pc EXCEPT ![t] = p]
Registered == {[gen |-> pending[i], id |-> i] : i \in {j \in Ids : pending[j] # 0}}

Init ==
    /\ lock = {} /\ process = 0 /\ gen = 0 /\ readerErr = FALSE /\ lastId = 0
    /\ pending = [i \in Ids |-> 0] /\ orphans = {}
    /\ reply = [m \in Messages |-> Unset] /\ failed = {}
    /\ server = [g \in Gens |-> "none"]
    /\ inbox = {} /\ outbox = {}
    /\ reader = [g \in Gens |-> "none"] /\ seen = {}
    /\ pc = [t \in Threads |-> "idle"] /\ mine = [t \in Threads |-> Unset]
    /\ writer = {} /\ asks = {} /\ calls = 0 /\ exits = 0

\* _fail_generation of the current generation wakes every waiter of _pending.
FailGeneration ==
    /\ readerErr' = TRUE
    /\ failed' = failed \cup {m \in Registered : reply[m] = Unset}

-----------------------------------------------------------------------------
(* The lifecycle, under _lifecycle_lock. *)

Call(t) ==
    /\ pc[t] = "idle" /\ calls < MaxCalls
    /\ calls' = calls + 1
    /\ \/ Goto(t, "start") /\ asks' = asks \cup {t}
       \/ pc' \in {[pc EXCEPT ![t] = p] : p \in {"restart", "stop"}} /\ UNCHANGED asks
    /\ UNCHANGED <<clientVars, waitVars, childVars, mine, writer, exits>>

Acquire(t) ==
    /\ pc[t] \in {"start", "restart", "stop"} /\ lock = {}
    /\ lock' = {t}
    /\ Goto(t, CASE pc[t] = "start"   -> "ensure"
                 [] pc[t] = "restart" -> "rehalt"
                 [] pc[t] = "stop"    -> "halt")
    /\ UNCHANGED <<process, gen, readerErr, lastId, pending, orphans, waitVars,
                   childVars, mine, asks, writer, boundVars>>

Healthy ==
    process # 0 /\ server[process] = "running" /\ reader[process] = "reading" /\ ~readerErr

\* _ensure_started_locked finds the process in order, or else stops it first.
EnsureHealthy(t) ==
    /\ pc[t] = "ensure" /\ Healthy
    /\ lock' = {} /\ Goto(t, "register")
    /\ UNCHANGED <<process, gen, readerErr, lastId, pending, orphans, waitVars,
                   childVars, mine, asks, writer, boundVars>>

StartAnew(t) == Goto(t, "spawn")  \* mutant of EnsureNext: the old process is left
EnsureNext(t) == Goto(t, IF process # 0 THEN "rehalt" ELSE "spawn")

EnsureStale(t) ==
    /\ pc[t] = "ensure" /\ ~Healthy
    /\ EnsureNext(t)
    /\ UNCHANGED <<clientVars, waitVars, childVars, mine, asks, writer, boundVars>>

\* stop() forgets the process and fails its waiters before it ends it.
Halt(t) ==
    /\ pc[t] \in {"halt", "rehalt"}
    /\ FailGeneration /\ process' = 0
    /\ Goto(t, CASE process = 0 /\ pc[t] = "halt"   -> "leave"
                 [] process = 0 /\ pc[t] = "rehalt" -> "spawn"
                 [] process # 0 /\ pc[t] = "halt"   -> "reap"
                 [] process # 0 /\ pc[t] = "rehalt" -> "rereap")
    /\ UNCHANGED <<lock, gen, lastId, pending, orphans, reply, childVars, mine, asks,
                   writer, boundVars>>

\* stop() takes _write_lock to close the pipe, and only then begins to wait: it
\* returns when the process has exited, by itself or killed.
Reap(t) ==
    /\ pc[t] \in {"reap", "rereap"} /\ writer = {}
    /\ server' = [server EXCEPT ![gen] = "exited"]
    /\ Goto(t, IF pc[t] = "reap" THEN "leave" ELSE "spawn")
    /\ UNCHANGED <<clientVars, waitVars, inbox, outbox, reader, seen, mine,
                   asks, writer, boundVars>>

\* The call ends: it returns, or raises out of request().
Leave(t) ==
    /\ pc[t] = "leave"
    /\ lock' = {} /\ Goto(t, "idle") /\ asks' = asks \ {t}
    /\ UNCHANGED <<process, gen, readerErr, lastId, pending, orphans, waitVars,
                   childVars, mine, writer, boundVars>>

NewGeneration == gen' = gen + 1

\* A new process and its reader; the initialize request follows under the lock.
Spawn(t) ==
    /\ pc[t] = "spawn" /\ gen < MaxGen
    /\ process' = gen + 1 /\ NewGeneration
    /\ readerErr' = FALSE /\ orphans' = {} /\ lastId' = 0
    /\ server' = [server EXCEPT ![gen + 1] = "running"]
    /\ reader' = [reader EXCEPT ![gen + 1] = "reading"]
    /\ Goto(t, "register")
    /\ UNCHANGED <<lock, pending, waitVars, inbox, outbox, seen, mine, asks,
                   writer, boundVars>>

\* The command cannot be started: Popen raises.
SpawnFails(t) ==
    /\ pc[t] = "spawn" /\ Goto(t, "leave")
    /\ UNCHANGED <<clientVars, waitVars, childVars, mine, asks, writer, boundVars>>

-----------------------------------------------------------------------------
(* _request_running: initialize when the thread holds the lock. *)

\* The next id of the current generation, registered unless its answer is there.
Register(t) ==
    /\ pc[t] = "register" /\ lastId <= MaxCalls   \* bound: always so, each call takes one
    /\ LET id == lastId + 1
           m == [gen |-> gen, id |-> id]
           early == {o \in orphans : o.id = id}
       IN  /\ lastId' = id /\ mine' = [mine EXCEPT ![t] = m]
           /\ orphans' = orphans \ early
           /\ \/ /\ early = {} /\ pending' = [pending EXCEPT ![id] = gen]
                 /\ UNCHANGED reply
              \/ /\ \E o \in early : reply' = [reply EXCEPT ![m] = o]
                 /\ UNCHANGED pending
    /\ Goto(t, "write")
    /\ UNCHANGED <<lock, process, gen, readerErr, failed, childVars, asks, writer, boundVars>>

Connected(g) == g = gen /\ ~readerErr /\ process # 0
\* The generation a line is for: initialized is for the one just started.
Target(t) == IF pc[t] = "write" THEN mine[t].gen ELSE gen
CanWrite(t) == pc[t] \in {"write", "greet"} /\ writer = {} /\ Connected(Target(t))

\* The line is in the pipe: a request is waited for; `initialized` ends the
\* handshake, and request() goes on without the lock.
Sent(t) ==
    /\ \/ /\ pc[t] = "write" /\ Goto(t, "wait")
          /\ inbox' = inbox \cup {mine[t]} /\ UNCHANGED lock
       \/ /\ pc[t] = "greet" /\ Goto(t, IF t \in asks THEN "register" ELSE "idle")
          /\ lock' = {} /\ UNCHANGED inbox
    /\ UNCHANGED <<process, gen, readerErr, lastId, pending, orphans, waitVars, server,
                   outbox, reader, seen, mine, asks, boundVars>>

Write(t) == CanWrite(t) /\ server[gen] = "running" /\ Sent(t) /\ UNCHANGED writer

\* The child does not read and its pipe is full: write() or flush() blocks.
WriteBlocks(t) ==
    /\ CanWrite(t) /\ server[gen] = "running"
    /\ writer' = {t}
    /\ UNCHANGED <<clientVars, waitVars, childVars, threadVars, boundVars>>

\* The child has read on, which nothing makes it do.
WriteGoesOn(t) == t \in writer /\ server[gen] = "running" /\ Sent(t) /\ writer' = {}

\* The connection has changed since the request took its generation.
WriteRefused(t) ==
    /\ pc[t] \in {"write", "greet"} /\ writer = {} /\ ~Connected(Target(t))
    /\ Goto(t, IF pc[t] = "write" THEN "popFail" ELSE "halt")
    /\ UNCHANGED <<clientVars, waitVars, childVars, mine, asks, writer, boundVars>>

\* The pipe is broken: _write fails the generation and raises.
WriteBroken(t) ==
    /\ pc[t] \in {"write", "greet"} /\ server[gen] = "exited"
    /\ CanWrite(t) \/ t \in writer
    /\ FailGeneration
    /\ Goto(t, IF pc[t] = "write" THEN "popFail" ELSE "halt")
    /\ writer' = {}
    /\ UNCHANGED <<lock, process, gen, lastId, pending, orphans, reply, childVars, mine,
                   asks, boundVars>>

\* The event is set: an error comes first, and an answer may itself be an error.
Wake(t) ==
    /\ pc[t] = "wait"
    /\ \/ mine[t] \in failed /\ Goto(t, "popFail")
       \/ /\ mine[t] \notin failed /\ reply[mine[t]] # Unset
          /\ Goto(t, "popOk") \/ Goto(t, "popFail")
    /\ UNCHANGED <<clientVars, waitVars, childVars, mine, asks, writer, boundVars>>

NoDeadline(t) == FALSE  \* mutant of Overdue: wait() without a timeout
Overdue(t) == mine[t] \notin failed /\ reply[mine[t]] = Unset

TimeOut(t) ==
    /\ pc[t] = "wait" /\ Overdue(t)
    /\ Goto(t, "popFail")
    /\ UNCHANGED <<clientVars, waitVars, childVars, mine, asks, writer, boundVars>>

\* The finally block removes whatever _pending holds under the id.
Pop(t) ==
    /\ pc[t] \in {"popOk", "popFail"}
    /\ pending' = [pending EXCEPT ![mine[t].id] = 0]
    /\ mine' = [mine EXCEPT ![t] = Unset]
    /\ \/ /\ t \in lock /\ Goto(t, IF pc[t] = "popOk" THEN "greet" ELSE "halt")
          /\ UNCHANGED asks
       \/ t \notin lock /\ Goto(t, "idle") /\ asks' = asks \ {t}
    /\ UNCHANGED <<lock, process, gen, readerErr, lastId, orphans, waitVars, childVars,
                   writer, boundVars>>

-----------------------------------------------------------------------------
(* The child processes and their readers. *)

Serve(m) ==
    /\ m \in inbox /\ server[m.gen] = "running"
    /\ inbox' = inbox \ {m} /\ outbox' = outbox \cup {m}
    /\ UNCHANGED <<clientVars, waitVars, server, reader, seen, threadVars,
                   writer, boundVars>>

Exit(g) ==
    /\ server[g] = "running" /\ exits < MaxExits
    /\ server' = [server EXCEPT ![g] = "exited"] /\ exits' = exits + 1
    /\ UNCHANGED <<clientVars, waitVars, inbox, outbox, reader, seen,
                   threadVars, writer, calls>>

AnyGeneration(g) == TRUE  \* mutant of IsCurrent: _route_response takes every answer
IsCurrent(g) == g = gen

\* The reader hands an answer to the request registered under its id, or keeps
\* it as an orphan; a reader of an old generation discards it.
Read(m) ==
    /\ m \in outbox /\ reader[m.gen] = "reading"
    /\ outbox' = outbox \ {m}
    /\ \/ /\ IsCurrent(m.gen) /\ seen' = seen \cup {m}
          /\ IF pending[m.id] = 0
             THEN orphans' = orphans \cup {m} /\ UNCHANGED reply
             ELSE /\ reply' = [reply EXCEPT ![[gen |-> pending[m.id], id |-> m.id]] = m]
                  /\ UNCHANGED orphans
       \/ ~IsCurrent(m.gen) /\ UNCHANGED <<seen, orphans, reply>>
    /\ UNCHANGED <<lock, process, gen, readerErr, lastId, pending, failed, server,
                   inbox, reader, threadVars, writer, boundVars>>

\* The reader's last step: it fails the generation if that is still current.
EndReader(g) ==
    /\ reader[g] = "reading" /\ reader' = [reader EXCEPT ![g] = "done"]
    /\ \/ g = gen /\ FailGeneration
       \/ g # gen /\ UNCHANGED <<readerErr, failed>>
    /\ UNCHANGED <<lock, process, gen, lastId, pending, orphans, reply, server,
                   inbox, outbox, seen, threadVars, writer, calls>>

ReadEnd(g) ==
    /\ server[g] = "exited" /\ \A m \in outbox : m.gen # g
    /\ EndReader(g) /\ UNCHANGED exits

\* The process runs on, but closed its output or sent what cannot be parsed.
ReadFails(g) ==
    /\ server[g] = "running" /\ exits < MaxExits
    /\ EndReader(g) /\ exits' = exits + 1

-----------------------------------------------------------------------------
Proceed(t) ==
    \/ Acquire(t) \/ EnsureHealthy(t) \/ EnsureStale(t) \/ Halt(t) \/ Reap(t)
    \/ Leave(t) \/ Spawn(t) \/ SpawnFails(t) \/ Register(t) \/ Write(t)
    \/ WriteRefused(t) \/ WriteBroken(t) \/ Wake(t) \/ TimeOut(t) \/ Pop(t)

Next ==
    \/ \E t \in Threads : Call(t) \/ Proceed(t) \/ WriteBlocks(t) \/ WriteGoesOn(t)
    \/ \E m \in Messages : Serve(m) \/ Read(m)
    \/ \E g \in Gens : Exit(g) \/ ReadEnd(g) \/ ReadFails(g)

Spec == Init /\ [][Next]_vars
\* Threads run; a wait for an answer or for the process's end has a timeout, a
\* write has none.  The child owes nothing: it need neither answer nor read.
FairSpec == Spec /\ \A t \in Threads : WF_vars(Proceed(t))

-----------------------------------------------------------------------------
\* The values of the client, the processes and the callers.
TypeOK ==
    /\ lock \subseteq Threads /\ Cardinality(lock) <= 1
    /\ process \in {0, gen} /\ gen \in 0..MaxGen /\ readerErr \in BOOLEAN
    /\ lastId \in 0..(MaxCalls + 1)
    /\ pending \in [Ids -> 0..MaxGen] /\ orphans \subseteq Messages
    /\ reply \in [Messages -> Messages \cup {Unset}] /\ failed \subseteq Messages
    /\ server \in [Gens -> {"none", "running", "exited"}]
    /\ inbox \subseteq Messages /\ outbox \subseteq Messages /\ seen \subseteq Messages
    /\ reader \in [Gens -> {"none", "reading", "done"}]
    /\ pc \in [Threads -> {"idle", "start", "restart", "stop", "ensure", "halt",
                           "rehalt", "reap", "rereap", "leave", "spawn", "register",
                           "write", "wait", "popOk", "popFail", "greet"}]
    /\ mine \in [Threads -> Messages \cup {Unset}]
    /\ writer \subseteq Threads /\ asks \subseteq Threads
    /\ calls \in 0..MaxCalls /\ exits \in 0..MaxExits

\* A response is only ever handed to the request it answers, although ids repeat
\* in every generation and answers of an old process are still in its pipe.
AnswerMatches == \A m \in Messages : reply[m] # Unset => reply[m] = m

\* There is one App Server: a new process starts after the old one has exited.
OneServer == Cardinality({g \in Gens : server[g] = "running"}) <= 1

\* Whatever the child does or leaves undone, short of keeping a writer in a full
\* pipe for ever, every call returns or raises: no thread stays in the lifecycle
\* lock, and none waits for an answer for ever.
CallsReturn ==
    []<>(writer = {}) => \A t \in Threads : pc[t] # "idle" ~> pc[t] = "idle"

\* "A JSON-RPC response was not received before its request timeout": a request
\* whose response was read is not left to time out.
TimeoutMeansUnanswered ==
    \A t \in Threads : pc[t] = "wait" /\ mine[t] \in seen => reply[mine[t]] # Unset
=============================================================================
