--------------------------- MODULE CodexRpc_proofs ---------------------------
(***************************************************************************)
(* Safety of the App Server client for any threads, calls, processes and   *)
(* exits: answers reach their own requests, and there is one App Server.   *)
(***************************************************************************)
EXTENDS CodexRpc, FiniteSetTheorems, TLAPS

LEMMA SmallSets == Cardinality({}) = 0 /\ \A x : Cardinality({x}) = 1
BY FS_EmptySet, FS_Singleton

Places == {"idle", "start", "restart", "stop", "ensure", "halt", "rehalt", "reap", "rereap",
           "leave", "spawn", "register", "write", "wait", "popOk", "popFail", "greet"}

\* Requests are made when there is a generation to make them in, and a line is
\* written for a request registered before.
GenInv == \A t \in Threads :
    /\ pc[t] \in {"register", "write", "wait", "popOk", "popFail", "greet"} => gen # 0
    /\ pc[t] = "write" => mine[t] # Unset

LEMMA TypeInit == Init => TypeOK /\ GenInv
<1> SUFFICES ASSUME Init PROVE TypeOK /\ GenInv
  OBVIOUS
<1> USE BoundsAssumption
<1>1. readerErr \in BOOLEAN
  BY Zenon DEF Init
<1>2. lock = {} /\ process = 0 /\ gen = 0 /\ lastId = 0 /\ orphans = {} /\ failed = {}
  BY DEF Init
<1>3. /\ inbox = {} /\ outbox = {} /\ seen = {} /\ asks = {} /\ calls = 0 /\ exits = 0
      /\ writer = {}
  BY DEF Init
<1>4. pending \in [Ids -> 0..MaxGen] /\ reply \in [Messages -> Messages \cup {Unset}]
  BY DEF Init
<1>5. /\ server \in [Gens -> {"none", "running", "exited"}]
      /\ reader \in [Gens -> {"none", "reading", "done"}]
  BY DEF Init
<1>6. /\ pc = [t \in Threads |-> "idle"] /\ mine \in [Threads -> Messages \cup {Unset}]
  BY DEF Init
<1> QED
  BY <1>1, <1>2, <1>3, <1>4, <1>5, <1>6, SmallSets DEF TypeOK, GenInv

LEMMA ExceptTyped ==
    ASSUME NEW S, NEW T, NEW f \in [S -> T], NEW x, NEW v \in T
    PROVE  [f EXCEPT ![x] = v] \in [S -> T]
OBVIOUS

LEMMA RegisteredTyped == TypeOK => Registered \subseteq Messages
BY DEF TypeOK, Registered, Messages, Gens

LEMMA FailTyped ==
    ASSUME TypeOK, FailGeneration
    PROVE  readerErr' \in BOOLEAN /\ failed' \subseteq Messages
<1>1. readerErr' \in BOOLEAN
  BY Zenon DEF FailGeneration
<1>2. failed' \subseteq Messages
  BY RegisteredTyped DEF FailGeneration, TypeOK
<1> QED
  BY <1>1, <1>2

LEMMA SentTyped ==
    ASSUME TypeOK, GenInv, NEW t \in Threads, Sent(t),
           writer' = writer \/ writer' = {}
    PROVE  TypeOK'
<1> USE DEF TypeOK, Places, waitVars, boundVars
<1>1. pc' \in [Threads -> Places]
  BY DEF Sent, Goto
<1>2. inbox' \subseteq Messages
  BY DEF Sent, GenInv
<1>3. lock' \subseteq Threads /\ Cardinality(lock') <= 1
  <2>1. lock' = lock \/ lock' = {}
    BY DEF Sent
  <2>2. CASE lock' = lock
    BY <2>2
  <2>3. CASE lock' = {}
    BY <2>3, SmallSets
  <2> QED
    BY <2>1, <2>2, <2>3
<1>4. UNCHANGED <<process, gen, readerErr, lastId, pending, orphans, waitVars, server,
                  outbox, reader, seen, mine, asks, boundVars>>
  BY DEF Sent
<1> QED
  BY <1>1, <1>2, <1>3, <1>4

LEMMA TypeStep == TypeOK /\ GenInv /\ [Next]_vars => TypeOK'
<1> SUFFICES ASSUME TypeOK, GenInv, [Next]_vars PROVE TypeOK'
  OBVIOUS
<1> USE BoundsAssumption
    DEF TypeOK, Places, clientVars, waitVars, childVars, threadVars, boundVars
<1>1. ASSUME NEW t \in Threads, Call(t) PROVE TypeOK'
  BY <1>1 DEF Call, Goto
<1>2. ASSUME NEW t \in Threads, Acquire(t) PROVE TypeOK'
  <2>1. pc' \in [Threads -> Places]
    BY <1>2 DEF Acquire, Goto
  <2>2. lock' = {t}
    BY <1>2 DEF Acquire
  <2>3. UNCHANGED <<process, gen, readerErr, lastId, pending, orphans, waitVars, childVars,
                    mine, asks, writer, boundVars>>
    BY <1>2 DEF Acquire
  <2>4. Cardinality(lock') <= 1
    <3>1. Cardinality({t}) = 1
      BY FS_Singleton
    <3>2. Cardinality(lock') = 1
      BY <2>2, <3>1, Zenon
    <3> QED
      BY <3>2
  <2> QED
    BY <2>1, <2>2, <2>3, <2>4
<1>3. ASSUME NEW t \in Threads, EnsureHealthy(t) PROVE TypeOK'
  BY <1>3, SmallSets DEF EnsureHealthy, Goto
<1>4. ASSUME NEW t \in Threads, EnsureStale(t) PROVE TypeOK'
  BY <1>4 DEF EnsureStale, EnsureNext, Goto
<1>5. ASSUME NEW t \in Threads, Halt(t) PROVE TypeOK'
  <2>1. pc' \in [Threads -> Places]
    BY <1>5 DEF Halt, Goto
  <2>2. readerErr' \in BOOLEAN /\ failed' \subseteq Messages
    BY <1>5, FailTyped DEF Halt
  <2>3. process' = 0 /\ UNCHANGED <<lock, gen, lastId, pending, orphans, reply, childVars,
                                   mine, asks, writer, boundVars>>
    BY <1>5 DEF Halt
  <2> QED
    BY <2>1, <2>2, <2>3
<1>6. ASSUME NEW t \in Threads, Reap(t) PROVE TypeOK'
  BY <1>6 DEF Reap, Goto
<1>7. ASSUME NEW t \in Threads, Leave(t) PROVE TypeOK'
  BY <1>7, SmallSets DEF Leave, Goto
<1>8. ASSUME NEW t \in Threads, Spawn(t) PROVE TypeOK'
  <2>1. readerErr' \in BOOLEAN
    BY <1>8, Zenon DEF Spawn
  <2>2. gen' = gen + 1 /\ gen' \in Gens /\ process' = gen'
    BY <1>8 DEF Spawn, NewGeneration, Gens
  <2>3. pc' \in [Threads -> Places]
    BY <1>8 DEF Spawn, NewGeneration, Goto
  <2>4. /\ server' \in [Gens -> {"none", "running", "exited"}]
        /\ reader' \in [Gens -> {"none", "reading", "done"}]
    BY <1>8 DEF Spawn
  <2>5. orphans' = {} /\ lastId' = 0
    BY <1>8 DEF Spawn, NewGeneration
  <2>6. UNCHANGED <<lock, pending, waitVars, inbox, outbox, seen, mine, asks, writer, boundVars>>
    BY <1>8 DEF Spawn
  <2> QED
    BY <2>1, <2>2, <2>3, <2>4, <2>5, <2>6 DEF Gens
<1>9. ASSUME NEW t \in Threads, SpawnFails(t) PROVE TypeOK'
  BY <1>9 DEF SpawnFails, Goto
<1>10. ASSUME NEW t \in Threads, Register(t) PROVE TypeOK'
  <2> DEFINE id == lastId + 1
             m == [gen |-> gen, id |-> id]
             early == {o \in orphans : o.id = id}
  <2>1. id \in Ids /\ gen \in Gens /\ m \in Messages
    BY <1>10 DEF Register, GenInv, Ids, Gens, Messages
  <2>2. lastId' = id /\ mine' = [mine EXCEPT ![t] = m] /\ orphans' = orphans \ early
    BY <1>10 DEF Register
  <2>3. pending' = pending \/ pending' = [pending EXCEPT ![id] = gen]
    BY <1>10 DEF Register
  <2>4. reply' = reply \/ \E o \in early : reply' = [reply EXCEPT ![m] = o]
    BY <1>10 DEF Register
  <2>5. pc' \in [Threads -> Places]
    BY <1>10 DEF Register, Goto
  <2>6. UNCHANGED <<lock, process, gen, readerErr, failed, childVars, asks, writer, boundVars>>
    BY <1>10 DEF Register
  <2> HIDE DEF m
  <2>7. reply' \in [Messages -> Messages \cup {Unset}]
    BY <2>1, <2>4
  <2>8. pending' \in [Ids -> 0..MaxGen]
    BY <2>3
  <2>9. mine' \in [Threads -> Messages \cup {Unset}]
    BY <2>1, <2>2
  <2> QED
    BY <2>1, <2>2, <2>5, <2>6, <2>7, <2>8, <2>9 DEF Ids
<1>11. ASSUME NEW t \in Threads, Write(t) PROVE TypeOK'
  BY <1>11, SentTyped DEF Write
<1>12. ASSUME NEW t \in Threads, WriteRefused(t) PROVE TypeOK'
  BY <1>12 DEF WriteRefused, Goto
<1>13. ASSUME NEW t \in Threads, WriteBroken(t) PROVE TypeOK'
  <2>1. pc' \in [Threads -> Places]
    BY <1>13 DEF WriteBroken, Goto
  <2>2. readerErr' \in BOOLEAN /\ failed' \subseteq Messages
    BY <1>13, FailTyped DEF WriteBroken
  <2>3. UNCHANGED <<lock, process, gen, lastId, pending, orphans, reply, childVars, mine,
                    asks, boundVars>>
    BY <1>13 DEF WriteBroken
  <2>4. writer' = {}
    BY <1>13 DEF WriteBroken
  <2> QED
    BY <2>1, <2>2, <2>3, <2>4
<1>14. ASSUME NEW t \in Threads, Wake(t) PROVE TypeOK'
  BY <1>14 DEF Wake, Goto
<1>15. ASSUME NEW t \in Threads, TimeOut(t) PROVE TypeOK'
  BY <1>15 DEF TimeOut, Goto
<1>16. ASSUME NEW t \in Threads, Pop(t) PROVE TypeOK'
  <2>1. pc' \in [Threads -> Places]
    BY <1>16 DEF Pop, Goto
  <2>2. pending' \in [Ids -> 0..MaxGen] /\ mine' \in [Threads -> Messages \cup {Unset}]
    <3>1. PICK x : pending' = [pending EXCEPT ![x] = 0]
      BY <1>16 DEF Pop
    <3>2. mine' = [mine EXCEPT ![t] = Unset]
      BY <1>16 DEF Pop
    <3>3. 0 \in 0..MaxGen /\ Unset \in Messages \cup {Unset}
      OBVIOUS
    <3>4. pending' \in [Ids -> 0..MaxGen]
      BY <3>1, <3>3, ExceptTyped
    <3>5. mine' \in [Threads -> Messages \cup {Unset}]
      BY <3>2, <3>3, ExceptTyped
    <3> QED
      BY <3>4, <3>5
  <2>3. asks' \subseteq Threads
    BY <1>16 DEF Pop
  <2>4. UNCHANGED <<lock, process, gen, readerErr, lastId, orphans, waitVars, childVars,
                    writer, boundVars>>
    BY <1>16 DEF Pop
  <2> QED
    BY <2>1, <2>2, <2>3, <2>4
<1>17. ASSUME NEW t \in Threads, WriteBlocks(t) PROVE TypeOK'
  BY <1>17 DEF WriteBlocks
<1>25. ASSUME NEW t \in Threads, WriteGoesOn(t) PROVE TypeOK'
  BY <1>25, SentTyped DEF WriteGoesOn
<1>18. ASSUME NEW m \in Messages, Serve(m) PROVE TypeOK'
  BY <1>18 DEF Serve
<1>19. ASSUME NEW m \in Messages, Read(m) PROVE TypeOK'
  BY <1>19 DEF Read
<1>20. ASSUME NEW g \in Gens, Exit(g) PROVE TypeOK'
  BY <1>20 DEF Exit
<1>21. ASSUME NEW g \in Gens, ReadEnd(g) PROVE TypeOK'
  <2>1. readerErr' \in BOOLEAN /\ failed' \subseteq Messages
    BY <1>21, FailTyped DEF ReadEnd, EndReader
  <2>2. reader' \in [Gens -> {"none", "reading", "done"}]
    BY <1>21 DEF ReadEnd, EndReader
  <2>3. exits' \in 0..MaxExits
    BY <1>21 DEF ReadEnd
  <2>4. UNCHANGED <<lock, process, gen, lastId, pending, orphans, reply, server, inbox,
                    outbox, seen, threadVars, writer, calls>>
    BY <1>21 DEF ReadEnd, EndReader
  <2> QED
    BY <2>1, <2>2, <2>3, <2>4
<1>22. ASSUME NEW g \in Gens, ReadFails(g) PROVE TypeOK'
  <2>1. readerErr' \in BOOLEAN /\ failed' \subseteq Messages
    BY <1>22, FailTyped DEF ReadFails, EndReader
  <2>2. reader' \in [Gens -> {"none", "reading", "done"}]
    BY <1>22 DEF ReadFails, EndReader
  <2>3. exits' \in 0..MaxExits
    BY <1>22 DEF ReadFails
  <2>4. UNCHANGED <<lock, process, gen, lastId, pending, orphans, reply, server, inbox,
                    outbox, seen, threadVars, writer, calls>>
    BY <1>22 DEF ReadFails, EndReader
  <2> QED
    BY <2>1, <2>2, <2>3, <2>4
<1>23. CASE UNCHANGED vars
  BY <1>23 DEF vars
<1>24. ASSUME NEW t \in Threads, Proceed(t) PROVE TypeOK'
  BY <1>24, <1>2, <1>3, <1>4, <1>5, <1>6, <1>7, <1>8, <1>9, <1>10, <1>11, <1>12, <1>13,
    <1>14, <1>15, <1>16
  DEF Proceed
<1> QED
  BY <1>1, <1>17, <1>18, <1>19, <1>20, <1>21, <1>22, <1>23, <1>24, <1>25 DEF Next

LEMMA GenStep == TypeOK /\ GenInv /\ [Next]_vars => GenInv'
<1> SUFFICES ASSUME TypeOK, GenInv, [Next]_vars PROVE GenInv'
  OBVIOUS
<1> USE DEF TypeOK, GenInv, clientVars, waitVars, childVars, threadVars, boundVars
<1>1. ASSUME NEW t \in Threads, Call(t) PROVE GenInv'
  BY <1>1 DEF Call, Goto
<1>2. ASSUME NEW t \in Threads, Acquire(t) PROVE GenInv'
  BY <1>2 DEF Acquire, Goto
<1>3. ASSUME NEW t \in Threads, EnsureHealthy(t) PROVE GenInv'
  BY <1>3 DEF EnsureHealthy, Healthy, Goto
<1>4. ASSUME NEW t \in Threads, EnsureStale(t) PROVE GenInv'
  BY <1>4 DEF EnsureStale, EnsureNext, Goto
<1>5. ASSUME NEW t \in Threads, Halt(t) PROVE GenInv'
  BY <1>5 DEF Halt, Goto
<1>6. ASSUME NEW t \in Threads, Reap(t) PROVE GenInv'
  BY <1>6 DEF Reap, Goto
<1>7. ASSUME NEW t \in Threads, Leave(t) PROVE GenInv'
  BY <1>7 DEF Leave, Goto
<1>8. ASSUME NEW t \in Threads, Spawn(t) PROVE GenInv'
  BY <1>8 DEF Spawn, NewGeneration, Goto
<1>9. ASSUME NEW t \in Threads, SpawnFails(t) PROVE GenInv'
  BY <1>9 DEF SpawnFails, Goto
<1>10. ASSUME NEW t \in Threads, Register(t) PROVE GenInv'
  <2>1. [gen |-> gen, id |-> lastId + 1] # Unset
    BY DEF Unset
  <2>2. /\ mine' = [mine EXCEPT ![t] = [gen |-> gen, id |-> lastId + 1]]
        /\ pc' = [pc EXCEPT ![t] = "write"] /\ gen' = gen /\ pc[t] = "register"
    BY <1>10 DEF Register, Goto
  <2> QED
    BY <2>1, <2>2
<1>11. ASSUME NEW t \in Threads, Write(t) PROVE GenInv'
  BY <1>11 DEF Write, Sent, Goto
<1>12. ASSUME NEW t \in Threads, WriteRefused(t) PROVE GenInv'
  BY <1>12 DEF WriteRefused, Goto
<1>13. ASSUME NEW t \in Threads, WriteBroken(t) PROVE GenInv'
  BY <1>13 DEF WriteBroken, Goto
<1>14. ASSUME NEW t \in Threads, Wake(t) PROVE GenInv'
  BY <1>14 DEF Wake, Goto
<1>15. ASSUME NEW t \in Threads, TimeOut(t) PROVE GenInv'
  BY <1>15 DEF TimeOut, Goto
<1>16. ASSUME NEW t \in Threads, Pop(t) PROVE GenInv'
  BY <1>16 DEF Pop, Goto
<1>17. ASSUME NEW t \in Threads, WriteBlocks(t) PROVE GenInv'
  BY <1>17 DEF WriteBlocks
<1>25. ASSUME NEW t \in Threads, WriteGoesOn(t) PROVE GenInv'
  BY <1>25 DEF WriteGoesOn, Sent, Goto
<1>18. ASSUME NEW m \in Messages, Serve(m) PROVE GenInv'
  BY <1>18 DEF Serve
<1>19. ASSUME NEW m \in Messages, Read(m) PROVE GenInv'
  BY <1>19 DEF Read
<1>20. ASSUME NEW g \in Gens, Exit(g) PROVE GenInv'
  BY <1>20 DEF Exit
<1>21. ASSUME NEW g \in Gens, ReadEnd(g) PROVE GenInv'
  BY <1>21 DEF ReadEnd, EndReader
<1>22. ASSUME NEW g \in Gens, ReadFails(g) PROVE GenInv'
  BY <1>22 DEF ReadFails, EndReader
<1>23. CASE UNCHANGED vars
  BY <1>23 DEF vars
<1>24. ASSUME NEW t \in Threads, Proceed(t) PROVE GenInv'
  BY <1>24, <1>2, <1>3, <1>4, <1>5, <1>6, <1>7, <1>8, <1>9, <1>10, <1>11, <1>12, <1>13,
    <1>14, <1>15, <1>16
  DEF Proceed
<1> QED
  BY <1>1, <1>17, <1>18, <1>19, <1>20, <1>21, <1>22, <1>23, <1>24, <1>25 DEF Next

\* Every field of the client, the processes and the callers keeps to its values.
THEOREM TypeCorrect == Spec => []TypeOK
<1>1. TypeOK /\ GenInv /\ [Next]_vars => (TypeOK /\ GenInv)'
  BY TypeStep, GenStep
<1> QED
  BY <1>1, TypeInit, PTL DEF Spec
-----------------------------------------------------------------------------
(* One App Server: whoever starts or ends a process is alone in the lock.  *)

Holding == {"ensure", "halt", "rehalt", "reap", "rereap", "leave", "spawn", "greet"}
Ending  == {"reap", "rereap"}

LockInv ==
    /\ \A t \in Threads : pc[t] \in Holding => lock = {t}
    /\ \A t \in lock : lock = {t}
    /\ \A t \in Threads : pc[t] \in Ending \cup {"spawn"} => process = 0

\* A process the client has forgotten is being ended, or has ended.
ServerInv ==
    /\ process = 0 /\ gen # 0 /\ (\A t \in Threads : pc[t] \notin Ending)
         => server[gen] # "running"
    /\ \A g \in Gens : server[g] = "running" => g = gen

LEMMA LockInit == Init => LockInv /\ ServerInv
BY DEF Init, LockInv, ServerInv, Holding, Ending

LEMMA LockStep == TypeOK /\ LockInv /\ [Next]_vars => LockInv'
<1> SUFFICES ASSUME TypeOK, LockInv, [Next]_vars PROVE LockInv'
  OBVIOUS
<1> USE DEF TypeOK, LockInv, Holding, Ending, clientVars, waitVars, childVars, threadVars, boundVars
<1>1. ASSUME NEW t \in Threads, Call(t) PROVE LockInv'
  BY <1>1 DEF Call, Goto
<1>2. ASSUME NEW t \in Threads, Acquire(t) PROVE LockInv'
  BY <1>2 DEF Acquire, Goto
<1>3. ASSUME NEW t \in Threads, EnsureHealthy(t) PROVE LockInv'
  BY <1>3 DEF EnsureHealthy, Healthy, Goto
<1>4. ASSUME NEW t \in Threads, EnsureStale(t) PROVE LockInv'
  BY <1>4 DEF EnsureStale, EnsureNext, Healthy, Goto
<1>5. ASSUME NEW t \in Threads, Halt(t) PROVE LockInv'
  BY <1>5 DEF Halt, Goto
<1>6. ASSUME NEW t \in Threads, Reap(t) PROVE LockInv'
  BY <1>6 DEF Reap, Goto
<1>7. ASSUME NEW t \in Threads, Leave(t) PROVE LockInv'
  BY <1>7 DEF Leave, Goto
<1>8. ASSUME NEW t \in Threads, Spawn(t) PROVE LockInv'
  BY <1>8 DEF Spawn, NewGeneration, Goto
<1>9. ASSUME NEW t \in Threads, SpawnFails(t) PROVE LockInv'
  BY <1>9 DEF SpawnFails, Goto
<1>10. ASSUME NEW t \in Threads, Register(t) PROVE LockInv'
  BY <1>10 DEF Register, Goto
<1>11. ASSUME NEW t \in Threads, Write(t) PROVE LockInv'
  BY <1>11 DEF Write, Sent, Goto
<1>12. ASSUME NEW t \in Threads, WriteRefused(t) PROVE LockInv'
  BY <1>12 DEF WriteRefused, Goto
<1>13. ASSUME NEW t \in Threads, WriteBroken(t) PROVE LockInv'
  BY <1>13 DEF WriteBroken, Goto
<1>14. ASSUME NEW t \in Threads, Wake(t) PROVE LockInv'
  BY <1>14 DEF Wake, Goto
<1>15. ASSUME NEW t \in Threads, TimeOut(t) PROVE LockInv'
  BY <1>15 DEF TimeOut, Goto
<1>16. ASSUME NEW t \in Threads, Pop(t) PROVE LockInv'
  BY <1>16 DEF Pop, Goto
<1>17. ASSUME NEW t \in Threads, WriteBlocks(t) PROVE LockInv'
  BY <1>17 DEF WriteBlocks
<1>25. ASSUME NEW t \in Threads, WriteGoesOn(t) PROVE LockInv'
  BY <1>25 DEF WriteGoesOn, Sent, Goto
<1>18. ASSUME NEW m \in Messages, Serve(m) PROVE LockInv'
  BY <1>18 DEF Serve
<1>19. ASSUME NEW m \in Messages, Read(m) PROVE LockInv'
  BY <1>19 DEF Read
<1>20. ASSUME NEW g \in Gens, Exit(g) PROVE LockInv'
  BY <1>20 DEF Exit
<1>21. ASSUME NEW g \in Gens, ReadEnd(g) PROVE LockInv'
  BY <1>21 DEF ReadEnd, EndReader
<1>22. ASSUME NEW g \in Gens, ReadFails(g) PROVE LockInv'
  BY <1>22 DEF ReadFails, EndReader
<1>23. CASE UNCHANGED vars
  BY <1>23 DEF vars
<1>24. ASSUME NEW t \in Threads, Proceed(t) PROVE LockInv'
  BY <1>24, <1>2, <1>3, <1>4, <1>5, <1>6, <1>7, <1>8, <1>9, <1>10, <1>11, <1>12, <1>13,
    <1>14, <1>15, <1>16
  DEF Proceed
<1> QED
  BY <1>1, <1>17, <1>18, <1>19, <1>20, <1>21, <1>22, <1>23, <1>24, <1>25 DEF Next

LEMMA ServerStep == TypeOK /\ LockInv /\ ServerInv /\ [Next]_vars => ServerInv'
<1> SUFFICES ASSUME TypeOK, LockInv, ServerInv, [Next]_vars PROVE ServerInv'
  OBVIOUS
<1> USE DEF TypeOK, LockInv, ServerInv, Holding, Ending, Gens, clientVars, waitVars, childVars, threadVars, boundVars
<1>1. ASSUME NEW t \in Threads, Call(t) PROVE ServerInv'
  BY <1>1 DEF Call, Goto
<1>2. ASSUME NEW t \in Threads, Acquire(t) PROVE ServerInv'
  BY <1>2 DEF Acquire, Goto
<1>3. ASSUME NEW t \in Threads, EnsureHealthy(t) PROVE ServerInv'
  BY <1>3 DEF EnsureHealthy, Healthy, Goto
<1>4. ASSUME NEW t \in Threads, EnsureStale(t) PROVE ServerInv'
  BY <1>4 DEF EnsureStale, EnsureNext, Healthy, Goto
<1>5. ASSUME NEW t \in Threads, Halt(t) PROVE ServerInv'
  BY <1>5 DEF Halt, Goto
<1>6. ASSUME NEW t \in Threads, Reap(t) PROVE ServerInv'
  BY <1>6 DEF Reap, Goto
<1>7. ASSUME NEW t \in Threads, Leave(t) PROVE ServerInv'
  BY <1>7 DEF Leave, Goto
<1>8. ASSUME NEW t \in Threads, Spawn(t) PROVE ServerInv'
  BY <1>8, SMTT(30) DEF Spawn, NewGeneration, Goto
<1>9. ASSUME NEW t \in Threads, SpawnFails(t) PROVE ServerInv'
  BY <1>9 DEF SpawnFails, Goto
<1>10. ASSUME NEW t \in Threads, Register(t) PROVE ServerInv'
  BY <1>10 DEF Register, Goto
<1>11. ASSUME NEW t \in Threads, Write(t) PROVE ServerInv'
  BY <1>11 DEF Write, Sent, Goto
<1>12. ASSUME NEW t \in Threads, WriteRefused(t) PROVE ServerInv'
  BY <1>12 DEF WriteRefused, Goto
<1>13. ASSUME NEW t \in Threads, WriteBroken(t) PROVE ServerInv'
  BY <1>13 DEF WriteBroken, Goto
<1>14. ASSUME NEW t \in Threads, Wake(t) PROVE ServerInv'
  BY <1>14 DEF Wake, Goto
<1>15. ASSUME NEW t \in Threads, TimeOut(t) PROVE ServerInv'
  BY <1>15 DEF TimeOut, Goto
<1>16. ASSUME NEW t \in Threads, Pop(t) PROVE ServerInv'
  BY <1>16 DEF Pop, Goto
<1>17. ASSUME NEW t \in Threads, WriteBlocks(t) PROVE ServerInv'
  BY <1>17 DEF WriteBlocks
<1>25. ASSUME NEW t \in Threads, WriteGoesOn(t) PROVE ServerInv'
  BY <1>25 DEF WriteGoesOn, Sent, Goto
<1>18. ASSUME NEW m \in Messages, Serve(m) PROVE ServerInv'
  BY <1>18 DEF Serve
<1>19. ASSUME NEW m \in Messages, Read(m) PROVE ServerInv'
  BY <1>19 DEF Read
<1>20. ASSUME NEW g \in Gens, Exit(g) PROVE ServerInv'
  BY <1>20 DEF Exit
<1>21. ASSUME NEW g \in Gens, ReadEnd(g) PROVE ServerInv'
  BY <1>21 DEF ReadEnd, EndReader
<1>22. ASSUME NEW g \in Gens, ReadFails(g) PROVE ServerInv'
  BY <1>22 DEF ReadFails, EndReader
<1>23. CASE UNCHANGED vars
  BY <1>23 DEF vars
<1>24. ASSUME NEW t \in Threads, Proceed(t) PROVE ServerInv'
  BY <1>24, <1>2, <1>3, <1>4, <1>5, <1>6, <1>7, <1>8, <1>9, <1>10, <1>11, <1>12, <1>13,
    <1>14, <1>15, <1>16
  DEF Proceed
<1> QED
  BY <1>1, <1>17, <1>18, <1>19, <1>20, <1>21, <1>22, <1>23, <1>24, <1>25 DEF Next

LEMMA OneRunning == TypeOK /\ ServerInv => OneServer
<1> SUFFICES ASSUME TypeOK, ServerInv PROVE OneServer
  OBVIOUS
<1> DEFINE running == {g \in Gens : server[g] = "running"}
<1>1. running \subseteq {gen}
  BY DEF ServerInv
<1>2. Cardinality(running) <= Cardinality({gen})
  BY <1>1, FS_Singleton, FS_Subset
<1>3. Cardinality({gen}) = 1
  BY FS_Singleton
<1> QED
  BY <1>2, <1>3 DEF OneServer

\* However calls, restarts, stops and exits interleave, a process is started only
\* when the one before it has exited.
THEOREM SingleServer == Spec => []OneServer
<1>1. /\ TypeOK /\ GenInv /\ LockInv /\ ServerInv /\ [Next]_vars
      => (TypeOK /\ GenInv /\ LockInv /\ ServerInv)'
  BY TypeStep, GenStep, LockStep, ServerStep
<1> QED
  BY <1>1, TypeInit, LockInit, OneRunning, PTL DEF Spec

-----------------------------------------------------------------------------
(* Answers: every message on its way belongs to a request already made.    *)

\* An answer to come, or the request for it, has an id its generation has used.
Past(m) == m.gen <= gen /\ (m.gen = gen => m.id <= lastId)

AnswerInv ==
    /\ \A m \in inbox \cup outbox : Past(m)
    /\ \A o \in orphans : o.gen = gen /\ o.id <= lastId
    /\ \A i \in Ids : i <= lastId => pending[i] \in {0, gen}
    /\ \A t \in Threads : mine[t] # Unset => Past(mine[t])
    /\ AnswerMatches

LEMMA AnswerInit == Init => AnswerInv
BY DEF Init, AnswerInv, Past, AnswerMatches, Ids

LEMMA SentPast ==
    ASSUME GenInv, AnswerInv, NEW t \in Threads, Sent(t)
    PROVE  AnswerInv'
<1>1. inbox' = inbox \/ (mine[t] # Unset /\ inbox' = inbox \cup {mine[t]})
  BY DEF Sent, GenInv
<1>2. UNCHANGED <<gen, lastId, pending, orphans, reply, outbox, mine>>
  BY DEF Sent, waitVars
<1> QED
  BY <1>1, <1>2 DEF AnswerInv, AnswerMatches, Past

LEMMA AnswerStep == TypeOK /\ GenInv /\ AnswerInv /\ [Next]_vars => AnswerInv'
<1> SUFFICES ASSUME TypeOK, GenInv, AnswerInv, [Next]_vars PROVE AnswerInv'
  OBVIOUS
<1> USE DEF TypeOK, AnswerInv, AnswerMatches, Past, clientVars, waitVars, childVars, threadVars, boundVars
<1>1. ASSUME NEW t \in Threads, Call(t) PROVE AnswerInv'
  BY <1>1 DEF Call, Goto
<1>2. ASSUME NEW t \in Threads, Acquire(t) PROVE AnswerInv'
  BY <1>2 DEF Acquire, Goto
<1>3. ASSUME NEW t \in Threads, EnsureHealthy(t) PROVE AnswerInv'
  BY <1>3 DEF EnsureHealthy, Healthy, Goto
<1>4. ASSUME NEW t \in Threads, EnsureStale(t) PROVE AnswerInv'
  BY <1>4 DEF EnsureStale, EnsureNext, Healthy, Goto
<1>5. ASSUME NEW t \in Threads, Halt(t) PROVE AnswerInv'
  BY <1>5 DEF Halt, Goto
<1>6. ASSUME NEW t \in Threads, Reap(t) PROVE AnswerInv'
  BY <1>6 DEF Reap, Goto
<1>7. ASSUME NEW t \in Threads, Leave(t) PROVE AnswerInv'
  BY <1>7 DEF Leave, Goto
<1>8. ASSUME NEW t \in Threads, Spawn(t) PROVE AnswerInv'
  <2>1. gen' = gen + 1 /\ lastId' = 0 /\ orphans' = {}
    BY <1>8 DEF Spawn, NewGeneration
  <2>2. UNCHANGED <<inbox, outbox, pending, reply, mine>>
    BY <1>8 DEF Spawn
  <2>3. ASSUME NEW m \in Messages, Past(m) PROVE Past(m)'
    BY <2>1, <2>3 DEF Messages, Gens, Ids
  <2>4. \A u \in Threads : mine[u] # Unset => mine[u] \in Messages
    OBVIOUS
  <2>5. \A i \in Ids : ~(i <= 0)
    BY DEF Ids
  <2> QED
    BY <2>1, <2>2, <2>3, <2>4, <2>5
<1>9. ASSUME NEW t \in Threads, SpawnFails(t) PROVE AnswerInv'
  BY <1>9 DEF SpawnFails, Goto
<1>10. ASSUME NEW t \in Threads, Register(t) PROVE AnswerInv'
  <2> DEFINE id == lastId + 1
             n == [gen |-> gen, id |-> id]
  <2>1. {o \in orphans : o.id = id} = {}
    OBVIOUS
  <2>2. /\ lastId' = id /\ mine' = [mine EXCEPT ![t] = n] /\ orphans' \subseteq orphans
        /\ UNCHANGED <<gen, inbox, outbox>>
    BY <1>10 DEF Register
  <2>3. pending' = [pending EXCEPT ![id] = gen] /\ UNCHANGED reply
    <3>1. \/ pending' = [pending EXCEPT ![id] = gen] /\ UNCHANGED reply
          \/ \E o \in {x \in orphans : x.id = id} : TRUE
      BY <1>10 DEF Register
    <3> QED
      BY <2>1, <3>1, Zenon
  <2>4. ASSUME NEW m, m.id \in Nat, Past(m) PROVE Past(m)'
    BY <2>2, <2>4
  <2>5. n.gen = gen' /\ n.id = lastId'
    BY <2>2
  <2>6. \A m \in Messages : m.id \in Nat
    BY DEF Messages, Ids
  <2> HIDE DEF n
  <2>7. \A m \in inbox' \cup outbox' : Past(m)'
    BY <2>2, <2>4, <2>6
  <2>8. \A o \in orphans' : o.gen = gen' /\ o.id <= lastId'
    BY <2>2, <2>6
  <2>9. \A i \in Ids : i <= lastId' => pending'[i] \in {0, gen'}
    <3>1. ASSUME NEW i \in Ids, i <= lastId' PROVE i = id \/ i <= lastId
      BY <2>2, <3>1 DEF Ids
    <3>2. \A i \in Ids : pending'[i] = IF i = id THEN gen ELSE pending[i]
      BY <2>3
    <3> HIDE DEF id
    <3> QED
      BY <2>2, <3>1, <3>2
  <2>10. ASSUME NEW u \in Threads, mine'[u] # Unset PROVE Past(mine[u])'
    <3>1. CASE u = t
      <4>1. mine'[u] = n
        BY <2>2, <3>1
      <4> QED
        BY <2>2, <2>5, <4>1
    <3>2. CASE u # t
      <4>1. mine'[u] = mine[u]
        BY <2>2, <3>2
      <4> QED
        BY <2>4, <2>6, <2>10, <4>1
    <3> QED
      BY <3>1, <3>2
  <2> QED
    BY <2>3, <2>7, <2>8, <2>9, <2>10
<1>11. ASSUME NEW t \in Threads, Write(t) PROVE AnswerInv'
  BY <1>11, SentPast DEF Write
<1>12. ASSUME NEW t \in Threads, WriteRefused(t) PROVE AnswerInv'
  BY <1>12 DEF WriteRefused, Goto
<1>13. ASSUME NEW t \in Threads, WriteBroken(t) PROVE AnswerInv'
  BY <1>13 DEF WriteBroken, Goto
<1>14. ASSUME NEW t \in Threads, Wake(t) PROVE AnswerInv'
  BY <1>14 DEF Wake, Goto
<1>15. ASSUME NEW t \in Threads, TimeOut(t) PROVE AnswerInv'
  BY <1>15 DEF TimeOut, Goto
<1>16. ASSUME NEW t \in Threads, Pop(t) PROVE AnswerInv'
  <2>1. UNCHANGED <<gen, lastId, orphans, reply, inbox, outbox>>
    BY <1>16 DEF Pop
  <2>2. PICK x : pending' = [pending EXCEPT ![x] = 0]
    BY <1>16 DEF Pop
  <2>3. mine' = [mine EXCEPT ![t] = Unset]
    BY <1>16 DEF Pop
  <2>4. \A i \in Ids : i <= lastId' => pending'[i] \in {0, gen'}
    <3>1. \A i \in Ids : pending'[i] \in {0, pending[i]}
      BY <2>2
    <3> QED
      BY <2>1, <3>1
  <2>5. \A u \in Threads : mine'[u] # Unset => Past(mine[u])'
    <3>1. \A u \in Threads : mine'[u] \in {Unset, mine[u]}
      BY <2>3
    <3> QED
      BY <2>1, <3>1
  <2> QED
    BY <2>1, <2>4, <2>5
<1>17. ASSUME NEW t \in Threads, WriteBlocks(t) PROVE AnswerInv'
  BY <1>17 DEF WriteBlocks
<1>25. ASSUME NEW t \in Threads, WriteGoesOn(t) PROVE AnswerInv'
  BY <1>25, SentPast DEF WriteGoesOn
<1>18. ASSUME NEW m \in Messages, Serve(m) PROVE AnswerInv'
  BY <1>18 DEF Serve
<1>19. ASSUME NEW m \in Messages, Read(m) PROVE AnswerInv'
  <2>1. outbox' \subseteq outbox /\ UNCHANGED <<gen, lastId, pending, inbox, mine>>
    BY <1>19 DEF Read
  <2>2. Past(m)
    BY <1>19 DEF Read
  <2>3. CASE m.gen = gen
    <3>1. m.id \in Ids /\ m.id <= lastId
      BY <2>2, <2>3 DEF Messages
    <3>2. CASE pending[m.id] = 0
      BY <1>19, <2>1, <2>3, <3>1, <3>2 DEF Read, IsCurrent
    <3>3. CASE pending[m.id] # 0
      <4>1. pending[m.id] = m.gen
        BY <2>3, <3>1, <3>3
      <4>2. [gen |-> m.gen, id |-> m.id] = m
        BY DEF Messages
      <4>3. reply' = [reply EXCEPT ![m] = m] /\ UNCHANGED orphans
        BY <1>19, <2>3, <3>3, <4>1, <4>2 DEF Read, IsCurrent
      <4> QED
        BY <2>1, <4>3
    <3> QED
      BY <3>2, <3>3
  <2>4. CASE m.gen # gen
    BY <1>19, <2>1, <2>4 DEF Read, IsCurrent
  <2> QED
    BY <2>3, <2>4
<1>20. ASSUME NEW g \in Gens, Exit(g) PROVE AnswerInv'
  BY <1>20 DEF Exit
<1>21. ASSUME NEW g \in Gens, ReadEnd(g) PROVE AnswerInv'
  BY <1>21 DEF ReadEnd, EndReader
<1>22. ASSUME NEW g \in Gens, ReadFails(g) PROVE AnswerInv'
  BY <1>22 DEF ReadFails, EndReader
<1>23. CASE UNCHANGED vars
  BY <1>23 DEF vars
<1>24. ASSUME NEW t \in Threads, Proceed(t) PROVE AnswerInv'
  BY <1>24, <1>2, <1>3, <1>4, <1>5, <1>6, <1>7, <1>8, <1>9, <1>10, <1>11, <1>12, <1>13,
    <1>14, <1>15, <1>16
  DEF Proceed
<1> QED
  BY <1>1, <1>17, <1>18, <1>19, <1>20, <1>21, <1>22, <1>23, <1>24, <1>25 DEF Next

\* Ids begin at 1 again in every generation, answers outlive their request and
\* their process, and still none is handed to a request it does not answer.
THEOREM AnswersMatch == Spec => []AnswerMatches
<1>1. /\ TypeOK /\ GenInv /\ AnswerInv /\ [Next]_vars => (TypeOK /\ GenInv /\ AnswerInv)'
  BY TypeStep, GenStep, AnswerStep
<1>2. AnswerInv => AnswerMatches
  BY DEF AnswerInv
<1> QED
  BY <1>1, <1>2, TypeInit, AnswerInit, PTL DEF Spec

=============================================================================
