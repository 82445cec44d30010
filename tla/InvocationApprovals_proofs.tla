----------------------- MODULE InvocationApprovals_proofs -----------------------
(***************************************************************************)
(* Safety of the invocation approvals for any approvals, threads, crashes  *)
(* and failed commits, that their rows implement OnceEffect, and that what *)
(* was withdrawn in time never runs; and of the other wait of a turn on    *)
(* its user, LiveReplies, whose names are kept apart for this module to    *)
(* extend both.  No proof about one uses the other.                        *)
(***************************************************************************)
EXTENDS InvocationApprovals, LiveReplies, TLAPS

LEMMA TypeInit == Init => TypeOK
<1> USE BoundsAssumption DEF Statuses, Decisions, Executions, Ended, NotShown
<1>1. NotShown \in Statuses
  OBVIOUS
<1>2. \A S : [x \in S |-> NotShown] \in [S -> Statuses]
  BY <1>1
<1> QED
  BY <1>2 DEF Init, TypeOK, Pcs

LEMMA TypeStep == TypeOK /\ [Next]_vars => TypeOK'
<1> SUFFICES ASSUME TypeOK, [Next]_vars PROVE TypeOK'
  OBVIOUS
<1> USE PollerAssumption, BoundsAssumption
    DEF TypeOK, rows, outside, thread, bounds, Decisions, Executions, Ended, Pcs
<1>0. \A d \in Decisions, e \in Executions : <<d, e>> \in Statuses
  BY DEF Statuses
<1>t. <<"pending", "not_started">> \in Statuses /\ NotShown \in Statuses
  BY <1>0 DEF NotShown
<1>1. ASSUME NEW c \in Threads, NEW a \in Approvals, Submit(c, a) PROVE TypeOK'
  BY <1>1
  DEF Submit, Begin, Goto, Idle
<1>2. ASSUME NEW c \in Threads, Send(c) PROVE TypeOK'
  <2>1. message' \in [Approvals -> Statuses]
    BY <1>2, <1>t DEF Send
  <2> QED
    BY <1>2, <2>1 DEF Send, Goto
<1>3. ASSUME NEW c \in Threads, StoreDelivery(c) PROVE TypeOK'
  BY <1>3
  DEF StoreDelivery, Goto
<1>4. ASSUME NEW c \in Threads, NEW a \in Approvals, Approve(c, a) PROVE TypeOK'
  BY <1>4
  DEF Approve, Claimable, Asked, Idle, Begin, Goto
<1>5. ASSUME NEW c \in Threads, NEW a \in Approvals, DenyRead(c, a) PROVE TypeOK'
  BY <1>5
  DEF DenyRead, Asked, Idle, Begin, Goto
<1>6. ASSUME NEW c \in Threads, DenyCommit(c) PROVE TypeOK'
  BY <1>6
  DEF DenyCommit, Denied, Goto
<1>7. ASSUME NEW a \in Approvals, PressedLate(a) PROVE TypeOK'
  BY <1>7
  DEF PressedLate, Asked, Idle, Begin, Goto
<1>8. ASSUME NEW c \in Threads, Authorise(c) PROVE TypeOK'
  BY <1>8
  DEF Authorise, Goto
<1>9. ASSUME NEW c \in Threads, Perform(c) PROVE TypeOK'
  BY <1>9
  DEF Perform, Goto
<1>10. ASSUME NEW c \in Threads, Record(c) PROVE TypeOK'
  BY <1>10
  DEF Record, Goto
<1>11. ASSUME NEW c \in Threads, RecordFails(c) PROVE TypeOK'
  BY <1>11
  DEF RecordFails, Goto
<1>12. ASSUME NEW c \in Threads, Tell(c) PROVE TypeOK'
  <2>1. <<decision[on[c]], execution[on[c]]>> \in Statuses
    BY <1>12, <1>0 DEF Statuses
  <2>2. shown' \in [Threads -> Statuses]
    BY <1>12, <2>1 DEF Tell
  <2> QED
    BY <1>12, <2>1, <2>2 DEF Tell, Return, Goto
<1>13. ASSUME NEW c \in Threads, Edit(c) PROVE TypeOK'
  <2>1. message' \in [Approvals -> Statuses]
    BY <1>13 DEF Edit
  <2>2. shown' \in [Threads -> Statuses]
    BY <1>13, <1>t DEF Edit
  <2> QED
    BY <1>13, <2>1, <2>2 DEF Edit, Return, Goto
<1>14. ASSUME NEW c \in Threads, Tail(c) PROVE TypeOK'
  <2>1. <<decision[on[c]], execution[on[c]]>> \in Statuses
    BY <1>14, <1>0 DEF Statuses
  <2>2. shown' \in [Threads -> Statuses]
    BY <1>14, <2>1 DEF Tail
  <2> QED
    BY <1>14, <2>1, <2>2 DEF Tail, Goto
<1>15. ASSUME NEW c \in Threads, Retouch(c) PROVE TypeOK'
  <2>1. message' \in [Approvals -> Statuses]
    BY <1>15 DEF Retouch
  <2>2. shown' \in [Threads -> Statuses]
    BY <1>15, <1>t DEF Retouch
  <2>3. pc' \in [Threads -> Pcs] /\ UNCHANGED <<on, result>>
    BY <1>15 DEF Retouch, Goto
  <2>4. delivery' \in
         [Approvals -> {"pending", "delivered", "failed", "updated", "update_failed"}]
    BY <1>15 DEF Retouch
  <2>5. UNCHANGED <<server, decision, execution, authority, performed, overtaken, crashes,
                    faults>>
    BY <1>15 DEF Retouch
  <2> QED
    BY <1>15, <2>1, <2>2, <2>3, <2>4, <2>5
<1>16. ASSUME NEW a \in Approvals, Withdraw(a) PROVE TypeOK'
  BY <1>16
  DEF Withdraw
<1>21. ASSUME NEW a \in Approvals, Invalidate(a) PROVE TypeOK'
  BY <1>21
  DEF Invalidate, Claimable
<1>22. ASSUME ChildStarts PROVE TypeOK'
  BY <1>22
  DEF ChildStarts, Executing, Held
<1>17. ASSUME Crash PROVE TypeOK'
  BY <1>17, <1>t
  DEF Crash
<1>18. ASSUME Recover PROVE TypeOK'
  BY <1>18
  DEF Recover, Recovered, Executing
<1>19. ASSUME Serve PROVE TypeOK'
  BY <1>19
  DEF Serve
<1>20. CASE UNCHANGED vars
  BY <1>20 DEF vars
<1> QED
  BY <1>1, <1>2, <1>3, <1>4, <1>5, <1>6, <1>7, <1>8, <1>9, <1>10, <1>11,
    <1>12, <1>13, <1>14, <1>15, <1>16, <1>17, <1>18, <1>19, <1>20, <1>21, <1>22
  DEF Next, ThreadStep

\* Every column keeps to the values its readers know.
THEOREM TypeCorrect == Spec => []TypeOK
<1> QED
  BY TypeInit, TypeStep, PTL DEF Spec

-----------------------------------------------------------------------------
\* A thread that executes holds a row of its own, executing or settled meanwhile by a
\* starting child, not performed until it performs it; a process that is down has no
\* thread.
HoldInv ==
    /\ \A c \in Threads : pc[c] \in Holders =>
         /\ decision[on[c]] = "approved"
         /\ \/ execution[on[c]] = "executing"
            \/ execution[on[c]] = "outcome_unknown" /\ on[c] \in overtaken
    /\ \A c \in Threads : pc[c] \in {"authorise", "perform"} => performed[on[c]] = 0
    /\ \A c, d \in Threads : pc[c] \in Holders /\ pc[d] \in Holders /\ c # d =>
         on[c] # on[d]
    /\ server = "down" => \A c \in Threads : pc[c] = "idle"

RowInv ==
    \A a \in Approvals :
        /\ performed[a] <= 1
        /\ decision[a] \in {"none", "denied"} => execution[a] = "not_started"
        /\ execution[a] = "executing" => decision[a] = "approved"
        /\ execution[a] = "not_started" => performed[a] = 0
        /\ performed[a] > 0 => decision[a] = "approved"

LEMMA HoldStep == TypeOK /\ RowInv /\ HoldInv /\ [Next]_vars => HoldInv'
<1> SUFFICES ASSUME TypeOK, RowInv, HoldInv, [Next]_vars PROVE HoldInv'
  OBVIOUS
<1>0. TypeOK'
  BY TypeStep
<1> USE <1>0, PollerAssumption
    DEF TypeOK, HoldInv, RowInv, Holders, rows, outside, thread, bounds, Pcs
<1>1. ASSUME NEW c \in Threads, NEW a \in Approvals, Submit(c, a) PROVE HoldInv'
  BY <1>1
  DEF Submit, Begin, Goto, Idle
<1>2. ASSUME NEW c \in Threads, Send(c) PROVE HoldInv'
  BY <1>2
  DEF Send, Goto
<1>3. ASSUME NEW c \in Threads, StoreDelivery(c) PROVE HoldInv'
  BY <1>3
  DEF StoreDelivery, Goto
<1>4. ASSUME NEW c \in Threads, NEW a \in Approvals, Approve(c, a) PROVE HoldInv'
  BY <1>4
  DEF Approve, Claimable, Asked, Idle, Begin, Goto
<1>5. ASSUME NEW c \in Threads, NEW a \in Approvals, DenyRead(c, a) PROVE HoldInv'
  BY <1>5
  DEF DenyRead, Asked, Idle, Begin, Goto
<1>6. ASSUME NEW c \in Threads, DenyCommit(c) PROVE HoldInv'
  BY <1>6
  DEF DenyCommit, Denied, Goto
<1>7. ASSUME NEW a \in Approvals, PressedLate(a) PROVE HoldInv'
  BY <1>7
  DEF PressedLate, Asked, Idle, Begin, Goto
<1>8. ASSUME NEW c \in Threads, Authorise(c) PROVE HoldInv'
  BY <1>8
  DEF Authorise, Goto
<1>9. ASSUME NEW c \in Threads, Perform(c) PROVE HoldInv'
  BY <1>9
  DEF Perform, Goto
<1>10. ASSUME NEW c \in Threads, Record(c) PROVE HoldInv'
  BY <1>10
  DEF Record, Goto
<1>11. ASSUME NEW c \in Threads, RecordFails(c) PROVE HoldInv'
  BY <1>11
  DEF RecordFails, Goto
<1>12. ASSUME NEW c \in Threads, Tell(c) PROVE HoldInv'
  BY <1>12
  DEF Tell, Return, Goto
<1>13. ASSUME NEW c \in Threads, Edit(c) PROVE HoldInv'
  BY <1>13
  DEF Edit, Return, Goto
<1>14. ASSUME NEW c \in Threads, Tail(c) PROVE HoldInv'
  BY <1>14
  DEF Tail, Goto
<1>15. ASSUME NEW c \in Threads, Retouch(c) PROVE HoldInv'
  BY <1>15
  DEF Retouch, Goto
<1>16. ASSUME NEW a \in Approvals, Withdraw(a) PROVE HoldInv'
  BY <1>16
  DEF Withdraw
<1>21. ASSUME NEW a \in Approvals, Invalidate(a) PROVE HoldInv'
  BY <1>21
  DEF Invalidate, Claimable, Ended
<1>22. ASSUME ChildStarts PROVE HoldInv'
  BY <1>22
  DEF ChildStarts, Executing, Held, Ended
<1>17. ASSUME Crash PROVE HoldInv'
  BY <1>17
  DEF Crash
<1>18. ASSUME Recover PROVE HoldInv'
  BY <1>18
  DEF Recover, Recovered, Executing, Ended
<1>19. ASSUME Serve PROVE HoldInv'
  BY <1>19
  DEF Serve
<1>20. CASE UNCHANGED vars
  BY <1>20 DEF vars
<1> QED
  BY <1>1, <1>2, <1>3, <1>4, <1>5, <1>6, <1>7, <1>8, <1>9, <1>10, <1>11,
    <1>12, <1>13, <1>14, <1>15, <1>16, <1>17, <1>18, <1>19, <1>20, <1>21, <1>22
  DEF Next, ThreadStep

LEMMA RowStep == TypeOK /\ HoldInv /\ RowInv /\ [Next]_vars => RowInv'
<1> SUFFICES ASSUME TypeOK, HoldInv, RowInv, [Next]_vars PROVE RowInv'
  OBVIOUS
<1> USE PollerAssumption
    DEF TypeOK, HoldInv, RowInv, Holders, rows, outside, thread, bounds, Pcs
<1>1. ASSUME NEW c \in Threads, NEW a \in Approvals, Submit(c, a) PROVE RowInv'
  BY <1>1
  DEF Submit, Begin, Goto, Idle
<1>2. ASSUME NEW c \in Threads, Send(c) PROVE RowInv'
  BY <1>2
  DEF Send, Goto
<1>3. ASSUME NEW c \in Threads, StoreDelivery(c) PROVE RowInv'
  BY <1>3
  DEF StoreDelivery, Goto
<1>4. ASSUME NEW c \in Threads, NEW a \in Approvals, Approve(c, a) PROVE RowInv'
  BY <1>4
  DEF Approve, Claimable, Asked, Idle, Begin, Goto
<1>5. ASSUME NEW c \in Threads, NEW a \in Approvals, DenyRead(c, a) PROVE RowInv'
  BY <1>5
  DEF DenyRead, Asked, Idle, Begin, Goto
<1>6. ASSUME NEW c \in Threads, DenyCommit(c) PROVE RowInv'
  BY <1>6
  DEF DenyCommit, Denied, Goto
<1>7. ASSUME NEW a \in Approvals, PressedLate(a) PROVE RowInv'
  BY <1>7
  DEF PressedLate, Asked, Idle, Begin, Goto
<1>8. ASSUME NEW c \in Threads, Authorise(c) PROVE RowInv'
  BY <1>8
  DEF Authorise, Goto
<1>9. ASSUME NEW c \in Threads, Perform(c) PROVE RowInv'
  BY <1>9
  DEF Perform, Goto
<1>10. ASSUME NEW c \in Threads, Record(c) PROVE RowInv'
  BY <1>10
  DEF Record, Goto, Ended
<1>11. ASSUME NEW c \in Threads, RecordFails(c) PROVE RowInv'
  BY <1>11
  DEF RecordFails, Goto
<1>12. ASSUME NEW c \in Threads, Tell(c) PROVE RowInv'
  BY <1>12
  DEF Tell, Return, Goto
<1>13. ASSUME NEW c \in Threads, Edit(c) PROVE RowInv'
  BY <1>13
  DEF Edit, Return, Goto
<1>14. ASSUME NEW c \in Threads, Tail(c) PROVE RowInv'
  BY <1>14
  DEF Tail, Goto
<1>15. ASSUME NEW c \in Threads, Retouch(c) PROVE RowInv'
  BY <1>15
  DEF Retouch, Goto
<1>16. ASSUME NEW a \in Approvals, Withdraw(a) PROVE RowInv'
  BY <1>16
  DEF Withdraw
<1>21. ASSUME NEW a \in Approvals, Invalidate(a) PROVE RowInv'
  BY <1>21
  DEF Invalidate, Claimable, Ended
<1>22. ASSUME ChildStarts PROVE RowInv'
  BY <1>22
  DEF ChildStarts, Executing, Held, Ended
<1>17. ASSUME Crash PROVE RowInv'
  BY <1>17
  DEF Crash
<1>18. ASSUME Recover PROVE RowInv'
  BY <1>18
  DEF Recover, Recovered, Executing
<1>19. ASSUME Serve PROVE RowInv'
  BY <1>19
  DEF Serve
<1>20. CASE UNCHANGED vars
  BY <1>20 DEF vars
<1> QED
  BY <1>1, <1>2, <1>3, <1>4, <1>5, <1>6, <1>7, <1>8, <1>9, <1>10, <1>11,
    <1>12, <1>13, <1>14, <1>15, <1>16, <1>17, <1>18, <1>19, <1>20, <1>21, <1>22
  DEF Next, ThreadStep

LEMMA Inductive == Spec => [](TypeOK /\ HoldInv /\ RowInv)
<1>1. Init => TypeOK /\ HoldInv /\ RowInv
  BY TypeInit DEF Init, HoldInv, RowInv, Holders
<1>2. TypeOK /\ HoldInv /\ RowInv /\ [Next]_vars => (TypeOK /\ HoldInv /\ RowInv)'
  BY TypeStep, HoldStep, RowStep
<1> QED
  BY <1>1, <1>2, PTL DEF Spec

\* An action is invoked at most once, however many decisions and restarts there are.
THEOREM AtMostOncePerformed == Spec => []PerformedOnce
<1>1. RowInv => PerformedOnce
  BY DEF RowInv, PerformedOnce
<1> QED
  BY <1>1, Inductive, PTL

\* What was invoked was approved, and stays so.
THEOREM OnlyApprovedPerformed == Spec => []PerformedWasApproved
<1>1. TypeOK /\ RowInv => PerformedWasApproved
  BY DEF TypeOK, RowInv, PerformedWasApproved
<1> QED
  BY <1>1, Inductive, PTL

-----------------------------------------------------------------------------
\* What a message tells, or a thread has read for one, stays true: a decision is
\* final, and so is an outcome, but for the one of a row that was overtaken.
True(s, a) ==
    \/ s \in {NotShown, <<"pending", "not_started">>}
    \/ /\ AlreadyDecided(a) /\ s[1] = decision[a]
       /\ s[2] \in Ended =>
            \/ s[2] = execution[a]
            \/ s[2] = "outcome_unknown" /\ a \in overtaken

ShownInv ==
    /\ \A a \in Approvals : True(message[a], a)
    /\ \A c \in Threads : pc[c] \in {"edit", "retouch"} => True(shown[c], on[c])
    /\ \A c \in Threads : pc[c] \in {"tell", "edit", "tail", "retouch"} => AlreadyDecided(on[c])
    /\ \A c \in Threads : pc[c] = "deny" => decision[on[c]] # "none"

\* A thread reads the row of its approval, for a message to come.
LEMMA ReadShown ==
    ASSUME TypeOK, ShownInv, NEW c \in Threads, AlreadyDecided(on[c]),
           UNCHANGED <<decision, execution, message, overtaken, on>>,
           NEW p \in {"edit", "tail", "retouch", "idle"}, pc' = [pc EXCEPT ![c] = p],
           \/ shown' = [shown EXCEPT ![c] = <<decision[on[c]], execution[on[c]]>>]
           \/ shown' = shown /\ p \notin {"edit", "retouch"}
    PROVE  ShownInv'
<1> DEFINE m == <<decision[on[c]], execution[on[c]]>>
<1>0. m[1] = decision[on[c]] /\ m[2] = execution[on[c]]
  OBVIOUS
<1> HIDE DEF m
<1>t. /\ m[1] = decision[on[c]]
      /\ m[2] \in Ended =>
           \/ m[2] = execution[on[c]]
           \/ m[2] = "outcome_unknown" /\ on[c] \in overtaken
  BY <1>0
<1>1. True(m, on[c])
  BY <1>t, Zenon DEF True
<1>2. /\ \A s, a : True(s, a) => True(s, a)'
      /\ \A a : AlreadyDecided(a)' <=> AlreadyDecided(a)
  BY DEF True, AlreadyDecided
<1>3. \A d \in Threads : d # c => pc'[d] = pc[d] /\ shown'[d] = shown[d]
  BY DEF TypeOK
<1>4. pc'[c] = p /\ (p \in {"edit", "retouch"} => shown'[c] = m)
  BY DEF TypeOK, m
<1>5. \A d \in Threads : pc'[d] \in {"edit", "retouch"} => True(shown[d], on[d])' 
  <2>1. ASSUME NEW d \in Threads, pc'[d] \in {"edit", "retouch"}
        PROVE  True(shown'[d], on[d])
    <3>1. CASE d = c
      BY <1>1, <1>4, <2>1, <3>1
    <3>2. CASE d # c
      BY <1>3, <2>1, <3>2 DEF ShownInv
    <3> QED
      BY <3>1, <3>2
  <2> QED
    BY <2>1 DEF True, AlreadyDecided
<1>6. \A a \in Approvals : True(message[a], a)'
  BY <1>2 DEF ShownInv
<1>7. /\ \A d \in Threads : pc'[d] \in {"tell", "edit", "tail", "retouch"} =>
           AlreadyDecided(on[d])'
      /\ \A d \in Threads : pc'[d] = "deny" => decision'[on'[d]] # "none"
  BY <1>2, <1>3, <1>4 DEF ShownInv
<1> QED
  BY <1>5, <1>6, <1>7 DEF ShownInv

\* A message gets what its thread has read.
LEMMA WriteShown ==
    ASSUME TypeOK, ShownInv, NEW c \in Threads, AlreadyDecided(on[c]),
           True(shown[c], on[c]), UNCHANGED <<decision, execution, overtaken, on>>,
           NEW p \in {"tail", "idle"}, pc' = [pc EXCEPT ![c] = p],
           message' = message \/ message' = [message EXCEPT ![on[c]] = shown[c]],
           shown' = [shown EXCEPT ![c] = NotShown]
    PROVE  ShownInv'
<1>1. \A s, a : True(s, a) => True(s, a)'
  BY DEF True, AlreadyDecided
<1>2. \A a \in Approvals :
        message'[a] = message[a] \/ (a = on[c] /\ message'[a] = shown[c])
  BY DEF TypeOK
<1>3. \A a \in Approvals : True(message'[a], a)
  BY <1>2 DEF ShownInv
<1>4. \A a \in Approvals : True(message[a], a)'
  BY <1>3 DEF True, AlreadyDecided
<1>5. \A d \in Threads : d # c => pc'[d] = pc[d] /\ shown'[d] = shown[d]
  BY DEF TypeOK
<1>6. pc'[c] = p
  BY DEF TypeOK
<1>7. \A d \in Threads : pc'[d] \in {"edit", "retouch"} => True(shown'[d], on[d])
  BY <1>5, <1>6 DEF ShownInv
<1>8. \A d \in Threads : pc'[d] \in {"edit", "retouch"} => True(shown[d], on[d])'
  BY <1>7 DEF True, AlreadyDecided
<1>9. /\ \A d \in Threads : pc'[d] \in {"tell", "edit", "tail", "retouch"} =>
           AlreadyDecided(on[d])'
      /\ \A d \in Threads : pc'[d] = "deny" => decision'[on'[d]] # "none"
  BY <1>5, <1>6 DEF ShownInv, AlreadyDecided
<1> QED
  BY <1>4, <1>8, <1>9 DEF ShownInv

LEMMA ShownStep == TypeOK /\ HoldInv /\ RowInv /\ ShownInv /\ [Next]_vars => ShownInv'
<1> SUFFICES ASSUME TypeOK, HoldInv, RowInv, ShownInv, [Next]_vars PROVE ShownInv'
  OBVIOUS
<1> USE PollerAssumption
    DEF TypeOK, HoldInv, RowInv, ShownInv, True, AlreadyDecided, Holders, rows, outside,
      thread, bounds,
        Pcs, Statuses, Decisions, Executions, Ended, NotShown
<1>1. ASSUME NEW c \in Threads, NEW a \in Approvals, Submit(c, a) PROVE ShownInv'
  BY <1>1
  DEF Submit, Begin, Goto, Idle
<1>2. ASSUME NEW c \in Threads, Send(c) PROVE ShownInv'
  <2>1. /\ pc' = [pc EXCEPT ![c] = "sent"] \/ pc' = [pc EXCEPT ![c] = "idle"]
        /\ UNCHANGED <<decision, execution, overtaken, on, shown>>
    BY <1>2 DEF Send, Goto
  <2>2. \A a \in Approvals : message'[a] = message[a] \/ message'[a] = <<"pending", "not_started">>
    BY <1>2 DEF Send
  <2>3. ASSUME NEW a \in Approvals PROVE True(message[a], a)'
    <3>1. CASE message'[a] = message[a]
      BY <2>1, <3>1
    <3>2. CASE message'[a] = <<"pending", "not_started">>
      BY <3>2
    <3> QED
      BY <2>2, <3>1, <3>2
  <2> QED
    BY <2>1, <2>3
<1>3. ASSUME NEW c \in Threads, StoreDelivery(c) PROVE ShownInv'
  BY <1>3
  DEF StoreDelivery, Goto
<1>4. ASSUME NEW c \in Threads, NEW a \in Approvals, Approve(c, a) PROVE ShownInv'
  BY <1>4
  DEF Approve, Claimable, Asked, Idle, Begin, Goto
<1>5. ASSUME NEW c \in Threads, NEW a \in Approvals, DenyRead(c, a) PROVE ShownInv'
  BY <1>5
  DEF DenyRead, Asked, Idle, Begin, Goto
<1>6. ASSUME NEW c \in Threads, DenyCommit(c) PROVE ShownInv'
  BY <1>6
  DEF DenyCommit, Denied, Goto
<1>7. ASSUME NEW a \in Approvals, PressedLate(a) PROVE ShownInv'
  BY <1>7
  DEF PressedLate, Asked, Idle, Begin, Goto
<1>8. ASSUME NEW c \in Threads, Authorise(c) PROVE ShownInv'
  BY <1>8
  DEF Authorise, Goto
<1>9. ASSUME NEW c \in Threads, Perform(c) PROVE ShownInv'
  BY <1>9
  DEF Perform, Goto
<1>10. ASSUME NEW c \in Threads, Record(c) PROVE ShownInv'
  BY <1>10
  DEF Record, Goto, Ended
<1>11. ASSUME NEW c \in Threads, RecordFails(c) PROVE ShownInv'
  BY <1>11
  DEF RecordFails, Goto
<1>12. ASSUME NEW c \in Threads, Tell(c) PROVE ShownInv'
  <2>1. /\ AlreadyDecided(on[c])
        /\ UNCHANGED <<decision, execution, message, overtaken, on>>
    BY <1>12 DEF Tell, Return, Goto
  <2>2. PICK p \in {"edit", "tail", "idle"} :
          /\ pc' = [pc EXCEPT ![c] = p]
          /\ \/ shown' = [shown EXCEPT ![c] = <<decision[on[c]], execution[on[c]]>>]
             \/ shown' = shown /\ p \notin {"edit", "retouch"}
    BY <1>12 DEF Tell, Return, Goto
  <2> QED
    BY <2>1, <2>2, ReadShown
<1>13. ASSUME NEW c \in Threads, Edit(c) PROVE ShownInv'
  <2>1. /\ UNCHANGED <<decision, execution, overtaken, on>>
        /\ message' = message \/ message' = [message EXCEPT ![on[c]] = shown[c]]
        /\ shown' = [shown EXCEPT ![c] = NotShown]
    BY <1>13 DEF Edit, Return, Goto
  <2>3. PICK p \in {"tail", "idle"} : pc' = [pc EXCEPT ![c] = p]
    BY <1>13 DEF Edit, Return, Goto
  <2>2. AlreadyDecided(on[c]) /\ True(shown[c], on[c])
    BY <1>13 DEF Edit
  <2> QED
    BY <2>1, <2>2, <2>3, WriteShown
<1>14. ASSUME NEW c \in Threads, Tail(c) PROVE ShownInv'
  <2>1. /\ AlreadyDecided(on[c])
        /\ UNCHANGED <<decision, execution, message, overtaken, on>>
    BY <1>14 DEF Tail, Goto
  <2>2. PICK p \in {"retouch", "idle"} :
          /\ pc' = [pc EXCEPT ![c] = p]
          /\ \/ shown' = [shown EXCEPT ![c] = <<decision[on[c]], execution[on[c]]>>]
             \/ shown' = shown /\ p \notin {"edit", "retouch"}
    BY <1>14 DEF Tail, Goto
  <2> QED
    BY <2>1, <2>2, ReadShown
<1>15. ASSUME NEW c \in Threads, Retouch(c) PROVE ShownInv'
  <2>1. /\ UNCHANGED <<decision, execution, overtaken, on>>
        /\ pc' = [pc EXCEPT ![c] = "idle"]
        /\ message' = message \/ message' = [message EXCEPT ![on[c]] = shown[c]]
        /\ shown' = [shown EXCEPT ![c] = NotShown]
    BY <1>15 DEF Retouch, Goto
  <2>2. AlreadyDecided(on[c]) /\ True(shown[c], on[c])
    BY <1>15 DEF Retouch
  <2> QED
    BY <2>1, <2>2, WriteShown
<1>16. ASSUME NEW a \in Approvals, Withdraw(a) PROVE ShownInv'
  BY <1>16
  DEF Withdraw
<1>21. ASSUME NEW a \in Approvals, Invalidate(a) PROVE ShownInv'
  BY <1>21
  DEF Invalidate, Claimable
<1>22. ASSUME ChildStarts PROVE ShownInv'
  BY <1>22
  DEF ChildStarts, Executing, Held
<1>17. ASSUME Crash PROVE ShownInv'
  BY <1>17
  DEF Crash
<1>18. ASSUME Recover PROVE ShownInv'
  BY <1>18
  DEF Recover, Recovered, Executing
<1>19. ASSUME Serve PROVE ShownInv'
  BY <1>19
  DEF Serve
<1>20. CASE UNCHANGED vars
  BY <1>20 DEF vars
<1> QED
  BY <1>1, <1>2, <1>3, <1>4, <1>5, <1>6, <1>7, <1>8, <1>9, <1>10, <1>11,
    <1>12, <1>13, <1>14, <1>15, <1>16, <1>17, <1>18, <1>19, <1>20, <1>21, <1>22
  DEF Next, ThreadStep

\* Whichever of the threads edits it last, the message tells the decision and, once
\* it tells an outcome, the outcome of the row.
THEOREM MessagesAreTrue == Spec => []ShownIsTrue
<1>1. Init => ShownInv
  BY DEF Init, ShownInv, True
<1>2. TypeOK /\ HoldInv /\ RowInv /\ ShownInv /\ [Next]_vars => ShownInv'
  BY ShownStep
<1>3. ShownInv => ShownIsTrue
  BY DEF ShownInv, True, ShownIsTrue
<1> QED
  BY <1>1, <1>2, <1>3, Inductive, PTL DEF Spec

-----------------------------------------------------------------------------
LEMMA LedgerInit == Init => Ledger!Init
BY DEF Init, Ledger!Init, Phase, Held, Holders, Ended

\* A step that leaves the three columns and the holders alone is a stutter of the
\* ledger.
LEMMA LedgerStutter ==
    ASSUME decision' = decision, execution' = execution, performed' = performed,
           \A a \in Approvals : Held(a)' <=> Held(a)
    PROVE  UNCHANGED Ledger!vars
<1>1. \A a \in Approvals : Phase(a)' = Phase(a)
  BY DEF Phase
<1> QED
  BY <1>1 DEF Ledger!vars

\* A row is held alike after a step of a thread that neither takes nor leaves a claim.
LEMMA HeldStays ==
    ASSUME TypeOK, NEW c \in Threads, NEW p, NEW b, pc' = [pc EXCEPT ![c] = p],
           on' = [on EXCEPT ![c] = b],
           \/ pc[c] \notin Holders /\ p \notin Holders
           \/ pc[c] \in Holders /\ p \in Holders /\ b = on[c]
    PROVE  \A a \in Approvals : Held(a)' <=> Held(a)
BY DEF TypeOK, Held

LEMMA SameOn == ASSUME TypeOK, NEW c \in Threads PROVE on = [on EXCEPT ![c] = on[c]]
BY DEF TypeOK

\* A thread that leaves a claim leaves that one only; nobody else has it.
LEMMA HeldLeft ==
    ASSUME TypeOK, HoldInv, NEW c \in Threads, NEW p, p \notin Holders,
           pc[c] \in Holders, pc' = [pc EXCEPT ![c] = p], on' = on
    PROVE  /\ ~Held(on[c])' /\ Held(on[c])
           /\ \A a \in Approvals : a # on[c] => (Held(a)' <=> Held(a))
BY DEF TypeOK, HoldInv, Held

LEMMA HeldIsClaimed ==
    ASSUME TypeOK, HoldInv, NEW a \in Approvals, Held(a)
    PROVE  Phase(a) = "claimed" /\ decision[a] = "approved" /\ execution[a] # "not_started"
BY DEF TypeOK, HoldInv, Held, Phase

LEMMA LedgerStep ==
    TypeOK /\ HoldInv /\ RowInv /\ [Next]_vars => [Ledger!Next]_(Ledger!vars)
<1> SUFFICES ASSUME TypeOK, HoldInv, RowInv, [Next]_vars
             PROVE  Ledger!Next \/ UNCHANGED Ledger!vars
  OBVIOUS
<1>0. TypeOK' /\ HoldInv' /\ RowInv'
  BY TypeStep, HoldStep, RowStep
<1> USE PollerAssumption DEF rows, outside, thread, bounds
<1>1. ASSUME NEW c \in Threads, NEW a \in Approvals, Approve(c, a) PROVE Ledger!Next
  <2>1. Phase(a) = "waiting"
    <3>1. ~Held(a) /\ execution[a] = "not_started" /\ decision[a] # "denied"
      <4>1. execution[a] = "not_started" /\ decision[a] # "denied"
        BY <1>1 DEF Approve, Claimable
      <4> QED
        BY <4>1, HeldIsClaimed
    <3> QED
      BY <3>1 DEF Phase, Ended
  <2>2. Phase(a)' = "claimed" /\ performed' = performed
    <3>1. decision'[a] = "approved" /\ execution'[a] = "executing" /\ performed' = performed
      BY <1>1 DEF Approve, TypeOK
    <3> QED
      BY <3>1 DEF Phase, Ended
  <2>3. ASSUME NEW b \in Approvals, b # a PROVE Phase(b)' = Phase(b)
    <3>1. Held(b)' <=> Held(b)
      BY <1>1, <2>3 DEF Approve, Asked, Idle, Begin, Goto, Held, TypeOK, Holders
    <3>2. decision'[b] = decision[b] /\ execution'[b] = execution[b]
      BY <1>1, <2>3 DEF Approve, TypeOK
    <3> QED
      BY <3>1, <3>2 DEF Phase
  <2>4. Ledger!Claim(a)
    BY <2>1, <2>2, <2>3 DEF Ledger!Claim
  <2> QED
    BY <2>4 DEF Ledger!Next
<1>2. ASSUME NEW c \in Threads, Record(c) PROVE Ledger!Next
  <2>0. PICK x \in Approvals : x = on[c]
    BY DEF TypeOK
  <2>1. /\ ~Held(x)' /\ Held(x)
        /\ \A b \in Approvals : b # x => (Held(b)' <=> Held(b))
    <3>1. pc[c] \in Holders /\ "tell" \notin Holders /\ on' = on
      BY <1>2 DEF Record, Holders
    <3>2. pc' = [pc EXCEPT ![c] = "tell"]
      BY <1>2 DEF Record, Goto
    <3> QED
      BY <2>0, <3>1, <3>2, HeldLeft
  <2>2. PICK e \in Ended : execution' = [execution EXCEPT ![x] = e]
    <3>1. result[c] \in Ended /\ "failed" \in Ended
      BY DEF TypeOK, Ended
    <3> QED
      BY <1>2, <2>0, <3>1 DEF Record
  <2>3. UNCHANGED <<decision, performed>>
    BY <1>2 DEF Record
  <2>4. Phase(x) = "claimed" /\ decision[x] = "approved"
    BY <2>1, HeldIsClaimed
  <2>5. Phase(x)' = "settled"
    BY <2>1, <2>2, <2>3, <2>4 DEF Phase, TypeOK, Ended
  <2>6. \A b \in Approvals : b # x => Phase(b)' = Phase(b)
    BY <2>1, <2>2, <2>3 DEF Phase, TypeOK
  <2>7. Ledger!Settle({x})
    BY <2>3, <2>4, <2>5, <2>6 DEF Ledger!Settle
  <2> QED
    BY <2>7 DEF Ledger!Next
<1>3. ASSUME NEW c \in Threads, RecordFails(c) PROVE Ledger!Next \/ UNCHANGED Ledger!vars
  <2>0. PICK x \in Approvals : x = on[c]
    BY DEF TypeOK
  <2>1. /\ ~Held(x)' /\ Held(x)
        /\ \A b \in Approvals : b # x => (Held(b)' <=> Held(b))
    <3>1. pc[c] \in Holders /\ "idle" \notin Holders /\ on' = on
      BY <1>3 DEF RecordFails, Holders
    <3>2. pc' = [pc EXCEPT ![c] = "idle"]
      BY <1>3 DEF RecordFails, Goto
    <3> QED
      BY <2>0, <3>1, <3>2, HeldLeft
  <2>2. UNCHANGED <<decision, execution, performed>>
    BY <1>3 DEF RecordFails
  <2>3. \A b \in Approvals : b # x => Phase(b)' = Phase(b)
    BY <2>1, <2>2 DEF Phase
  <2>4. Phase(x) = "claimed" /\ decision[x] = "approved"
    BY <2>1, HeldIsClaimed
  <2>5. CASE execution[x] = "executing"
    <3>0. decision'[x] = "approved" /\ execution'[x] = "executing"
      BY <2>2, <2>4, <2>5
    <3>1. Phase(x)' = "claimed"
      BY <3>0 DEF Phase, Ended
    <3>2. \A b \in Approvals : Phase(b)' = Phase(b)
      BY <2>3, <2>4, <3>1
    <3> QED
      BY <2>2, <3>2 DEF Ledger!vars
  <2>6. CASE execution[x] = "outcome_unknown"
    <3>1. Phase(x)' = "settled"
      BY <2>1, <2>2, <2>4, <2>6 DEF Phase, Ended
    <3>2. Ledger!Settle({x})
      BY <2>2, <2>3, <2>4, <3>1 DEF Ledger!Settle
    <3> QED
      BY <3>2 DEF Ledger!Next
  <2>7. execution[x] \in {"executing", "outcome_unknown"}
    BY <1>3, <2>0 DEF RecordFails, HoldInv, Holders
  <2> QED
    BY <2>5, <2>6, <2>7
<1>4. ASSUME NEW c \in Threads, DenyCommit(c)
      PROVE  Ledger!Next \/ UNCHANGED Ledger!vars
  <2>0. PICK x \in Approvals : x = on[c]
    BY DEF TypeOK
  <2>1. \A b \in Approvals : Held(b)' <=> Held(b)
    <3>1. /\ pc[c] \notin Holders /\ "tell" \notin Holders
          /\ pc' = [pc EXCEPT ![c] = "tell"] /\ on' = on
      BY <1>4 DEF DenyCommit, Denied, Goto, Holders
    <3> QED
      BY <3>1, SameOn, HeldStays
  <2>2. CASE decision[x] = "pending" /\ execution[x] = "not_started"
    <3>1. ~Held(x)
      BY <2>2, HeldIsClaimed
    <3>2. decision' = [decision EXCEPT ![x] = "denied"] /\ UNCHANGED <<execution, performed>>
      BY <1>4, <2>0, <2>2 DEF DenyCommit, Denied
    <3>3. Phase(x) = "waiting" /\ Phase(x)' = "settled"
      BY <2>2, <3>1, <3>2 DEF Phase, Ended, TypeOK
    <3>4. \A b \in Approvals : b # x => Phase(b)' = Phase(b)
      BY <2>1, <3>2 DEF Phase, TypeOK
    <3> QED
      BY <3>2, <3>3, <3>4 DEF Ledger!Next, Ledger!Refuse
  <2>3. CASE ~(decision[x] = "pending" /\ execution[x] = "not_started")
    BY <1>4, <2>0, <2>1, <2>3, LedgerStutter DEF DenyCommit, Denied
  <2> QED
    BY <2>2, <2>3
<1>5. ASSUME NEW c \in Threads, Perform(c) PROVE Ledger!Next
  <2>0. PICK x \in Approvals : x = on[c]
    BY DEF TypeOK
  <2>1. Phase(x) = "claimed" /\ performed[x] = 0
    BY <1>5, <2>0, HeldIsClaimed DEF Perform, HoldInv, Holders, Held
  <2>2. performed' = [performed EXCEPT ![x] = 1] /\ UNCHANGED <<decision, execution>>
    BY <1>5, <2>0, <2>1 DEF Perform, TypeOK
  <2>3. \A a \in Approvals : Held(a)' <=> Held(a)
    <3>1. /\ pc[c] \in Holders /\ "record" \in Holders
          /\ pc' = [pc EXCEPT ![c] = "record"] /\ on' = on
      BY <1>5 DEF Perform, Goto, Holders
    <3> QED
      BY <3>1, SameOn, HeldStays
  <2>4. \A a \in Approvals : Phase(a)' = Phase(a)
    BY <2>2, <2>3 DEF Phase
  <2>5. Ledger!Perform(x)
    BY <2>1, <2>2, <2>4 DEF Ledger!Perform
  <2> QED
    BY <2>5 DEF Ledger!Next
<1>6. ASSUME NEW c \in Threads, NEW a \in Approvals, Submit(c, a)
      PROVE  UNCHANGED Ledger!vars
  <2>1. \A b \in Approvals : Held(b)' <=> Held(b)
    <3>1. /\ pc[c] \notin Holders /\ "send" \notin Holders
          /\ pc' = [pc EXCEPT ![c] = "send"] /\ on' = [on EXCEPT ![c] = a]
      BY <1>6 DEF Submit, Idle, Begin, Goto, Holders
    <3> QED
      BY <3>1, HeldStays
  <2>2. /\ decision[a] = "none" /\ decision' = [decision EXCEPT ![a] = "pending"]
        /\ UNCHANGED <<execution, performed>>
    BY <1>6 DEF Submit
  <2>3. \A b \in Approvals : Phase(b)' = Phase(b)
    BY <2>1, <2>2 DEF Phase, TypeOK
  <2> QED
    BY <2>2, <2>3 DEF Ledger!vars
<1>7. ASSUME NEW c \in Threads,
             \/ Send(c) \/ StoreDelivery(c) \/ Authorise(c) \/ Tell(c) \/ Edit(c)
             \/ Tail(c) \/ Retouch(c)
      PROVE  UNCHANGED Ledger!vars
  <2>1. UNCHANGED <<decision, execution, performed, on>>
    BY <1>7 DEF Send, StoreDelivery, Authorise, Tell, Edit, Tail, Retouch
  <2>2. PICK p \in Pcs :
          /\ pc' = [pc EXCEPT ![c] = p]
          /\ \/ pc[c] \notin Holders /\ p \notin Holders
             \/ pc[c] \in Holders /\ p \in Holders
    BY <1>7 DEF Send, StoreDelivery, Authorise, Tell, Edit, Tail, Retouch, Return, Goto,
      Holders, Pcs
  <2>3. \A a \in Approvals : Held(a)' <=> Held(a)
    BY <2>1, <2>2, SameOn, HeldStays
  <2> QED
    BY <2>1, <2>3, LedgerStutter
<1>8. ASSUME NEW c \in Threads, NEW a \in Approvals,
             DenyRead(c, a) \/ (c = Poller /\ PressedLate(a))
      PROVE  UNCHANGED Ledger!vars
  <2>1. UNCHANGED <<decision, execution, performed>>
    BY <1>8 DEF DenyRead, PressedLate
  <2>2. PICK p \in {"deny", "tail"} :
          /\ pc' = [pc EXCEPT ![c] = p] /\ on' = [on EXCEPT ![c] = a]
    BY <1>8 DEF DenyRead, PressedLate, Begin, Goto
  <2>3. pc[c] \notin Holders /\ p \notin Holders
    BY <1>8 DEF DenyRead, PressedLate, Asked, Idle, Holders
  <2>4. \A b \in Approvals : Held(b)' <=> Held(b)
    BY <2>2, <2>3, HeldStays
  <2> QED
    BY <2>1, <2>4, LedgerStutter
<1>9. ASSUME NEW a \in Approvals, Invalidate(a) PROVE Ledger!Next
  <2>1. /\ decision[a] \in {"pending", "approved"} /\ execution[a] = "not_started"
        /\ execution' = [execution EXCEPT ![a] = "stale"]
        /\ UNCHANGED <<decision, performed, pc, on>>
    BY <1>9 DEF Invalidate, Claimable
  <2>2. \A b \in Approvals : Held(b)' <=> Held(b)
    BY <2>1 DEF Held
  <2>3. ~Held(a)
    BY <2>1, HeldIsClaimed
  <2>4. Phase(a) = "waiting" /\ Phase(a)' = "settled"
    BY <2>1, <2>2, <2>3 DEF Phase, Ended, TypeOK
  <2>5. \A b \in Approvals : b # a => Phase(b)' = Phase(b)
    BY <2>1, <2>2 DEF Phase, TypeOK
  <2>6. Ledger!Refuse(a)
    BY <2>1, <2>4, <2>5 DEF Ledger!Refuse
  <2> QED
    BY <2>6 DEF Ledger!Next
<1>10. ASSUME NEW a \in Approvals, Withdraw(a) PROVE UNCHANGED Ledger!vars
  <2>1. UNCHANGED <<decision, execution, performed, pc, on>>
    BY <1>10 DEF Withdraw
  <2> QED
    BY <2>1, LedgerStutter DEF Held
<1>11. ASSUME ChildStarts PROVE Ledger!Next
  <2> DEFINE S == {a \in Approvals : execution[a] = "executing" /\ ~Held(a)}
  <2>1. \A a \in Approvals : Held(a)' <=> Held(a)
    BY <1>11 DEF ChildStarts, Held
  <2>2. /\ \A a \in Executing : execution'[a] = "outcome_unknown"
        /\ \A a \in Approvals \ Executing : execution'[a] = execution[a]
        /\ UNCHANGED <<decision, performed>>
    BY <1>11 DEF ChildStarts, Executing
  <2>3. \A a \in S : Phase(a) = "claimed" /\ Phase(a)' = "settled"
    BY <2>1, <2>2 DEF Executing, Phase, Ended, RowInv
  <2>4. \A a \in Approvals \ S : Phase(a)' = Phase(a)
    BY <2>1, <2>2 DEF Executing, Phase
  <2>5. Ledger!Settle(S) /\ S \in SUBSET Approvals
    BY <2>2, <2>3, <2>4 DEF Ledger!Settle
  <2> HIDE DEF S
  <2> QED
    BY <2>5 DEF Ledger!Next
<1>12. ASSUME Crash PROVE Ledger!Next
  <2> DEFINE S == {a \in Approvals : Held(a) /\ execution[a] # "executing"}
  <2>1. UNCHANGED <<decision, execution, performed>> /\ \A a \in Approvals : ~Held(a)'
    BY <1>12 DEF Crash, Held, Holders
  <2>2. \A a \in S : Phase(a) = "claimed" /\ Phase(a)' = "settled"
    <3>1. ASSUME NEW a \in S PROVE Phase(a) = "claimed" /\ Phase(a)' = "settled"
      <4>1. Phase(a) = "claimed" /\ decision[a] = "approved"
        BY HeldIsClaimed
      <4>2. execution[a] = "outcome_unknown"
        BY DEF HoldInv, Held
      <4> QED
        BY <2>1, <4>1, <4>2 DEF Phase, Ended
    <3> QED
      BY <3>1
  <2>3. \A a \in Approvals \ S : Phase(a)' = Phase(a)
    BY <2>1 DEF Phase
  <2>4. Ledger!Settle(S) /\ S \in SUBSET Approvals
    BY <2>1, <2>2, <2>3 DEF Ledger!Settle
  <2> HIDE DEF S
  <2> QED
    BY <2>4 DEF Ledger!Next
<1>13. ASSUME Recover PROVE Ledger!Next
  <2>0. \A a \in Approvals : ~Held(a) /\ ~Held(a)'
    BY <1>13 DEF Recover, Recovered, HoldInv, Held, Holders
  <2>1. \A a \in Executing : Phase(a) = "claimed" /\ Phase(a)' = "settled"
    BY <1>13, <2>0 DEF Recover, Recovered, Executing, Phase, Ended, RowInv
  <2>2. \A a \in Approvals \ Executing : Phase(a)' = Phase(a)
    BY <1>13, <2>0 DEF Recover, Recovered, Executing, Phase
  <2>3. performed' = performed
    BY <1>13 DEF Recover, Recovered
  <2>4. Executing \in SUBSET Approvals
    BY DEF Executing
  <2>5. Ledger!Settle(Executing)
    BY <2>1, <2>2, <2>3, <2>4 DEF Ledger!Settle
  <2> QED
    BY <2>4, <2>5 DEF Ledger!Next
<1>14. CASE Serve \/ UNCHANGED vars
  <2>1. UNCHANGED <<decision, execution, performed, pc, on>>
    BY <1>14 DEF Serve, vars
  <2> QED
    BY <2>1, LedgerStutter DEF Held
<1> QED
  BY <1>1, <1>2, <1>3, <1>4, <1>5, <1>6, <1>7, <1>8, <1>9, <1>10, <1>11, <1>12,
    <1>13, <1>14
  DEF Next, ThreadStep

\* The service implements the ledger of effects.
THEOREM ImplementsLedger == Spec => LedgerSpec
<1>1. TypeOK /\ HoldInv /\ RowInv /\ [Next]_vars => [Ledger!Next]_(Ledger!vars)
  BY LedgerStep
<1> QED
  BY <1>1, LedgerInit, Inductive, PTL DEF Spec, LedgerSpec, Ledger!Spec

-----------------------------------------------------------------------------
\* Once the authority of an action is gone and nobody is past the check of it, the
\* action stays as it is: execute_approved verifies under the claim.
Withdrawn(a) ==
    /\ ~authority[a] /\ performed[a] = 0
    /\ \A c \in Threads : ~(pc[c] = "perform" /\ on[c] = a)

LEMMA WithdrawnStep ==
    ASSUME NEW a \in Approvals, TypeOK, Withdrawn(a), [Next]_vars
    PROVE  Withdrawn(a)'
<1> USE PollerAssumption DEF TypeOK, Withdrawn
<1>1. ASSUME NEW c \in Threads, NEW b \in Approvals, Submit(c, b)
      PROVE  Withdrawn(a)'
  BY <1>1 DEF Submit, Begin, Goto, outside
<1>2. ASSUME NEW c \in Threads, Send(c) PROVE Withdrawn(a)'
  BY <1>2 DEF Send, Goto
<1>3. ASSUME NEW c \in Threads, StoreDelivery(c) PROVE Withdrawn(a)'
  BY <1>3 DEF StoreDelivery, Goto, outside
<1>4. ASSUME NEW c \in Threads, NEW b \in Approvals, Approve(c, b)
      PROVE  Withdrawn(a)'
  BY <1>4 DEF Approve, Begin, Goto, outside
<1>5. ASSUME NEW c \in Threads, NEW b \in Approvals, DenyRead(c, b)
      PROVE  Withdrawn(a)'
  BY <1>5 DEF DenyRead, Begin, Goto, outside
<1>6. ASSUME NEW c \in Threads, DenyCommit(c) PROVE Withdrawn(a)'
  BY <1>6 DEF DenyCommit, Denied, Goto, outside
<1>7. ASSUME NEW b \in Approvals, PressedLate(b) PROVE Withdrawn(a)'
  BY <1>7 DEF PressedLate, Begin, Goto, outside
<1>8. ASSUME NEW c \in Threads, Authorise(c) PROVE Withdrawn(a)'
  BY <1>8 DEF Authorise, Goto, outside
<1>9. ASSUME NEW c \in Threads, Perform(c) PROVE Withdrawn(a)'
  <2>1. on[c] # a
    BY <1>9 DEF Perform
  <2> QED
    BY <1>9, <2>1 DEF Perform, Goto
<1>10. ASSUME NEW c \in Threads, Record(c) PROVE Withdrawn(a)'
  BY <1>10 DEF Record, Goto, outside
<1>11. ASSUME NEW c \in Threads, RecordFails(c) PROVE Withdrawn(a)'
  BY <1>11 DEF RecordFails, Goto, outside
<1>12. ASSUME NEW c \in Threads, Tell(c) PROVE Withdrawn(a)'
  BY <1>12 DEF Tell, Return, Goto, outside
<1>13. ASSUME NEW c \in Threads, Edit(c) PROVE Withdrawn(a)'
  BY <1>13 DEF Edit, Return, Goto
<1>14. ASSUME NEW c \in Threads, Tail(c) PROVE Withdrawn(a)'
  BY <1>14 DEF Tail, Goto, outside
<1>15. ASSUME NEW c \in Threads, Retouch(c) PROVE Withdrawn(a)'
  BY <1>15 DEF Retouch, Goto
<1>16. ASSUME NEW b \in Approvals, Withdraw(b) PROVE Withdrawn(a)'
  BY <1>16 DEF Withdraw, thread
<1>21. ASSUME NEW b \in Approvals, Invalidate(b) PROVE Withdrawn(a)'
  BY <1>21 DEF Invalidate, thread
<1>22. CASE ChildStarts
  BY <1>22 DEF ChildStarts, thread
<1>17. CASE Crash
  BY <1>17 DEF Crash, outside
<1>18. CASE Recover
  BY <1>18 DEF Recover, Recovered, outside, thread
<1>19. CASE Serve
  BY <1>19 DEF Serve, outside, thread
<1>20. CASE UNCHANGED vars
  BY <1>20 DEF vars, outside, thread
<1> QED
  BY <1>1, <1>2, <1>3, <1>4, <1>5, <1>6, <1>7, <1>8, <1>9, <1>10, <1>11,
    <1>12, <1>13, <1>14, <1>15, <1>16, <1>17, <1>18, <1>19, <1>20, <1>21, <1>22
  DEF Next, ThreadStep

LEMMA WithdrawnStays ==
    ASSUME NEW a \in Approvals
    PROVE  Spec =>
             [](~authority[a] /\ execution[a] = "not_started" => [](performed[a] = 0))
<1>1. TypeOK /\ HoldInv /\ RowInv =>
        (~authority[a] /\ execution[a] = "not_started" => Withdrawn(a))
  BY DEF TypeOK, HoldInv, Holders, RowInv, Withdrawn
<1>2. TypeOK /\ Withdrawn(a) /\ [Next]_vars => Withdrawn(a)'
  BY WithdrawnStep
<1>3. Withdrawn(a) => performed[a] = 0
  BY DEF Withdrawn
<1> QED
  BY <1>1, <1>2, <1>3, Inductive, PTL DEF Spec

\* An action whose caller, grant, version or account changed before it was approved
\* is never invoked, in whatever state the service is by then.
THEOREM WithdrawnIsRefused == Spec => WithdrawnNeverRuns
<1>1. ASSUME NEW a \in Approvals
      PROVE  Spec =>
        [](~authority[a] /\ execution[a] = "not_started" => [](performed[a] = 0))
  BY WithdrawnStays
<1> QED
  BY <1>1 DEF WithdrawnNeverRuns

-----------------------------------------------------------------------------
(* The other wait of a turn on its user: live replies (LiveReplies), for any *)
(* prompts and callers and any number of process deaths.                     *)

\* A prompt takes its reply while it is awaiting, and none without waiting first; a
\* wait that ended otherwise was closed, or its turn is cancelled or over.
ReplyInv ==
    \A p \in Prompts :
        /\ replies[p] > 0 => replies[p] = 1 /\ status[p] \in {"answered", "failed"}
        /\ place[p] \in {"idle", "publish"} => status[p] = "absent"
        /\ status[p] = "failed" => place[p] = "done"
        /\ place[p] = "cancel" => ~Live
        /\ answer[p] # "none" => place[p] = "done"
        /\ answer[p] = "timed_out" => status[p] = "expired"
        /\ answer[p] = "cancelled" => status[p] # "awaiting" /\ (replies[p] > 0 => ~Live)

LEMMA ReplyTypeInit == ReplyInit => ReplyTypeOK
<1> SUFFICES ASSUME ReplyInit PROVE ReplyTypeOK
  OBVIOUS
<1>1. released \in BOOLEAN /\ cancelReq \in BOOLEAN /\ up \in BOOLEAN /\ ~released
  BY Zenon DEF ReplyInit
<1>2. overdue \in [Prompts -> BOOLEAN]
  BY Zenon DEF ReplyInit
<1> QED
  BY <1>1, <1>2, ReplyBounds DEF ReplyInit, ReplyTypeOK

LEMMA ReplyTypeStep == ReplyTypeOK /\ [ReplyNext]_replyVars => ReplyTypeOK'
<1> SUFFICES ASSUME ReplyTypeOK, [ReplyNext]_replyVars PROVE ReplyTypeOK'
  OBVIOUS
<1> USE ReplyBounds DEF ReplyTypeOK, turnVars
<1>1. ASSUME NEW p \in Prompts, SendCheck(p) PROVE ReplyTypeOK'
  BY <1>1 DEF SendCheck, MoveTo, Live
<1>2. ASSUME NEW p \in Prompts, Publish(p) PROVE ReplyTypeOK'
  BY <1>2 DEF Publish, SetStatus, EndWait, MoveTo
<1>3. ASSUME NEW p \in Prompts, RemoteSent(p) PROVE ReplyTypeOK'
  BY <1>3 DEF RemoteSent, MoveTo
<1>4. ASSUME NEW p \in Prompts, RemoteFails(p) PROVE ReplyTypeOK'
  BY <1>4 DEF RemoteFails, SetStatus, EndWait, MoveTo
<1>5. ASSUME NEW p \in Prompts, Poll(p) PROVE ReplyTypeOK'
  BY <1>5 DEF Poll, Live, Due, EndWait, MoveTo
<1>6. ASSUME NEW p \in Prompts, FinishCancelled(p) PROVE ReplyTypeOK'
  BY <1>6 DEF FinishCancelled, CloseWait, EndWait, MoveTo
<1>7. ASSUME NEW p \in Prompts, FinishExpired(p) PROVE ReplyTypeOK'
  BY <1>7 DEF FinishExpired, Undecided, ExpiredStatus, SetStatus, EndWait, MoveTo
<1>8. ASSUME NEW p \in Prompts, Expire(p) PROVE ReplyTypeOK'
  BY <1>8 DEF Expire
<1>9. ASSUME NEW c \in Callers, Claim(c) PROVE ReplyTypeOK'
  BY <1>9 DEF Claim, Answerable, SetStatus, Live
<1>10. ASSUME NEW c \in Callers, NEW p \in Prompts, Select(c, p) PROVE ReplyTypeOK'
  BY <1>10 DEF Select, Live
<1>11. ASSUME CancelTurn PROVE ReplyTypeOK'
  BY <1>11 DEF CancelTurn, Live
<1>12. ASSUME EndTurn PROVE ReplyTypeOK'
  BY <1>12 DEF EndTurn
<1>13. ASSUME ReleaseTurn PROVE ReplyTypeOK'
  BY <1>13 DEF ReleaseTurn, CloseWaits
<1>14. ASSUME Die PROVE ReplyTypeOK'
  <2>1. up' \in BOOLEAN
    BY <1>14, Zenon DEF Die
  <2> QED
    BY <1>14, <2>1 DEF Die
<1>15. ASSUME RecoverWaits PROVE ReplyTypeOK'
  BY <1>15 DEF RecoverWaits, CloseWaits
<1>16. CASE UNCHANGED replyVars
  BY <1>16 DEF replyVars
<1> QED
  BY <1>1, <1>2, <1>3, <1>4, <1>5, <1>6, <1>7, <1>8, <1>9, <1>10, <1>11, <1>12,
    <1>13, <1>14, <1>15, <1>16 DEF ReplyNext, Wait

LEMMA ReplyStep == ReplyTypeOK /\ ReplyInv /\ [ReplyNext]_replyVars => ReplyInv'
<1> SUFFICES ASSUME ReplyTypeOK, ReplyInv, [ReplyNext]_replyVars PROVE ReplyInv'
  OBVIOUS
<1> USE DEF ReplyTypeOK, ReplyInv, turnVars, Live
<1>1. ASSUME NEW p \in Prompts, SendCheck(p) PROVE ReplyInv'
  BY <1>1 DEF SendCheck, MoveTo, Live
<1>2. ASSUME NEW p \in Prompts, Publish(p) PROVE ReplyInv'
  BY <1>2 DEF Publish, SetStatus, EndWait, MoveTo
<1>3. ASSUME NEW p \in Prompts, RemoteSent(p) PROVE ReplyInv'
  BY <1>3 DEF RemoteSent, MoveTo
<1>4. ASSUME NEW p \in Prompts, RemoteFails(p) PROVE ReplyInv'
  BY <1>4 DEF RemoteFails, SetStatus, EndWait, MoveTo
<1>5. ASSUME NEW p \in Prompts, Poll(p) PROVE ReplyInv'
  BY <1>5 DEF Poll, Live, Due, EndWait, MoveTo
<1>6. ASSUME NEW p \in Prompts, FinishCancelled(p) PROVE ReplyInv'
  BY <1>6 DEF FinishCancelled, CloseWait, EndWait, MoveTo
<1>7. ASSUME NEW p \in Prompts, FinishExpired(p) PROVE ReplyInv'
  BY <1>7 DEF FinishExpired, Undecided, ExpiredStatus, SetStatus, EndWait, MoveTo
<1>8. ASSUME NEW p \in Prompts, Expire(p) PROVE ReplyInv'
  BY <1>8 DEF Expire
<1>9. ASSUME NEW c \in Callers, Claim(c) PROVE ReplyInv'
  BY <1>9 DEF Claim, Answerable, SetStatus, Live
<1>10. ASSUME NEW c \in Callers, NEW p \in Prompts, Select(c, p) PROVE ReplyInv'
  BY <1>10 DEF Select, Live
<1>11. ASSUME CancelTurn PROVE ReplyInv'
  BY <1>11 DEF CancelTurn, Live
<1>12. ASSUME EndTurn PROVE ReplyInv'
  BY <1>12 DEF EndTurn
<1>13. ASSUME ReleaseTurn PROVE ReplyInv'
  BY <1>13 DEF ReleaseTurn, CloseWaits
<1>14. ASSUME Die PROVE ReplyInv'
  BY <1>14 DEF Die
<1>15. ASSUME RecoverWaits PROVE ReplyInv'
  BY <1>15 DEF RecoverWaits, CloseWaits
<1>16. CASE UNCHANGED replyVars
  BY <1>16 DEF replyVars
<1> QED
  BY <1>1, <1>2, <1>3, <1>4, <1>5, <1>6, <1>7, <1>8, <1>9, <1>10, <1>11, <1>12,
    <1>13, <1>14, <1>15, <1>16 DEF ReplyNext, Wait

\* The rows of live prompts, the waits and the callers keep to their values.
THEOREM RepliesTypeCorrect == ReplySpec => []ReplyTypeOK
  BY ReplyTypeInit, ReplyTypeStep, PTL DEF ReplySpec

\* A reply that accept_act_reply took for a prompt is what the wait returns: it never
\* times out, and it is dropped only with a turn that was cancelled or is over, or when
\* the prompt could not be sent; however the deadline, the cancellation, the turn's end,
\* further replies and a restart fall.
THEOREM AcceptedRepliesArrive == ReplySpec => []ReplyReachesAgent
<1>1. ReplyInit => ReplyInv
  BY DEF ReplyInit, ReplyInv
<1>2. ReplyInv => ReplyReachesAgent
  BY DEF ReplyInv, ReplyReachesAgent
<1> QED
  BY <1>1, <1>2, ReplyTypeInit, ReplyTypeStep, ReplyStep, PTL DEF ReplySpec
=============================================================================
