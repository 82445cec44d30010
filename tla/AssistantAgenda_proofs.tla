----------------------- MODULE AssistantAgenda_proofs -----------------------
(***************************************************************************)
(* Safety of the agenda for any calendar, any number of turns, instants    *)
(* and process deaths, with and without a completion requirement.          *)
(***************************************************************************)
EXTENDS AssistantAgenda, FiniteSetTheorems, WellFoundedInduction, TLAPS

\* One turn of the task is in the chat at most.
FlightInv == \A t, u \in Turns : turn[t] \in Active /\ turn[u] \in Active => t = u

\* Turns and occurrences name each other; a completion is owed by turns that ended.
ClaimInv ==
    /\ \A o \in Occs : occ[o] # "none" => claim[o] \in Turns /\ of[claim[o]] = o /\ turn[claim[o]] # "new"
    /\ \A t \in Turns : turn[t] # "new" => occ[of[t]] # "none"
    /\ \A t \in Turns : finish[t] # "none" => turn[t] \in Terminal
    /\ \A t \in Turns : request[t] # "none" => turn[t] # "new"

\* The instants since the last change of the schedule passed under it, and so did
\* every calendar instant with an occurrence.
BoundaryInv ==
    /\ start <= now
    /\ \A i \in Ticks : start < i /\ i <= now => verAt[i] = version
    /\ \A o \in Occs : occ[o] # "none" =>
          o[2] <= now /\ (o[2] \in Calendar[o[1]] => verAt[o[2]] = o[1])

\* Unless its claim was overwritten, an occurrence belongs to the turn at work on
\* it and then to the one that succeeded.
OwnerInv == \A t \in Turns :
    \/ of[t] \in lost
    \/ /\ turn[t] \in Active => claim[of[t]] = t /\ occ[of[t]] = "queued"
       /\ turn[t] = "succeeded" => claim[of[t]] = t /\ occ[of[t]] \in {"queued", "succeeded"}

\* A turn is over once its cancellation is committed, and if it succeeded all the
\* same, its occurrence is among the lost.
RequestInv == \A t \in Turns :
    request[t] \in {"owed", "failed"} =>
        turn[t] \in Terminal /\ (turn[t] = "succeeded" => of[t] \in lost)

-----------------------------------------------------------------------------
(* The CHOOSE of Max and Min is defined on the sets they are taken of. *)

LEMMA LeastOf ==
    ASSUME NEW S \in SUBSET Nat, S # {}
    PROVE  \E m \in S : \A n \in S : m <= n
<1> DEFINE R == OpToRel(<, Nat)
<1>1. IsWellFoundedOn(R, Nat)
  BY NatLessThanWellFounded
<1> HIDE DEF R
<1>2. PICK m \in S : \A n \in S : ~(<<n, m>> \in R)
  BY <1>1, WFMin
<1>3. \A n \in S : <<n, m>> \in R <=> n < m
  BY DEF R, OpToRel
<1>4. \A n \in S : ~(n < m)
  BY <1>2, <1>3
<1> QED
  BY <1>4

LEMMA MinIsLeast ==
    ASSUME NEW S \in SUBSET Nat, S # {}
    PROVE  Min(S) \in S /\ \A n \in S : Min(S) <= n
<1>1. \E m \in S : \A n \in S : m <= n
  BY LeastOf
<1> QED
  BY <1>1 DEF Min

LEMMA MaxIsGreatest ==
    ASSUME NEW S \in SUBSET 0..MaxTime, S # {}
    PROVE  Max(S) \in S /\ \A n \in S : n <= Max(S)
<1> DEFINE T == {MaxTime - n : n \in S}
<1>1. T \in SUBSET Nat /\ T # {}
  <2>1. \A n \in S : MaxTime - n \in Nat
    BY AgendaConstants
  <2>2. PICK n \in S : TRUE
    OBVIOUS
  <2>3. MaxTime - n \in T
    OBVIOUS
  <2> QED
    BY <2>1, <2>3
<1>2. PICK m \in T : \A k \in T : m <= k
  BY <1>1, LeastOf
<1>3. PICK x \in S : m = MaxTime - x
  BY <1>2
<1>4. \A n \in S : MaxTime - x <= MaxTime - n
  BY <1>2, <1>3
<1>5. \A n \in S : x >= n
  BY <1>4, AgendaConstants
<1> QED
  BY <1>5 DEF Max

\* What the operators of reconcile denote.
LEMMA LatestAtIs ==
    ASSUME TypeOK, NEW v \in Versions
    PROVE  /\ LatestAt(v) \in {0} \cup Calendar[v] /\ LatestAt(v) \in 0..now
           /\ \A i \in Calendar[v] : i <= now => i <= LatestAt(v)
<1> DEFINE S == {0} \cup {i \in Calendar[v] : i <= now}
<1>1. S \in SUBSET (0..MaxTime) /\ S # {} /\ now \in 0..MaxTime
  BY AgendaConstants DEF TypeOK, Ticks
<1>2. Max(S) \in S /\ \A n \in S : n <= Max(S)
  BY <1>1, MaxIsGreatest
<1> QED
  BY <1>1, <1>2 DEF LatestAt

LEMMA LatestIs ==
    ASSUME TypeOK
    PROVE  /\ Latest \in 0..now /\ Latest >= LatestAt(version)
           /\ Latest > LatestAt(version) => occ[<<version, Latest>>] # "none"
<1> DEFINE S == {LatestAt(version)}
                \cup {i \in Ticks : LatestAt(version) < i /\ i <= now /\ occ[<<version, i>>] # "none"}
<1>1. version \in Versions /\ now \in 0..MaxTime
  BY DEF TypeOK
<1>2. LatestAt(version) \in 0..now
  BY <1>1, LatestAtIs
<1>3. S \in SUBSET (0..MaxTime) /\ S # {}
  BY <1>1, <1>2, AgendaConstants DEF Ticks
<1>4. Max(S) \in S /\ \A n \in S : n <= Max(S)
  BY <1>3, MaxIsGreatest
<1> QED
  BY <1>1, <1>2, <1>4 DEF Latest, Ticks

\* The occurrences _activate claims: the latest due one, the latest failure, or
\* one of this instant.
Claimable(o, unmet) ==
    \/ Ready(unmet) /\ o = <<version, Latest>>
    \/ \E i \in Retryable : o = <<version, i>>
    \/ now > LatestAt(version) /\ o = <<version, now>> /\ occ[o] = "none"

LEMMA Activates ==
    ASSUME TypeOK, NEW unmet \in BOOLEAN, NEW o \in Occs,
           Claim(o, unmet)
    PROVE  \E t \in NewTurns :
              /\ occ' = [Settled(unmet) EXCEPT ![o] = "queued"]
              /\ claim' = [claim EXCEPT ![o] = t]
              /\ delayed' = StillDelayed(unmet) \ {o}
              /\ turn' = [SettledTurns(unmet) EXCEPT ![t] = "queued"]
              /\ of' = [of EXCEPT ![t] = o]
<1>1. NewTurns \in SUBSET Nat /\ NewTurns # {}
  BY DEF Claim, NewTurns, Turns
<1>2. Min(NewTurns) \in NewTurns
  BY <1>1, MinIsLeast
<1> QED
  BY <1>2 DEF Claim

\* The timer and Run Now as one: what the invariants need to know of them.
Activation(unmet) ==
    \/ Reconcile(unmet)
    \/ \E o \in Occs : Claimable(o, unmet) /\ Claim(o, unmet)

LEMMA TickActivates ==
    ASSUME TypeOK, Tick \/ RunNow
    PROVE  /\ ~Busy /\ \E unmet \in BOOLEAN : Activation(unmet)
           /\ UNCHANGED <<settings, now, ends, other, server, trace>>
           /\ events' \in 0..MaxEvents
<1>1. version \in Versions /\ now \in 0..MaxTime
  BY DEF TypeOK
<1>2. Latest \in 0..now /\ LatestAt(version) \in 0..now
  BY <1>1, LatestIs, LatestAtIs
<1>3. \A unmet \in BOOLEAN : Ready(unmet) => <<version, Latest>> \in Occs
  BY <1>1, <1>2, AgendaConstants DEF Ready, Occs, Ticks
<1>4. Retryable # {} => Max(Retryable) \in Retryable /\ Retryable \subseteq Ticks
  <2>1. Retryable \in SUBSET (0..MaxTime)
    BY AgendaConstants DEF Retryable, Ticks
  <2> QED
    BY <2>1, MaxIsGreatest DEF Retryable
<1>5. now > LatestAt(version) => <<version, now>> \in Occs
  BY <1>1, <1>2, AgendaConstants DEF Occs, Ticks
<1>6. MayBeUnmet \subseteq BOOLEAN
  BY DEF MayBeUnmet
<1>7. CASE Tick
  <2>1. PICK unmet \in MayBeUnmet : \/ Ready(unmet) /\ Claim(<<version, Latest>>, unmet)
                                    \/ ~Ready(unmet) /\ Reconcile(unmet)
    BY <1>7 DEF Tick
  <2>2. Activation(unmet)
    BY <2>1, <1>3, <1>6 DEF Activation, Claimable
  <2>3. ~Busy /\ UNCHANGED <<settings, now, ends, other, server, trace>> /\ events' = events
    BY <1>7, Zenon DEF Tick
  <2>4. events \in 0..MaxEvents
    BY DEF TypeOK
  <2> QED
    BY <1>6, <2>2, <2>3, <2>4, Zenon
<1>8. CASE RunNow
  <2>1. PICK unmet \in MayBeUnmet :
          \/ Ready(unmet) /\ Claim(<<version, Latest>>, unmet)
          \/ Retryable # {} /\ Claim(<<version, Max(Retryable)>>, unmet)
          \/ /\ now > LatestAt(version) /\ occ[<<version, now>>] = "none"
             /\ Claim(<<version, now>>, unmet)
    BY <1>8 DEF RunNow
  <2>2. \A i \in Ticks : <<version, i>> \in Occs
    BY <1>1 DEF Occs
  <2>3. Activation(unmet)
    BY <2>1, <2>2, <1>3, <1>4, <1>5, <1>6 DEF Activation, Claimable
  <2>4. ~Busy /\ UNCHANGED <<settings, now, ends, other, server, trace>>
    BY <1>8, Zenon DEF RunNow
  <2>5. events' \in 0..MaxEvents
    BY <1>8, AgendaConstants DEF RunNow, Event, TypeOK
  <2> QED
    BY <1>6, <2>3, <2>4, <2>5, Zenon
<1> QED
  BY <1>7, <1>8


LEMMA TypeInit == Init => TypeOK
<1> SUFFICES ASSUME Init PROVE TypeOK
  OBVIOUS
<1>1. enabled \in BOOLEAN
  BY Zenon DEF Init
<1>2. /\ item = "open" /\ version = 1 /\ start = 0 /\ now = 0
      /\ occ = [o \in Occs |-> "none"] /\ claim = [o \in Occs |-> 0] /\ delayed = {}
      /\ turn = [t \in Turns |-> "new"] /\ of = [t \in Turns |-> <<1, 1>>]
      /\ finish = [t \in Turns |-> "none"] /\ request = [t \in Turns |-> "none"]
      /\ other = "none" /\ server = "up"
      /\ verAt = [i \in Ticks |-> 0] /\ lost = {} /\ events = 0
  BY DEF Init
<1>3. <<1, 1>> \in Occs
  BY AgendaConstants DEF Occs, Ticks
<1> QED
  BY <1>1, <1>2, <1>3, AgendaConstants DEF TypeOK

\* A reconcile keeps the statuses in their sets, and makes no turn active.
LEMMA SettledTyped ==
    ASSUME TypeOK, NEW unmet \in BOOLEAN
    PROVE  /\ Settled(unmet) \in [Occs -> {"none", "queued", "succeeded", "failed", "skipped"}]
           /\ StillDelayed(unmet) \subseteq Occs
           /\ SettledTurns(unmet) \in [Turns -> Active \cup Terminal \cup {"new"}]
BY DEF TypeOK, Settled, StillDelayed, SettledTurns, Outcome, Finished, Outdated, Active, Terminal

LEMMA ActivationTyped ==
    ASSUME TypeOK, NEW unmet \in BOOLEAN, Activation(unmet)
    PROVE  /\ occ' \in [Occs -> {"none", "queued", "succeeded", "failed", "skipped"}]
           /\ claim' \in [Occs -> 0..MaxTurns] /\ delayed' \subseteq Occs
           /\ turn' \in [Turns -> Active \cup Terminal \cup {"new"}] /\ of' \in [Turns -> Occs]
<1>1. CASE Reconcile(unmet)
  BY <1>1, SettledTyped DEF Reconcile, TypeOK
<1>2. ASSUME NEW o \in Occs, Claim(o, unmet)
      PROVE  /\ occ' \in [Occs -> {"none", "queued", "succeeded", "failed", "skipped"}]
             /\ claim' \in [Occs -> 0..MaxTurns] /\ delayed' \subseteq Occs
             /\ turn' \in [Turns -> Active \cup Terminal \cup {"new"}] /\ of' \in [Turns -> Occs]
  <2>1. PICK t \in NewTurns :
              /\ occ' = [Settled(unmet) EXCEPT ![o] = "queued"]
              /\ claim' = [claim EXCEPT ![o] = t]
              /\ delayed' = StillDelayed(unmet) \ {o}
              /\ turn' = [SettledTurns(unmet) EXCEPT ![t] = "queued"]
              /\ of' = [of EXCEPT ![t] = o]
    BY <1>2, Activates
  <2>2. t \in Turns /\ t \in 0..MaxTurns
    BY AgendaConstants DEF NewTurns, Turns
  <2> QED
    BY <2>1, <2>2, SettledTyped DEF TypeOK, Active
<1> QED
  BY <1>1, <1>2 DEF Activation

LEMMA TypeStep == TypeOK /\ [Next]_vars => TypeOK'
<1> SUFFICES ASSUME TypeOK, [Next]_vars PROVE TypeOK'
  OBVIOUS
<1> USE AgendaConstants DEF TypeOK, Active, Left, Terminal, settings, ends, rows, turns, trace
<1>1. ASSUME NEW unmet \in BOOLEAN, Activation(unmet), Tick \/ RunNow PROVE TypeOK'
  <2>1. UNCHANGED <<settings, now, ends, other, server, trace>> /\ events' \in 0..MaxEvents
    BY <1>1, TickActivates
  <2>2. enabled' \in BOOLEAN
    BY <2>1, Zenon
  <2> QED
    BY <1>1, <2>1, <2>2, ActivationTyped
<1>2. CASE Tick \/ RunNow
  BY <1>1, <1>2, TickActivates
<1>3. CASE Recover
  <2>1. PICK unmet \in BOOLEAN : Reconcile(unmet)
    BY <1>3 DEF Recover, MayBeUnmet
  <2>2. server' = "up" /\ UNCHANGED <<settings, now, ends, other, trace, events>>
    BY <1>3 DEF Recover
  <2>3. enabled' \in BOOLEAN
    BY <2>2, Zenon
  <2> QED
    BY <2>1, <2>2, <2>3, ActivationTyped DEF Activation
<1>4. CASE SetStatus
  BY <1>4 DEF SetStatus, Edit, Event
<1>5. CASE Reschedule
  BY <1>5 DEF Reschedule, Edit, Event, NewStart
<1>6. CASE Configure
  <2>1. enabled' \in BOOLEAN
    BY <1>6, Zenon DEF Configure
  <2> QED
    BY <1>6, <2>1 DEF Configure, Edit, Event
<1>7. CASE NewOther
  BY <1>7 DEF NewOther, Event
<1>8. CASE RunOther
  BY <1>8 DEF RunOther
<1>9. CASE Pass
  <2>1. now + 1 \in Ticks /\ now + 1 \in 0..MaxTime
    BY <1>9 DEF Pass, Ticks
  <2>2. verAt' \in [Ticks -> Versions \cup {0}]
    BY <1>9, <2>1 DEF Pass
  <2> QED
    BY <1>9, <2>1, <2>2 DEF Pass
<1>10. CASE DelayOver
  BY <1>10 DEF DelayOver
<1>11. CASE Crash
  BY <1>11 DEF Crash, Event
<1>12. CASE Interrupt
  BY <1>12 DEF Interrupt
<1>13. ASSUME NEW t \in Turns, StartTurn(t) PROVE TypeOK'
  BY <1>13 DEF StartTurn, Free
<1>14. ASSUME NEW t \in Turns, Validate(t) PROVE TypeOK'
  BY <1>14 DEF Validate
<1>15. ASSUME NEW t \in Turns, Succeed(t) PROVE TypeOK'
  BY <1>15 DEF Succeed, EndTurn
<1>16. ASSUME NEW t \in Turns, Fail(t) PROVE TypeOK'
  BY <1>16 DEF Fail, EndTurn
<1>17. ASSUME NEW t \in Turns, CancelRead(t) PROVE TypeOK'
  BY <1>17 DEF CancelRead, Event
<1>18. ASSUME NEW t \in Turns, FinishRead(t) PROVE TypeOK'
  BY <1>18 DEF FinishRead, Outcome, MayBeUnmet
<1>19. ASSUME NEW t \in Turns, FinishWrite(t) PROVE TypeOK'
  BY <1>19 DEF FinishWrite, Settle
<1>20. CASE UNCHANGED vars
  BY <1>20 DEF vars
<1>21. ASSUME NEW t \in Turns, CancelWrite(t) PROVE TypeOK'
  BY <1>21 DEF CancelWrite, Cancelled
<1>22. ASSUME NEW t \in Turns, CancelFinishRead(t) PROVE TypeOK'
  BY <1>22 DEF CancelFinishRead
<1>23. ASSUME NEW t \in Turns, CancelFinishWrite(t) PROVE TypeOK'
  BY <1>23 DEF CancelFinishWrite, Settle
<1> QED
  BY <1>2, <1>3, <1>4, <1>5, <1>6, <1>7, <1>8, <1>9, <1>10, <1>11, <1>12, <1>13,
     <1>14, <1>15, <1>16, <1>17, <1>18, <1>19, <1>20, <1>21, <1>22, <1>23
  DEF Next, Dispatch, Complete, CancelGoesOn


LEMMA RecoverReconciles ==
    Recover => /\ UNCHANGED <<settings, now, ends, other, trace>>
               /\ \E unmet \in BOOLEAN : Reconcile(unmet)
<1> SUFFICES ASSUME Recover PROVE /\ UNCHANGED <<settings, now, ends, other, trace>>
                                  /\ \E unmet \in BOOLEAN : Reconcile(unmet)
  OBVIOUS
<1>1. MayBeUnmet \subseteq BOOLEAN
  BY DEF MayBeUnmet
<1>2. PICK unmet \in MayBeUnmet : Reconcile(unmet)
  BY Zenon DEF Recover
<1>3. UNCHANGED <<settings, now, ends, other, trace>>
  BY Zenon DEF Recover
<1> QED
  BY <1>1, <1>2, <1>3, Zenon

\* What reconcile changes: queued and failed occurrences, and turns that succeeded.
LEMMA SettledKeeps ==
    ASSUME TypeOK, NEW unmet \in BOOLEAN
    PROVE  /\ \A o \in Occs : /\ Settled(unmet)[o] = "none" <=> occ[o] = "none"
                              /\ Settled(unmet)[o] = "queued" => occ[o] = "queued"
           /\ \A t \in Turns : /\ SettledTurns(unmet)[t] \in Active <=> turn[t] \in Active
                               /\ SettledTurns(unmet)[t] \in Active => SettledTurns(unmet)[t] = turn[t]
                               /\ SettledTurns(unmet)[t] = "new" <=> turn[t] = "new"
                               /\ SettledTurns(unmet)[t] \in Terminal <=> turn[t] \in Terminal
                               /\ SettledTurns(unmet)[t] = "succeeded" => turn[t] = "succeeded"
BY DEF TypeOK, Settled, SettledTurns, Outcome, Finished, Ends, Outdated, Active, Left, Terminal

LEMMA FlightStep == TypeOK /\ FlightInv /\ [Next]_vars => FlightInv'
<1> SUFFICES ASSUME TypeOK, FlightInv, [Next]_vars PROVE FlightInv'
  OBVIOUS
<1> USE AgendaConstants DEF FlightInv, TypeOK, Active, Left, Terminal, settings, ends, rows, turns, trace
<1>1. ASSUME NEW unmet \in BOOLEAN, Activation(unmet), Tick \/ RunNow PROVE FlightInv'
  <2>1. UNCHANGED <<settings, now, ends, other, server, trace>> /\ ~Busy
    BY <1>1, TickActivates
  <2>2. CASE Reconcile(unmet)
    BY <2>1, <2>2, SettledKeeps DEF Reconcile, Busy
  <2>3. ASSUME NEW o \in Occs, Claimable(o, unmet), Claim(o, unmet) PROVE FlightInv'
    <3>1. PICK t \in NewTurns :
              /\ occ' = [Settled(unmet) EXCEPT ![o] = "queued"]
              /\ claim' = [claim EXCEPT ![o] = t]
              /\ turn' = [SettledTurns(unmet) EXCEPT ![t] = "queued"]
              /\ of' = [of EXCEPT ![t] = o]
      BY <2>3, Activates
    <3>2. t \in Turns /\ turn[t] = "new"
      BY DEF NewTurns
    <3>3. /\ Settled(unmet) \in [Occs -> {"none", "queued", "succeeded", "failed", "skipped"}]
          /\ SettledTurns(unmet) \in [Turns -> Active \cup Terminal \cup {"new"}]
      BY SettledTyped
    <3> QED
      BY <2>1, <3>1, <3>2, <3>3, SettledKeeps DEF Busy
  <2> QED
    BY <1>1, <2>2, <2>3 DEF Activation
<1>2. CASE Tick \/ RunNow
  BY <1>1, <1>2, TickActivates
<1>3. CASE Recover
  <2>1. /\ UNCHANGED <<settings, now, ends, other, trace>>
        /\ \E unmet \in BOOLEAN : Reconcile(unmet)
    BY <1>3, RecoverReconciles
  <2>2. PICK unmet \in BOOLEAN : Reconcile(unmet)
    BY <2>1
  <2> QED
    BY <2>1, <2>2, SettledKeeps DEF Reconcile
<1>4. CASE SetStatus
  BY <1>4 DEF SetStatus, Edit, Event
<1>5. CASE Reschedule
  BY <1>5 DEF Reschedule, Edit, Event, NewStart
<1>6. CASE Configure
  BY <1>6 DEF Configure, Edit, Event
<1>7. CASE NewOther
  BY <1>7 DEF NewOther, Event
<1>8. CASE RunOther
  BY <1>8 DEF RunOther
<1>9. CASE Pass
  BY <1>9 DEF Pass
<1>10. CASE DelayOver
  BY <1>10 DEF DelayOver
<1>11. CASE Crash
  BY <1>11 DEF Crash, Event
<1>12. CASE Interrupt
  BY <1>12 DEF Interrupt
<1>13. ASSUME NEW t \in Turns, StartTurn(t) PROVE FlightInv'
  BY <1>13 DEF StartTurn, Free
<1>14. ASSUME NEW t \in Turns, Validate(t) PROVE FlightInv'
  BY <1>14 DEF Validate
<1>15. ASSUME NEW t \in Turns, Succeed(t) PROVE FlightInv'
  BY <1>15 DEF Succeed, EndTurn
<1>16. ASSUME NEW t \in Turns, Fail(t) PROVE FlightInv'
  BY <1>16 DEF Fail, EndTurn
<1>17. ASSUME NEW t \in Turns, CancelRead(t) PROVE FlightInv'
  BY <1>17 DEF CancelRead, Event
<1>18. ASSUME NEW t \in Turns, FinishRead(t) PROVE FlightInv'
  BY <1>18 DEF FinishRead, Outcome, MayBeUnmet
<1>19. ASSUME NEW t \in Turns, FinishWrite(t) PROVE FlightInv'
  BY <1>19 DEF FinishWrite, Settle
<1>20. CASE UNCHANGED vars
  BY <1>20 DEF vars
<1>21. ASSUME NEW t \in Turns, CancelWrite(t) PROVE FlightInv'
  BY <1>21 DEF CancelWrite, Cancelled
<1>22. ASSUME NEW t \in Turns, CancelFinishRead(t) PROVE FlightInv'
  BY <1>22 DEF CancelFinishRead
<1>23. ASSUME NEW t \in Turns, CancelFinishWrite(t) PROVE FlightInv'
  BY <1>23 DEF CancelFinishWrite, Settle
<1> QED
  BY <1>2, <1>3, <1>4, <1>5, <1>6, <1>7, <1>8, <1>9, <1>10, <1>11, <1>12, <1>13,
     <1>14, <1>15, <1>16, <1>17, <1>18, <1>19, <1>20, <1>21, <1>22, <1>23
  DEF Next, Dispatch, Complete, CancelGoesOn

LEMMA ClaimStep == TypeOK /\ ClaimInv /\ [Next]_vars => ClaimInv'
<1> SUFFICES ASSUME TypeOK, ClaimInv, [Next]_vars PROVE ClaimInv'
  OBVIOUS
<1> USE AgendaConstants DEF ClaimInv, TypeOK, Active, Left, Terminal, settings, ends, rows, turns, trace
<1>1. ASSUME NEW unmet \in BOOLEAN, Activation(unmet), Tick \/ RunNow PROVE ClaimInv'
  <2>1. UNCHANGED <<settings, now, ends, other, server, trace>>
    BY <1>1, TickActivates
  <2>2. CASE Reconcile(unmet)
    BY <2>1, <2>2, SettledKeeps DEF Reconcile
  <2>3. ASSUME NEW o \in Occs, Claimable(o, unmet), Claim(o, unmet) PROVE ClaimInv'
    <3>1. PICK t \in NewTurns :
              /\ occ' = [Settled(unmet) EXCEPT ![o] = "queued"]
              /\ claim' = [claim EXCEPT ![o] = t]
              /\ turn' = [SettledTurns(unmet) EXCEPT ![t] = "queued"]
              /\ of' = [of EXCEPT ![t] = o]
      BY <2>3, Activates
    <3>2. t \in Turns /\ turn[t] = "new"
      BY DEF NewTurns
    <3>3. /\ Settled(unmet) \in [Occs -> {"none", "queued", "succeeded", "failed", "skipped"}]
          /\ SettledTurns(unmet) \in [Turns -> Active \cup Terminal \cup {"new"}]
      BY SettledTyped
    <3> QED
      BY <2>1, <3>1, <3>2, <3>3, SettledKeeps
  <2> QED
    BY <1>1, <2>2, <2>3 DEF Activation
<1>2. CASE Tick \/ RunNow
  BY <1>1, <1>2, TickActivates
<1>3. CASE Recover
  <2>1. /\ UNCHANGED <<settings, now, ends, other, trace>>
        /\ \E unmet \in BOOLEAN : Reconcile(unmet)
    BY <1>3, RecoverReconciles
  <2>2. PICK unmet \in BOOLEAN : Reconcile(unmet)
    BY <2>1
  <2> QED
    BY <2>1, <2>2, SettledKeeps DEF Reconcile
<1>4. CASE SetStatus
  BY <1>4 DEF SetStatus, Edit, Event
<1>5. CASE Reschedule
  BY <1>5 DEF Reschedule, Edit, Event, NewStart
<1>6. CASE Configure
  BY <1>6 DEF Configure, Edit, Event
<1>7. CASE NewOther
  BY <1>7 DEF NewOther, Event
<1>8. CASE RunOther
  BY <1>8 DEF RunOther
<1>9. CASE Pass
  BY <1>9 DEF Pass
<1>10. CASE DelayOver
  BY <1>10 DEF DelayOver
<1>11. CASE Crash
  BY <1>11 DEF Crash, Event
<1>12. CASE Interrupt
  BY <1>12 DEF Interrupt
<1>13. ASSUME NEW t \in Turns, StartTurn(t) PROVE ClaimInv'
  BY <1>13 DEF StartTurn, Free
<1>14. ASSUME NEW t \in Turns, Validate(t) PROVE ClaimInv'
  BY <1>14 DEF Validate
<1>15. ASSUME NEW t \in Turns, Succeed(t) PROVE ClaimInv'
  BY <1>15 DEF Succeed, EndTurn
<1>16. ASSUME NEW t \in Turns, Fail(t) PROVE ClaimInv'
  BY <1>16 DEF Fail, EndTurn
<1>17. ASSUME NEW t \in Turns, CancelRead(t) PROVE ClaimInv'
  BY <1>17 DEF CancelRead, Event
<1>18. ASSUME NEW t \in Turns, FinishRead(t) PROVE ClaimInv'
  <2>1. PICK f : finish' = [finish EXCEPT ![t] = f]
    BY <1>18 DEF FinishRead
  <2>2. finish[t] = "owed" /\ UNCHANGED <<rows, turns, request>>
    BY <1>18 DEF FinishRead
  <2> QED
    BY <2>1, <2>2
<1>19. ASSUME NEW t \in Turns, FinishWrite(t) PROVE ClaimInv'
  BY <1>19 DEF FinishWrite, Settle
<1>20. CASE UNCHANGED vars
  BY <1>20 DEF vars
<1>21. ASSUME NEW t \in Turns, CancelWrite(t) PROVE ClaimInv'
  BY <1>21 DEF CancelWrite, Cancelled
<1>22. ASSUME NEW t \in Turns, CancelFinishRead(t) PROVE ClaimInv'
  BY <1>22 DEF CancelFinishRead
<1>23. ASSUME NEW t \in Turns, CancelFinishWrite(t) PROVE ClaimInv'
  BY <1>23 DEF CancelFinishWrite, Settle
<1> QED
  BY <1>2, <1>3, <1>4, <1>5, <1>6, <1>7, <1>8, <1>9, <1>10, <1>11, <1>12, <1>13,
     <1>14, <1>15, <1>16, <1>17, <1>18, <1>19, <1>20, <1>21, <1>22, <1>23
  DEF Next, Dispatch, Complete, CancelGoesOn

LEMMA RequestStep == TypeOK /\ ClaimInv /\ RequestInv /\ [Next]_vars => RequestInv'
<1> SUFFICES ASSUME TypeOK, ClaimInv, RequestInv, [Next]_vars PROVE RequestInv'
  OBVIOUS
<1> USE AgendaConstants DEF ClaimInv, RequestInv, TypeOK, Active, Left, Terminal, settings, ends, rows, turns, trace
<1>1. ASSUME NEW unmet \in BOOLEAN, Activation(unmet), Tick \/ RunNow PROVE RequestInv'
  <2>1. UNCHANGED <<settings, now, ends, other, server, trace>> /\ ~Busy
    BY <1>1, TickActivates
  <2>2. CASE Reconcile(unmet)
    BY <2>1, <2>2, SettledKeeps DEF Reconcile, Busy
  <2>3. ASSUME NEW o \in Occs, Claimable(o, unmet), Claim(o, unmet) PROVE RequestInv'
    <3>1. PICK t \in NewTurns :
              /\ occ' = [Settled(unmet) EXCEPT ![o] = "queued"]
              /\ claim' = [claim EXCEPT ![o] = t]
              /\ turn' = [SettledTurns(unmet) EXCEPT ![t] = "queued"]
              /\ of' = [of EXCEPT ![t] = o]
      BY <2>3, Activates
    <3>2. t \in Turns /\ turn[t] = "new"
      BY DEF NewTurns
    <3>3. /\ Settled(unmet) \in [Occs -> {"none", "queued", "succeeded", "failed", "skipped"}]
          /\ SettledTurns(unmet) \in [Turns -> Active \cup Terminal \cup {"new"}]
      BY SettledTyped
    <3> QED
      BY <2>1, <3>1, <3>2, <3>3, SettledKeeps DEF Busy
  <2> QED
    BY <1>1, <2>2, <2>3 DEF Activation
<1>2. CASE Tick \/ RunNow
  BY <1>1, <1>2, TickActivates
<1>3. CASE Recover
  <2>1. /\ UNCHANGED <<settings, now, ends, other, trace>>
        /\ \E unmet \in BOOLEAN : Reconcile(unmet)
    BY <1>3, RecoverReconciles
  <2>2. PICK unmet \in BOOLEAN : Reconcile(unmet)
    BY <2>1
  <2> QED
    BY <2>1, <2>2, SettledKeeps DEF Reconcile
<1>4. CASE SetStatus
  BY <1>4 DEF SetStatus, Edit, Event
<1>5. CASE Reschedule
  BY <1>5 DEF Reschedule, Edit, Event, NewStart
<1>6. CASE Configure
  BY <1>6 DEF Configure, Edit, Event
<1>7. CASE NewOther
  BY <1>7 DEF NewOther, Event
<1>8. CASE RunOther
  BY <1>8 DEF RunOther
<1>9. CASE Pass
  BY <1>9 DEF Pass
<1>10. CASE DelayOver
  BY <1>10 DEF DelayOver
<1>11. CASE Crash
  BY <1>11 DEF Crash, Event
<1>12. CASE Interrupt
  BY <1>12 DEF Interrupt
<1>13. ASSUME NEW t \in Turns, StartTurn(t) PROVE RequestInv'
  BY <1>13 DEF StartTurn, Free
<1>14. ASSUME NEW t \in Turns, Validate(t) PROVE RequestInv'
  BY <1>14 DEF Validate
<1>15. ASSUME NEW t \in Turns, Succeed(t) PROVE RequestInv'
  BY <1>15 DEF Succeed, EndTurn
<1>16. ASSUME NEW t \in Turns, Fail(t) PROVE RequestInv'
  BY <1>16 DEF Fail, EndTurn
<1>17. ASSUME NEW t \in Turns, CancelRead(t) PROVE RequestInv'
  BY <1>17 DEF CancelRead, Event
<1>18. ASSUME NEW t \in Turns, FinishRead(t) PROVE RequestInv'
  BY <1>18 DEF FinishRead, Outcome, MayBeUnmet
<1>19. ASSUME NEW t \in Turns, FinishWrite(t) PROVE RequestInv'
  BY <1>19 DEF FinishWrite, Settle
<1>20. CASE UNCHANGED vars
  BY <1>20 DEF vars
<1>21. ASSUME NEW t \in Turns, CancelWrite(t) PROVE RequestInv'
  BY <1>21 DEF CancelWrite, Cancelled
<1>22. ASSUME NEW t \in Turns, CancelFinishRead(t) PROVE RequestInv'
  BY <1>22 DEF CancelFinishRead
<1>23. ASSUME NEW t \in Turns, CancelFinishWrite(t) PROVE RequestInv'
  BY <1>23 DEF CancelFinishWrite, Settle
<1> QED
  BY <1>2, <1>3, <1>4, <1>5, <1>6, <1>7, <1>8, <1>9, <1>10, <1>11, <1>12, <1>13,
     <1>14, <1>15, <1>16, <1>17, <1>18, <1>19, <1>20, <1>21, <1>22, <1>23
  DEF Next, Dispatch, Complete, CancelGoesOn

LEMMA BoundaryStep == TypeOK /\ ClaimInv /\ BoundaryInv /\ [Next]_vars => BoundaryInv'
<1> SUFFICES ASSUME TypeOK, ClaimInv, BoundaryInv, [Next]_vars PROVE BoundaryInv'
  OBVIOUS
<1> USE AgendaConstants DEF BoundaryInv, ClaimInv, TypeOK, Active, Left, Terminal, settings, ends, rows, turns, trace
<1>1. ASSUME NEW unmet \in BOOLEAN, Activation(unmet), Tick \/ RunNow PROVE BoundaryInv'
  <2>1. UNCHANGED <<settings, now, ends, other, server, trace>>
    BY <1>1, TickActivates
  <2>2. CASE Reconcile(unmet)
    BY <2>1, <2>2, SettledKeeps DEF Reconcile
  <2>3. ASSUME NEW o \in Occs, Claimable(o, unmet), Claim(o, unmet) PROVE BoundaryInv'
    <3>1. PICK t \in NewTurns :
              /\ occ' = [Settled(unmet) EXCEPT ![o] = "queued"]
              /\ claim' = [claim EXCEPT ![o] = t]
              /\ turn' = [SettledTurns(unmet) EXCEPT ![t] = "queued"]
              /\ of' = [of EXCEPT ![t] = o]
      BY <2>3, Activates
    <3>2. t \in Turns /\ turn[t] = "new"
      BY DEF NewTurns
    <3>3. /\ Settled(unmet) \in [Occs -> {"none", "queued", "succeeded", "failed", "skipped"}]
          /\ SettledTurns(unmet) \in [Turns -> Active \cup Terminal \cup {"new"}]
      BY SettledTyped
    <3>4. o[2] <= now /\ (o[2] \in Calendar[o[1]] => verAt[o[2]] = o[1])
      <4>1. version \in Versions /\ o \in Occs /\ Latest \in 0..now
        BY LatestIs
      <4>2. /\ Latest > LatestAt(version) => occ[<<version, Latest>>] # "none"
            /\ \A i \in Calendar[version] : i <= now => i <= LatestAt(version)
        BY <4>1, LatestIs, LatestAtIs
      <4>3. CASE Ready(unmet) /\ o = <<version, Latest>>
        <5>1. Latest > 0 /\ (Latest > LatestAt(version) \/ Latest > start)
          BY <4>3 DEF Ready
        <5>2. CASE Latest > LatestAt(version)
          BY <4>2, <4>3, <5>2
        <5>3. CASE Latest = LatestAt(version) /\ Latest > start
          <6>1. Latest \in Ticks /\ start < Latest /\ Latest <= now
            BY <4>1, <5>1, <5>3, <2>3, <4>3 DEF Occs, Ticks
          <6>2. verAt[Latest] = version
            BY <6>1
          <6> QED
            BY <4>1, <4>3, <6>1, <6>2
        <5>4. LatestAt(version) \in 0..now /\ Latest >= LatestAt(version)
          BY <4>1, LatestIs, LatestAtIs
        <5> QED
          BY <4>1, <5>1, <5>2, <5>3, <5>4
      <4>4. ASSUME NEW i \in Retryable, o = <<version, i>> PROVE o[2] <= now /\ (o[2] \in Calendar[o[1]] => verAt[o[2]] = o[1])
        BY <4>4 DEF Retryable
      <4>5. CASE now > LatestAt(version) /\ o = <<version, now>>
        <5>1. o[1] = version /\ o[2] = now
          BY <4>5
        <5>2. LatestAt(version) \in 0..now
          BY <4>1, LatestAtIs
        <5>3. now \notin Calendar[version]
          BY <4>2, <4>5, <5>2
        <5> QED
          BY <5>1, <5>3
      <4> QED
        BY <2>3, <4>3, <4>4, <4>5 DEF Claimable
    <3> QED
      BY <2>1, <3>1, <3>2, <3>3, <3>4, SettledKeeps
  <2> QED
    BY <1>1, <2>2, <2>3 DEF Activation
<1>2. CASE Tick \/ RunNow
  BY <1>1, <1>2, TickActivates
<1>3. CASE Recover
  <2>1. /\ UNCHANGED <<settings, now, ends, other, trace>>
        /\ \E unmet \in BOOLEAN : Reconcile(unmet)
    BY <1>3, RecoverReconciles
  <2>2. PICK unmet \in BOOLEAN : Reconcile(unmet)
    BY <2>1
  <2> QED
    BY <2>1, <2>2, SettledKeeps DEF Reconcile
<1>4. CASE SetStatus
  BY <1>4 DEF SetStatus, Edit, Event
<1>5. CASE Reschedule
  <2>1. /\ version' \in Versions /\ start' = now /\ now' = now
        /\ UNCHANGED <<rows, turns, ends, other, server, trace>>
    BY <1>5 DEF Reschedule, Edit, NewStart
  <2>2. start' <= now' /\ \A i \in Ticks : ~(start' < i /\ i <= now')
    BY <2>1 DEF Ticks
  <2>3. UNCHANGED <<occ, verAt, now>>
    BY <2>1
  <2> QED
    BY <2>2, <2>3
<1>6. CASE Configure
  BY <1>6 DEF Configure, Edit, Event
<1>7. CASE NewOther
  BY <1>7 DEF NewOther, Event
<1>8. CASE RunOther
  BY <1>8 DEF RunOther
<1>9. CASE Pass
  <2>1. /\ now' = now + 1 /\ verAt' = [verAt EXCEPT ![now + 1] = version] /\ now + 1 \in Ticks
        /\ UNCHANGED <<version, start, occ>>
    BY <1>9 DEF Pass, Ticks
  <2>2. \A i \in Ticks : i <= now => verAt'[i] = verAt[i]
    BY <2>1 DEF Ticks
  <2>3. verAt'[now + 1] = version
    BY <2>1
  <2>4. \A i \in Ticks : start < i /\ i <= now' => verAt'[i] = version
    BY <2>1, <2>2, <2>3 DEF Ticks
  <2>5. ASSUME NEW o \in Occs, occ[o] # "none"
        PROVE  o[2] <= now' /\ (o[2] \in Calendar[o[1]] => verAt'[o[2]] = o[1])
    <3>1. o[2] \in Ticks /\ o[2] <= now
      BY <2>5 DEF Occs
    <3> QED
      BY <2>1, <2>2, <2>5, <3>1 DEF Ticks
  <2> QED
    BY <2>1, <2>4, <2>5
<1>10. CASE DelayOver
  BY <1>10 DEF DelayOver
<1>11. CASE Crash
  BY <1>11 DEF Crash, Event
<1>12. CASE Interrupt
  BY <1>12 DEF Interrupt
<1>13. ASSUME NEW t \in Turns, StartTurn(t) PROVE BoundaryInv'
  BY <1>13 DEF StartTurn, Free
<1>14. ASSUME NEW t \in Turns, Validate(t) PROVE BoundaryInv'
  BY <1>14 DEF Validate
<1>15. ASSUME NEW t \in Turns, Succeed(t) PROVE BoundaryInv'
  BY <1>15 DEF Succeed, EndTurn
<1>16. ASSUME NEW t \in Turns, Fail(t) PROVE BoundaryInv'
  BY <1>16 DEF Fail, EndTurn
<1>17. ASSUME NEW t \in Turns, CancelRead(t) PROVE BoundaryInv'
  BY <1>17 DEF CancelRead, Event
<1>18. ASSUME NEW t \in Turns, FinishRead(t) PROVE BoundaryInv'
  BY <1>18 DEF FinishRead, Outcome, MayBeUnmet
<1>19. ASSUME NEW t \in Turns, FinishWrite(t) PROVE BoundaryInv'
  BY <1>19 DEF FinishWrite, Settle
<1>20. CASE UNCHANGED vars
  BY <1>20 DEF vars
<1>21. ASSUME NEW t \in Turns, CancelWrite(t) PROVE BoundaryInv'
  BY <1>21 DEF CancelWrite, Cancelled
<1>22. ASSUME NEW t \in Turns, CancelFinishRead(t) PROVE BoundaryInv'
  BY <1>22 DEF CancelFinishRead
<1>23. ASSUME NEW t \in Turns, CancelFinishWrite(t) PROVE BoundaryInv'
  BY <1>23 DEF CancelFinishWrite, Settle
<1> QED
  BY <1>2, <1>3, <1>4, <1>5, <1>6, <1>7, <1>8, <1>9, <1>10, <1>11, <1>12, <1>13,
     <1>14, <1>15, <1>16, <1>17, <1>18, <1>19, <1>20, <1>21, <1>22, <1>23
  DEF Next, Dispatch, Complete, CancelGoesOn

LEMMA OwnerStep == TypeOK /\ ClaimInv /\ FlightInv /\ RequestInv /\ OwnerInv /\ [Next]_vars => OwnerInv'
<1> SUFFICES ASSUME TypeOK, ClaimInv, FlightInv, RequestInv, OwnerInv, [Next]_vars PROVE OwnerInv'
  OBVIOUS
<1> USE AgendaConstants DEF OwnerInv, ClaimInv, TypeOK, Active, Left, Terminal, settings, ends, rows, turns, trace
<1>1. ASSUME NEW unmet \in BOOLEAN, Activation(unmet), Tick \/ RunNow PROVE OwnerInv'
  <2>1. UNCHANGED <<settings, now, ends, other, server, trace>> /\ ~Busy
    BY <1>1, TickActivates
  <2>2. CASE Reconcile(unmet)
    BY <2>1, <2>2, SettledKeeps DEF Reconcile, Settled, SettledTurns, Finished, Ends, Outdated, Outcome
  <2>3. ASSUME NEW o \in Occs, Claimable(o, unmet), Claim(o, unmet) PROVE OwnerInv'
    <3>1. PICK t \in NewTurns :
              /\ occ' = [Settled(unmet) EXCEPT ![o] = "queued"]
              /\ claim' = [claim EXCEPT ![o] = t]
              /\ turn' = [SettledTurns(unmet) EXCEPT ![t] = "queued"]
              /\ of' = [of EXCEPT ![t] = o]
      BY <2>3, Activates
    <3>2. t \in Turns /\ turn[t] = "new"
      BY DEF NewTurns
    <3>3. /\ Settled(unmet) \in [Occs -> {"none", "queued", "succeeded", "failed", "skipped"}]
          /\ SettledTurns(unmet) \in [Turns -> Active \cup Terminal \cup {"new"}]
      BY SettledTyped
    <3>4. ASSUME NEW u \in Turns, u # t, of[u] \notin lost,
                 SettledTurns(unmet)[u] = "succeeded"
          PROVE  /\ of[u] # o /\ claim[of[u]] = u
                 /\ Settled(unmet)[of[u]] \in {"queued", "succeeded"}
      <4>1. turn[u] = "succeeded"
        BY <3>4 DEF SettledTurns, Outcome
      <4>2. of[u] \in Occs /\ claim[of[u]] = u /\ occ[of[u]] \in {"queued", "succeeded"}
        BY <3>4, <4>1
      <4>3. occ[of[u]] = "queued" => of[u] \in Finished
        BY <4>1, <4>2 DEF Finished, Ends
      <4>4. of[u] \in Finished => Outcome(u, unmet) = "succeeded"
        BY <3>4, <4>1, <4>2 DEF SettledTurns
      <4>5. of[u] # o
        <5>1. CASE Ready(unmet) /\ o = <<version, Latest>>
          BY <4>2, <4>3, <4>4, <5>1 DEF Ready
        <5>2. CASE \E i \in Retryable : o = <<version, i>>
          BY <4>2, <5>2 DEF Retryable
        <5>3. CASE occ[o] = "none"
          BY <4>2, <5>3
        <5> QED
          BY <2>3, <5>1, <5>2, <5>3 DEF Claimable
      <4>6. Settled(unmet)[of[u]] \in {"queued", "succeeded"}
        BY <4>2, <4>4 DEF Settled, Outdated
      <4> QED
        BY <4>2, <4>5, <4>6
    <3>5. \A u \in Turns : SettledTurns(unmet)[u] \notin Active
      BY <2>1, SettledKeeps DEF Busy
    <3> QED
      BY <2>1, <3>1, <3>2, <3>3, <3>4, <3>5
  <2> QED
    BY <1>1, <2>2, <2>3 DEF Activation
<1>2. CASE Tick \/ RunNow
  BY <1>1, <1>2, TickActivates
<1>3. CASE Recover
  <2>1. /\ UNCHANGED <<settings, now, ends, other, trace>>
        /\ \E unmet \in BOOLEAN : Reconcile(unmet)
    BY <1>3, RecoverReconciles
  <2>2. PICK unmet \in BOOLEAN : Reconcile(unmet)
    BY <2>1
  <2> QED
    BY <2>1, <2>2, SettledKeeps DEF Reconcile, Settled, SettledTurns, Finished, Ends, Outdated, Outcome
<1>4. CASE SetStatus
  BY <1>4 DEF SetStatus, Edit, Event
<1>5. CASE Reschedule
  BY <1>5 DEF Reschedule, Edit, Event, NewStart
<1>6. CASE Configure
  BY <1>6 DEF Configure, Edit, Event
<1>7. CASE NewOther
  BY <1>7 DEF NewOther, Event
<1>8. CASE RunOther
  BY <1>8 DEF RunOther
<1>9. CASE Pass
  BY <1>9 DEF Pass
<1>10. CASE DelayOver
  BY <1>10 DEF DelayOver
<1>11. CASE Crash
  BY <1>11 DEF Crash, Event
<1>12. CASE Interrupt
  BY <1>12 DEF Interrupt
<1>13. ASSUME NEW t \in Turns, StartTurn(t) PROVE OwnerInv'
  BY <1>13 DEF StartTurn, Free
<1>14. ASSUME NEW t \in Turns, Validate(t) PROVE OwnerInv'
  BY <1>14 DEF Validate
<1>15. ASSUME NEW t \in Turns, Succeed(t) PROVE OwnerInv'
  BY <1>15 DEF Succeed, EndTurn
<1>16. ASSUME NEW t \in Turns, Fail(t) PROVE OwnerInv'
  BY <1>16 DEF Fail, EndTurn
<1>17. ASSUME NEW t \in Turns, CancelRead(t) PROVE OwnerInv'
  BY <1>17 DEF CancelRead, Event
<1>18. ASSUME NEW t \in Turns, FinishRead(t) PROVE OwnerInv'
  BY <1>18 DEF FinishRead, Outcome, MayBeUnmet
<1>19. ASSUME NEW t \in Turns, FinishWrite(t) PROVE OwnerInv'
  BY <1>19 DEF FinishWrite, Settle
<1>20. CASE UNCHANGED vars
  BY <1>20 DEF vars
<1>21. ASSUME NEW t \in Turns, CancelWrite(t) PROVE OwnerInv'
  BY <1>21 DEF CancelWrite, Cancelled
<1>22. ASSUME NEW t \in Turns, CancelFinishRead(t) PROVE OwnerInv'
  BY <1>22 DEF CancelFinishRead
<1>23. ASSUME NEW t \in Turns, CancelFinishWrite(t) PROVE OwnerInv'
  BY <1>23 DEF CancelFinishWrite, Settle, RequestInv
<1> QED
  BY <1>2, <1>3, <1>4, <1>5, <1>6, <1>7, <1>8, <1>9, <1>10, <1>11, <1>12, <1>13,
     <1>14, <1>15, <1>16, <1>17, <1>18, <1>19, <1>20, <1>21, <1>22, <1>23
  DEF Next, Dispatch, Complete, CancelGoesOn

\* Every conjunct of the inductive invariant, in every state.
LEMMA Invariants ==
    Spec => [](TypeOK /\ FlightInv /\ ClaimInv /\ RequestInv /\ BoundaryInv /\ OwnerInv)
<1>1. Init => TypeOK /\ FlightInv /\ ClaimInv /\ RequestInv /\ BoundaryInv /\ OwnerInv
  <2> SUFFICES ASSUME Init PROVE TypeOK /\ FlightInv /\ ClaimInv /\ RequestInv /\ BoundaryInv /\ OwnerInv
    OBVIOUS
  <2>1. TypeOK
    BY TypeInit
  <2>2. FlightInv /\ ClaimInv /\ RequestInv /\ BoundaryInv
    BY DEF Init, FlightInv, ClaimInv, RequestInv, BoundaryInv, Active, Ticks
  <2>3. OwnerInv
    BY DEF Init, OwnerInv, Active
  <2> QED
    BY <2>1, <2>2, <2>3
<1>2. TypeOK /\ FlightInv /\ ClaimInv /\ RequestInv /\ BoundaryInv /\ OwnerInv /\ [Next]_vars
        => (TypeOK /\ FlightInv /\ ClaimInv /\ RequestInv /\ BoundaryInv /\ OwnerInv)'
  BY TypeStep, FlightStep, ClaimStep, RequestStep, BoundaryStep, OwnerStep
<1> QED
  BY <1>1, <1>2, PTL DEF Spec

THEOREM TypeCorrect == Spec => []TypeOK
  BY Invariants, PTL

\* One turn of the task is queued or running at most, whatever the timer, Run
\* Now, a recovery and late completions do.
THEOREM OneTurnInFlight == Spec => []OneInFlight
<1>1. TypeOK /\ FlightInv => OneInFlight
  <2> SUFFICES ASSUME FlightInv PROVE OneInFlight
    OBVIOUS
  <2> DEFINE S == {t \in Turns : turn[t] \in Active}
  <2>1. CASE S = {}
    BY <2>1, FS_EmptySet DEF OneInFlight
  <2>2. CASE S # {}
    <3>1. PICK t \in S : TRUE
      BY <2>2
    <3>2. S = {t}
      BY <3>1 DEF FlightInv
    <3>3. Cardinality({t}) = 1
      BY FS_Singleton
    <3>4. Cardinality(S) = 1
      BY <3>2, <3>3
    <3> QED
      BY <3>4 DEF OneInFlight
  <2> QED
    BY <2>1, <2>2
<1> QED
  BY <1>1, Invariants, PTL

\* No turn is queued for a calendar instant of another schedule's time.
THEOREM NoBackfill == Spec => []NothingBackfilled
<1>1. TypeOK /\ ClaimInv /\ BoundaryInv => NothingBackfilled
  BY DEF TypeOK, ClaimInv, BoundaryInv, NothingBackfilled
<1> QED
  BY <1>1, Invariants, PTL

\* The model is not called again for an occurrence one of whose turns has
\* succeeded, unless a late completion has overwritten its claim.
THEOREM SuccessIsKept == Spec => []SuccessIsFinalUnlessLost
<1>1. TypeOK /\ OwnerInv => SuccessIsFinalUnlessLost
  BY DEF OwnerInv, SuccessIsFinalUnlessLost, DoneTwice, Active
<1> QED
  BY <1>1, Invariants, PTL

=============================================================================
