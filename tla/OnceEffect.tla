----------------------------- MODULE OnceEffect -----------------------------
(***************************************************************************)
(* What the durable ledgers of the backend promise about an action with an *)
(* effect outside the database: it is claimed at most once, performed at   *)
(* most once and only while it is claimed, and never after it was settled. *)
(* It may be settled without a claim, which refuses it or gives it up; a   *)
(* claim may be settled with no effect, and a restart settles several.     *)
(***************************************************************************)
EXTENDS Naturals

CONSTANT Items

VARIABLES
    phase,    \* how far each item has come
    effects   \* how often its effect was requested

vars == <<phase, effects>>

Init ==
    /\ phase = [i \in Items |-> "waiting"]
    /\ effects = [i \in Items |-> 0]

Refuse(i) ==
    /\ phase[i] = "waiting"
    /\ phase' = [phase EXCEPT ![i] = "settled"]
    /\ UNCHANGED effects

Claim(i) ==
    /\ phase[i] = "waiting"
    /\ phase' = [phase EXCEPT ![i] = "claimed"]
    /\ UNCHANGED effects

Perform(i) ==
    /\ phase[i] = "claimed" /\ effects[i] = 0
    /\ effects' = [effects EXCEPT ![i] = 1]
    /\ UNCHANGED phase

Settle(S) ==
    /\ \A i \in S : phase[i] = "claimed"
    /\ phase' = [i \in Items |-> IF i \in S THEN "settled" ELSE phase[i]]
    /\ UNCHANGED effects

Next ==
    \/ \E i \in Items : Refuse(i) \/ Claim(i) \/ Perform(i)
    \/ \E S \in SUBSET Items : Settle(S)

Spec == Init /\ [][Next]_vars
=============================================================================
