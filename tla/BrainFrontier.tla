---------------------------- MODULE BrainFrontier ----------------------------
(***************************************************************************)
(* What the Brain's up-inbox promises, without Batches, timestamps or      *)
(* Effects: inputs arrive, at most Limit of them at a time stand before    *)
(* the Brain, and those are consumed together before any other is taken.   *)
(* An input is taken once. A wake withdrawn before it is taken never is.   *)
(* BrainInbox implements this specification.                               *)
(***************************************************************************)
EXTENDS Naturals, FiniteSets

CONSTANTS
  Input,  \* everything the Brain may be told
  Limit   \* most inputs it takes at once

VARIABLE phase

Phase == {"absent", "ready", "claimed", "consumed", "withdrawn"}

In(p) == {i \in Input : phase[i] = p}

Move(S, p) == phase' = [i \in Input |-> IF i \in S THEN p ELSE phase[i]]

Init == phase = [i \in Input |-> "absent"]

\* Any number of inputs arrive together.
Arrive ==
  /\ phase' \in [Input -> Phase]
  /\ \A i \in Input : phase'[i] = phase[i] \/ (phase[i] = "absent" /\ phase'[i] = "ready")

Withdraw(i) == i \in In("absent") \cup In("ready") /\ Move({i}, "withdrawn")

Claim(S) ==
  /\ In("claimed") = {}
  /\ S # {}
  /\ S \subseteq In("ready")
  /\ Cardinality(S) <= Limit
  /\ Move(S, "claimed")

Consume ==
  /\ In("claimed") # {}
  /\ Move(In("claimed"), "consumed")

Next ==
  \/ \E S \in SUBSET In("ready") : Claim(S)
  \/ Arrive
  \/ \E i \in Input : Withdraw(i)
  \/ Consume

Spec == Init /\ [][Next]_phase
=============================================================================
