----------------------------- MODULE MCBrainLoop -----------------------------
(* Small instances of BrainLoop for TLC.                                   *)
EXTENDS BrainLoop, TLC

CONSTANT s1

MCSurfaceOf == [i \in Intent |-> s1]
MCTarget == [m \in Mutation |-> None]

(* LoopInit, but for boot. A runtime that has failed is at rest.           *)
LoopInitAt(phase) ==
  /\ Init
  /\ boot = phase
  /\ recovering = {}
  /\ wakes = 0
  /\ waking = None
  /\ lane = <<>>
  /\ turn = "idle"
  /\ bound = TRUE
  /\ sent = [b \in Batch |-> 0]
  /\ crashes = 0
  /\ faults = 0
=============================================================================
