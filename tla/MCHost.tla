-------------------------------- MODULE MCHost --------------------------------
(***************************************************************************)
(* Liveness of the process for TLC: "part" says which component moves in a *)
(* behaviour, the Brain's loop or the model credential of a file or of a   *)
(* tenant's database. They share only the process. At rest the Brain's     *)
(* runtime has failed and nobody asks for authorization.                   *)
(*                                                                         *)
(* Of the Brain, one wake is scheduled at most, by a Batch without another *)
(* Effect, in a behaviour with one trouble at most and without the GitHub  *)
(* event: each input has a Batch left for it. Whoever runs a turn that may *)
(* not schedule has another step to take.                                  *)
(*                                                                         *)
(* The calls c1 and c2 are of process p and c3 of process q. The file is   *)
(* used by one process.                                                    *)
(***************************************************************************)
EXTENDS MCBrainLoop, ModelCredential

CONSTANTS p, q, c1, c2, c3

VARIABLE part

hostVars == <<loopVars, credentialVars, part>>

MCProcessOf == (c1 :> p) @@ (c2 :> p) @@ (c3 :> q)

Part == {"brain", "file", "tenant"}

OneWake ==
  /\ Cardinality(scheduled) <= 1
  /\ scheduled # {} => crashes + faults <= 1 /\ \A e \in Event : admittedAt[e] = None
  /\ \A w \in scheduled, y \in Payload : effect[<<BatchOf(w), y>>] = "absent"

MCInit ==
  /\ part \in Part
  /\ LoopInitAt(IF part = "brain" THEN "starting" ELSE "failed")
  /\ CredentialInitAt(IF part = "file" THEN "file" ELSE "tenant")

MCNext ==
  \/ /\ part = "brain"
     /\ LoopNext
     /\ OneWake'
     /\ UNCHANGED <<credentialVars, part>>
  \/ /\ part # "brain"
     /\ CredentialNext
     /\ step'[IF part = "file" THEN c3 ELSE c2] = "idle"
     /\ UNCHANGED <<loopVars, part>>

MCSpec == MCInit /\ [][MCNext]_hostVars /\ Fairness /\ CredentialFairness
===============================================================================
