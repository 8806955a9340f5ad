---------------------------- MODULE MCBrainInbox -----------------------------
(***************************************************************************)
(* Small instances of BrainInbox, and of TurnTracking, which shares nothing*)
(* with it, for TLC: "part" says which one is meant.                       *)
(*                                                                         *)
(* "work": Effects of every kind but wakes and silence, a launch that two  *)
(* runs compete for, one step of the clock.                                *)
(* "wakes": sweeps and Scheduled Wakes only, at two due times.             *)
(* "turns": TurnTracking, two turns in one chat, dispatched in order, the  *)
(* first of a Window or a Directive, and a silent third in another chat;   *)
(* the canary is answered by the second.                                   *)
(***************************************************************************)
EXTENDS BrainInbox, TurnTracking, TLC

CONSTANTS s1, i1, create, edit, c1, t1, t2, t3, ca, cb

(* Every Intent comes from the one Surface of the instance.                *)
MCSurfaceOf == [i \in Intent |-> s1]

(* The mutation `edit` targets comment c1; the other creates a comment.    *)
MCTarget == [m \in Mutation |-> IF m = edit THEN c1 ELSE None]

MCTurnChat == t1 :> ca @@ t2 :> ca @@ t3 :> cb

VARIABLE part

mcVars == <<vars, turnVars, part>>

MCInit ==
  /\ Init /\ part \in {"work", "wakes", "turns"}
  /\ TurnInit /\ {t2, t3} \subseteq forWindow /\ (part # "turns" => t1 \in forWindow)

Quiet == UNCHANGED <<scheduled, cancelled>> /\ \A b \in Batch, q \in Silence : effect'[b, q] = "absent"
Clocked ==
  /\ UNCHANGED <<launch, runOf>>
  /\ \A i \in Draft : admittedAt'[i] = None
  /\ \A b \in Batch, p \in Payload \ Silence : effect'[b, p] = "absent"

MCNext ==
  \/ /\ Next /\ vars' # vars /\ UNCHANGED <<turnVars, part>>
     /\ \/ part = "work" /\ now' <= 1 /\ Quiet
        \/ part = "wakes" /\ Clocked
  \/ /\ part = "turns" /\ UNCHANGED <<vars, part>>
     /\ TurnNext /\ turnVars' # turnVars
     /\ receipt'[t2] = "none" \/ receipt[t1] # "none"
     /\ canaryTurn' \in {t2, NoDispatch} /\ said' \subseteq {t1, t2}

MCSpec == MCInit /\ [][MCNext]_mcVars

(* Batch ids are interchangeable.                                          *)
MCSymmetry == Permutations(Batch)
=============================================================================
