------------------------------- MODULE MCScribe -------------------------------
(***************************************************************************)
(* The two clocks of the Scribe for TLC, side by side: "part" says which   *)
(* one moves in a behaviour.                                               *)
(*                                                                         *)
(* "waves": two observations, one of unknown time, and one mishap.         *)
(* "tries": one observation and two mishaps: all tries of a Batch can fail. *)
(* "wide": two chats and two rows, receipts among them; one turn of fate.  *)
(* "long": one chat and two events, through four deaths, reloads, failures *)
(* and retries: enough to go live, be disabled, and be resumed; the Brain  *)
(* never lags behind here, as it may in "wide".                            *)
(***************************************************************************)
EXTENDS ScribeWaves, HistoricalReplay

CONSTANTS o1, o2, e1, e2, e3, ca, cb

MCOccurredAt == o1 :> 0 @@ o2 :> 1
MCReplayChatOf == e1 :> ca @@ e2 :> ca @@ e3 :> cb
MCSentAt == e1 :> 2 @@ e2 :> 1 @@ e3 :> 0

VARIABLE part

mcVars == <<scribeVars, replayVars, part>>

\* The clock that does not move is at rest: nothing of it is enabled fairly.
MCInit ==
  \/ part \in {"waves", "tries"} /\ ScribeInit /\ ReplayBlank /\ host = "up"
  \/ part = "wide" /\ ReplayInit /\ managed = ReplayChat /\ ScribeBlank /\ queue = 0
  \/ part = "long" /\ ReplayInit /\ managed = {ca} /\ ScribeBlank /\ queue = 0

MCNext ==
  \/ part = "waves" /\ ScribeNext /\ mishaps' <= 1 /\ UNCHANGED <<replayVars, part>>
  \/ part = "tries" /\ ScribeNext /\ o2 \notin Range(log') /\ UNCHANGED <<replayVars, part>>
  \/ /\ part = "wide" /\ ReplayNext /\ turnsTaken' <= 1 /\ Len(rows') <= 2
     /\ UNCHANGED <<scribeVars, part>>
  \/ /\ part = "long" /\ ReplayNext /\ UNCHANGED <<scribeVars, part>>
     /\ e3 \notin Range(rows') /\ managed' \subseteq {ca} /\ backlog' = {}

MCSpec == MCInit /\ [][MCNext]_mcVars /\ ScribeFairness /\ ReplayFairness
=============================================================================
