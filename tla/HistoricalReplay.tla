--------------------------- MODULE HistoricalReplay ---------------------------
(***************************************************************************)
(* Historical Replay: how the Scribe is fed from the archive, and how a    *)
(* chat is handed from its snapshot to its tail to the live stream         *)
(* (historical-replay.ts, the workflow, the boot of the runtime, and the   *)
(* slice of a live Window that dispatchSpeaker offers).                    *)
(*                                                                         *)
(* Each chat has a scanner with two marks in the archive and a cursor. The *)
(* workflow merges the scanners of all chats in chronological order, feeds *)
(* a batch to the Scribe, waits for it, and moves the cursors. A live      *)
(* Window's event is offered only when it lies behind the last mark of a   *)
(* live chat. The process may die between any two steps; the operator may  *)
(* edit the managed chats and retry a scanner at any time.                 *)
(***************************************************************************)
EXTENDS Naturals, Sequences, FiniteSets, SequencesExt, FiniteSetsExt

CONSTANTS
  ArchiveEvent,  \* events the archive may receive
  ReplayChat,    \* WhatsApp chats
  ReplayChatOf,  \* the chat of an event
  SentAt,        \* when it occurred; 0 is an unknown time
  Shown,         \* the events that are not receipts
  BatchLimit,    \* rows in a batch of the workflow: 50
  NoMark,        \* a mark that is NULL
  MaxTurns       \* bound: deaths, failed runs, reloads and retries together

ASSUME ReplayAssumption ==
  /\ BatchLimit \in Nat \ {0} /\ NoMark \notin Nat
  /\ Shown \subseteq ArchiveEvent
  /\ \A e \in ArchiveEvent : ReplayChatOf[e] \in ReplayChat /\ SentAt[e] \in Nat

VARIABLES
  rows,     \* conversation_events, by rowid
  accepted, \* events the managed inbox took
  windows,  \* accepted events whose Window is not yet dispatched
  scanner,  \* historical_replay_surfaces
  managed,  \* the managed chats
  fed,      \* evidence in the Scribe's inbox
  done,     \* evidence of completed Batches
  backlog,  \* evidence whose Knowledge Delta the Brain has not settled
  cut,      \* events that disabling a live chat put behind its mark unfed
  host,     \* how far the runtime has booted
  todo,     \* chats the boot has still to reconcile
  run,      \* where the workflow stands
  batch,    \* the rows it works on
  awaited,  \* evidence of the deltas it waits for
  turnsTaken \* the deaths, failures, reloads and retries so far

archiveState == <<rows, accepted, windows>>
scribeState == <<fed, done, backlog>>
hostState == <<host, todo>>
runState == <<run, batch, awaited>>
replayVars == <<archiveState, scanner, managed, scribeState, cut, hostState, runState, turnsTaken>>

Unknown == [mode |-> "none", phase |-> "snapshot", mark |-> NoMark, cursor |-> 0, after |-> 0]

\* A new installation.
ReplayBlank ==
  /\ rows = <<>> /\ accepted = {} /\ windows = {}
  /\ scanner = [c \in ReplayChat |-> Unknown]
  /\ managed \in SUBSET ReplayChat
  /\ fed = {} /\ done = {} /\ backlog = {} /\ cut = {}
  /\ todo = {}
  /\ run = "off" /\ batch = {} /\ awaited = {}
  /\ turnsTaken = 0

ReplayInit == ReplayBlank /\ host = "sync"

-----------------------------------------------------------------------------
(* The archive and the scanners. *)

RowsOf(c) == {r \in DOMAIN rows : ReplayChatOf[rows[r]] = c}
LastRow(c) == IF RowsOf(c) = {} THEN 0 ELSE Max(RowsOf(c))
Visible(R) == {rows[r] : r \in R} \cap Shown

\* Chronological order; what has no time comes last.
Earlier(r, s) ==
  LET unknown(q) == IF SentAt[rows[q]] = 0 THEN 1 ELSE 0
  IN \/ unknown(r) < unknown(s)
     \/ /\ unknown(r) = unknown(s)
        /\ \/ SentAt[rows[r]] < SentAt[rows[s]]
           \/ SentAt[rows[r]] = SentAt[rows[s]] /\ r < s

CatchingUp == {c \in ReplayChat : scanner[c].mode = "catching_up"}

\* The rows of a scanner's round that its cursor has not passed.
RowsFor(c) ==
  LET s == scanner[c]
  IN IF s.mark = NoMark THEN {}
     ELSE {r \in RowsOf(c) :
             /\ r <= s.mark
             /\ s.phase = "tail" => r > s.after
             /\ s.cursor # 0 => Earlier(s.cursor, r)}

\* The earliest rows of all scanners together.
NextBatch ==
  LET R == UNION {RowsFor(c) : c \in CatchingUp}
  IN {r \in R : Cardinality({q \in R : Earlier(q, r)}) < BatchLimit}

\* The row of "R" a chat's cursor moves to.
LatestOf(R, c) ==
  LET mine == R \cap RowsOf(c)
  IN CHOOSE r \in mine : \A q \in mine : q = r \/ Earlier(q, r)

Captured == [c \in ReplayChat |->
  IF c \in CatchingUp /\ scanner[c].mark = NoMark
  THEN [scanner[c] EXCEPT !.mark = LastRow(c)] ELSE scanner[c]]

\* advance(): snapshots first, all together; then another round of all tails
\* while any chat has new rows; then all go live.
Snapshots == {c \in CatchingUp : scanner[c].phase = "snapshot"}
NextRound(s, c) == [s EXCEPT !.phase = "tail", !.after = s.mark, !.mark = LastRow(c), !.cursor = 0]
WentLive(s) == [s EXCEPT !.mode = "live", !.after = s.mark, !.cursor = 0]
MarkedAt(c) == IF scanner[c].mark = NoMark THEN scanner[c].after ELSE scanner[c].mark
\* A mistake: rows that arrived during the tail are left to the live stream.
IgnoresNewRows == FALSE
HasNewRows == \E c \in CatchingUp : LastRow(c) > MarkedAt(c)

Moving == IF Snapshots # {} THEN Snapshots ELSE CatchingUp
Advances == CatchingUp # {} /\ \A c \in Moving : RowsFor(c) = {}
AdvanceThrows == Advances /\ \E c \in Moving : scanner[c].mark = NoMark
\* A mistake: each chat goes live on its own.
AdvancedEach == [c \in ReplayChat |->
  IF c \notin Moving THEN scanner[c]
  ELSE IF Snapshots # {} \/ LastRow(c) > MarkedAt(c) THEN NextRound(scanner[c], c)
  ELSE WentLive(scanner[c])]
Advanced == [c \in ReplayChat |->
  IF c \notin Moving THEN scanner[c]
  ELSE IF Snapshots # {} \/ HasNewRows THEN NextRound(scanner[c], c)
  ELSE WentLive(scanner[c])]

-----------------------------------------------------------------------------
(* Events, Windows and the operator. *)

\* A row of the first link's conversation sync; it is never a live event.
ImportHistory(e) ==
  /\ host = "sync" /\ e \notin Range(rows) /\ scanner[ReplayChatOf[e]].mode = "none"
  /\ rows' = Append(rows, e)
  /\ UNCHANGED <<accepted, windows, scanner, managed, scribeState, cut, hostState, runState, turnsTaken>>

Archive(e) ==
  /\ host # "down" /\ e \notin Range(rows)
  /\ rows' = Append(rows, e)
  /\ IF e \in Shown /\ ReplayChatOf[e] \in managed
     THEN accepted' = accepted \cup {e} /\ windows' = windows \cup {e}
     ELSE UNCHANGED <<accepted, windows>>
  /\ UNCHANGED <<scanner, managed, scribeState, cut, hostState, runState, turnsTaken>>

\* liveSlice, for one event of the Window.
Slice(e) ==
  LET s == scanner[ReplayChatOf[e]]
  IN s.mode = "none" \/ (s.mode = "live" /\ \E r \in DOMAIN rows : rows[r] = e /\ r > s.after)

DispatchWindow(e) ==
  /\ host = "up" /\ e \in windows /\ ReplayChatOf[e] \in managed
  /\ windows' = windows \ {e}
  /\ fed' = IF Slice(e) THEN fed \cup {e} ELSE fed
  /\ UNCHANGED <<rows, accepted, scanner, managed, done, backlog, cut, hostState, runState, turnsTaken>>

\* What the environment may do to the runtime, in all at most MaxTurns times.
Turn == turnsTaken < MaxTurns /\ turnsTaken' = turnsTaken + 1

Reload(M) ==
  /\ Turn /\ M # managed
  /\ managed' = M
  /\ UNCHANGED <<archiveState, scanner, scribeState, cut, hostState, runState>>

\* The operator's command; the runtime may be down, or in the middle of a run.
RetryScanner(c) ==
  /\ Turn /\ scanner[c].mode \in {"failed", "disabled"}
  /\ scanner' = [scanner EXCEPT ![c].mode = "catching_up"]
  /\ UNCHANGED <<archiveState, managed, scribeState, cut, hostState, runState>>

-----------------------------------------------------------------------------
(* The Scribe, as Historical Replay sees it. *)

\* A drain completes what is pending; some of it changes what the Brain knows.
Extract(news) ==
  /\ done' = fed
  /\ news \subseteq fed \ done
  /\ backlog' = backlog \cup news

\* A drain of the coalescer: a flush of live offers, or the one at the start.
OtherDrain ==
  /\ host # "down" /\ fed # done
  /\ \E news \in {{}, fed \ done} : Extract(news)
  /\ UNCHANGED <<archiveState, scanner, managed, fed, cut, hostState, runState, turnsTaken>>

BrainSettles ==
  /\ host = "up" /\ backlog # {}
  /\ backlog' = {}
  /\ UNCHANGED <<archiveState, scanner, managed, fed, done, cut, hostState, runState, turnsTaken>>

-----------------------------------------------------------------------------
(* The boot. *)

Synchronized ==
  /\ host = "sync"
  /\ host' = "reconcile" /\ todo' = ReplayChat
  /\ UNCHANGED <<archiveState, scanner, managed, scribeState, cut, runState, turnsTaken>>

\* disable(): a live chat's marks move to the end of the archive.
Disabled(c) ==
  IF scanner[c].mode = "live"
  THEN [scanner[c] EXCEPT !.mode = "disabled", !.after = LastRow(c), !.mark = LastRow(c), !.cursor = 0]
  ELSE [scanner[c] EXCEPT !.mode = "disabled"]

BootChat(c) ==
  /\ host = "reconcile" /\ c \in todo
  /\ todo' = todo \ {c}
  /\ IF c \notin managed
     THEN /\ scanner' = IF scanner[c].mode = "none" THEN scanner ELSE [scanner EXCEPT ![c] = Disabled(c)]
          /\ cut' = IF scanner[c].mode = "live" THEN cut \cup (Visible(RowsOf(c)) \ fed) ELSE cut
     ELSE /\ scanner' = IF scanner[c].mode \in {"none", "disabled"}
                        THEN [scanner EXCEPT ![c].mode = "catching_up"] ELSE scanner
          /\ UNCHANGED cut
  /\ UNCHANGED <<archiveState, managed, scribeState, host, runState, turnsTaken>>

CaptureSnapshots ==
  /\ host = "reconcile" /\ todo = {}
  /\ scanner' = Captured
  /\ host' = "cross"
  /\ UNCHANGED <<archiveState, managed, scribeState, cut, todo, runState, turnsTaken>>

\* Empty snapshots go live without a run; otherwise the workflow starts.
Cross ==
  /\ host = "cross" /\ NextBatch = {} /\ Advances /\ ~AdvanceThrows
  /\ scanner' = Advanced
  /\ UNCHANGED <<archiveState, managed, scribeState, cut, hostState, runState, turnsTaken>>

GoOnline ==
  /\ host = "cross" /\ ~(NextBatch = {} /\ Advances)
  /\ host' = "up"
  /\ run' = IF CatchingUp # {} THEN "start" ELSE "off"
  /\ UNCHANGED <<archiveState, scanner, managed, scribeState, cut, todo, batch, awaited, turnsTaken>>

-----------------------------------------------------------------------------
(* The workflow. *)

StartRun ==
  /\ run = "start"
  /\ scanner' = Captured
  /\ run' = "next"
  /\ UNCHANGED <<archiveState, managed, scribeState, cut, hostState, batch, awaited, turnsTaken>>

\* A batch of receipts is passed over.
TakeBatch ==
  /\ run = "next" /\ NextBatch # {}
  /\ batch' = NextBatch
  /\ run' = IF Visible(NextBatch) = {} THEN "told" ELSE "feed"
  /\ awaited' = {}
  /\ UNCHANGED <<archiveState, scanner, managed, scribeState, cut, hostState, turnsTaken>>

Advance ==
  /\ run = "next" /\ NextBatch = {} /\ Advances /\ ~AdvanceThrows
  /\ scanner' = Advanced
  /\ UNCHANGED <<archiveState, managed, scribeState, cut, hostState, runState, turnsTaken>>

EndRun ==
  /\ run = "next" /\ NextBatch = {} /\ (Advances => AdvanceThrows)
  /\ run' = "off"
  /\ UNCHANGED <<archiveState, scanner, managed, scribeState, cut, hostState, batch, awaited, turnsTaken>>

Feed ==
  /\ run = "feed"
  /\ fed' = fed \cup Visible(batch)
  /\ run' = "drain"
  /\ UNCHANGED <<archiveState, scanner, managed, done, backlog, cut, hostState, batch, awaited, turnsTaken>>

\* The workflow's own drain, and the deltas it collects to wait for. What
\* another drain has completed meanwhile leaves this one nothing to do.
Drain ==
  /\ run = "drain"
  /\ \E news \in {{}, fed \ done} : Extract(news) /\ awaited' = news
  /\ run' = "told"
  /\ UNCHANGED <<archiveState, scanner, managed, fed, cut, hostState, batch, turnsTaken>>

CaughtUp == awaited \cap backlog = {}

Moved(R) == [c \in ReplayChat |->
  IF c \in CatchingUp /\ R \cap RowsOf(c) # {}
  THEN [scanner[c] EXCEPT !.cursor = LatestOf(R, c)] ELSE scanner[c]]

Checkpoint ==
  /\ run = "told" /\ CaughtUp
  /\ scanner' = Moved(batch)
  /\ run' = "next" /\ batch' = {} /\ awaited' = {}
  /\ UNCHANGED <<archiveState, managed, scribeState, cut, hostState, turnsTaken>>

\* A Batch failed all its tries: every scanner that catches up is stopped.
FailRun ==
  /\ run = "drain" /\ Turn
  /\ scanner' = [c \in ReplayChat |->
                   IF c \in CatchingUp THEN [scanner[c] EXCEPT !.mode = "failed"] ELSE scanner[c]]
  /\ run' = "off" /\ batch' = {}
  /\ UNCHANGED <<archiveState, managed, scribeState, cut, hostState, awaited>>

-----------------------------------------------------------------------------
Stopped == host' = "down" /\ todo' = {} /\ run' = "off" /\ batch' = {} /\ awaited' = {}

ReplayDies ==
  /\ host # "down" /\ Turn
  /\ Stopped
  /\ UNCHANGED <<archiveState, scanner, managed, scribeState, cut>>

\* A scanner without a mark, retried while the boot crosses, ends the boot.
BootFails ==
  /\ host = "cross" /\ NextBatch = {} /\ AdvanceThrows
  /\ Stopped
  /\ UNCHANGED <<archiveState, scanner, managed, scribeState, cut, turnsTaken>>

Restart ==
  /\ host = "down"
  /\ host' = "sync"
  /\ UNCHANGED <<archiveState, scanner, managed, scribeState, cut, todo, runState, turnsTaken>>

Boot ==
  \/ Synchronized \/ CaptureSnapshots \/ Cross \/ GoOnline \/ BootFails
  \/ \E c \in ReplayChat : BootChat(c)
Workflow == StartRun \/ TakeBatch \/ Advance \/ EndRun \/ Feed \/ Drain \/ Checkpoint

ReplayNext ==
  \/ \E e \in ArchiveEvent : ImportHistory(e) \/ Archive(e) \/ DispatchWindow(e)
  \/ \E M \in SUBSET ReplayChat : Reload(M)
  \/ \E c \in ReplayChat : RetryScanner(c)
  \/ OtherDrain \/ BrainSettles
  \/ Boot \/ Workflow \/ FailRun
  \/ ReplayDies \/ Restart

\* The runtime is started again, boots, runs its workflow, dispatches Windows;
\* the Scribe and the Brain work through what they hold.
ReplayFairness ==
  /\ WF_replayVars(Restart) /\ WF_replayVars(Boot) /\ WF_replayVars(Workflow)
  /\ WF_replayVars(BrainSettles)
  /\ \A e \in ArchiveEvent : WF_replayVars(DispatchWindow(e))

ReplaySpec == ReplayInit /\ [][ReplayNext]_replayVars /\ ReplayFairness

-----------------------------------------------------------------------------
(* Properties. *)

\* The types of the state, as the schema's checks give them.
ReplayTypeOK ==
  /\ rows \in Seq(ArchiveEvent) /\ IsInjective(rows)
  /\ windows \subseteq accepted /\ accepted \subseteq Range(rows)
  /\ scanner \in [ReplayChat -> [mode : {"none", "catching_up", "live", "failed", "disabled"},
                                 phase : {"snapshot", "tail"}, mark : Nat \cup {NoMark},
                                 cursor : Nat, after : Nat]]
  /\ done \subseteq fed /\ fed \subseteq Shown /\ backlog \subseteq done
  /\ host \in {"down", "sync", "reconcile", "cross", "up"}
  /\ run \in {"off", "start", "next", "feed", "drain", "told"}

\* The rows a scanner has passed: those of earlier rounds, and those of this
\* round up to its cursor.
Passed(c) ==
  LET s == scanner[c]
  IN {r \in RowsOf(c) : \/ s.phase = "tail" /\ r <= s.after
                        \/ s.mark # NoMark /\ r <= s.mark /\ s.cursor # 0 /\ ~Earlier(s.cursor, r)}

\* No gap and no leak in the handoff: whatever a scanner has passed the Scribe
\* has been fed, through snapshot, tails, deaths, failures and retries, except
\* what disabling a live chat cut off; and an accepted event beyond the mark of
\* a live chat is fed or still waits in its Window.
NothingSkipped ==
  \A c \in ReplayChat :
    /\ scanner[c].mode # "none" => Visible(Passed(c)) \subseteq fed \cup cut
    /\ scanner[c].mode = "live" =>
         Visible(RowsOf(c) \ Passed(c)) \cap accepted \subseteq fed \cup windows

\* A cursor passes evidence only when the Scribe has completed it.
CheckpointAfterExtraction ==
  [][\A c \in ReplayChat : scanner'[c].cursor # 0 /\ scanner'[c].cursor # scanner[c].cursor =>
       Visible(batch \cap RowsOf(c)) \subseteq done]_replayVars

\* No scanner goes live ahead of another: the chats that catch up do so
\* together, so that none becomes live while an older row of any is unread.
LiveTogether ==
  [][\A c \in ReplayChat : scanner[c].mode = "catching_up" /\ scanner'[c].mode = "live" =>
       \A d \in CatchingUp : scanner'[d].mode = "live" /\ RowsFor(d) = {} /\ LastRow(d) <= scanner[d].mark]_replayVars

\* Every accepted event reaches the Scribe, by replay or by its live Window,
\* unless its chat was cut off, left the managed set, failed, or was retried
\* by the operator while no workflow ran.
Suspended(c) ==
  \/ c \notin managed
  \/ scanner[c].mode \in {"failed", "disabled"}
  \/ scanner[c].mode = "catching_up" /\ host = "up" /\ run = "off"
EveryAcceptedEventFed ==
  \A e \in ArchiveEvent : e \in accepted ~> e \in fed \cup cut \/ Suspended(ReplayChatOf[e])

\* ADR 0001: "Historical Replay is complete only after both extraction and the
\* resulting Brain backlog have caught up."
CompleteAfterBrain ==
  [][\A c \in ReplayChat : scanner[c].mode = "catching_up" /\ scanner'[c].mode = "live" =>
       Visible(RowsOf(c)) \cap backlog = {}]_replayVars

(* The handoff from snapshot to tail to live intake, in one property.      *)
HandoffIsExact ==
  /\ [](ReplayTypeOK /\ NothingSkipped)
  /\ CheckpointAfterExtraction
  /\ LiveTogether
=============================================================================
