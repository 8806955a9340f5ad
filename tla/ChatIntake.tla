------------------------------ MODULE ChatIntake ------------------------------
(***************************************************************************)
(* The intake of Managed Chats, from the provider's callbacks to the       *)
(* Speaker: the account that archives what the provider delivers and what  *)
(* the coworker itself sends, the Managed Chat Inbox and its Windows, the  *)
(* Coalescer with one actor per chat, and the relay that hands a Window to *)
(* Flue and settles it.                                                    *)
(*                                                                         *)
(* An event is a message, a mention of the bot, an update of a message by  *)
(* somebody else, a mutation the bot itself sends (a reaction, an edit, a  *)
(* revocation), or history: backfill, receipts and the bot's own messages, *)
(* which are archived only. The provider may repeat an update. Timers may  *)
(* fire whenever something is buffered. Windows are numbered in the order  *)
(* of their creation. AnyPending, ReplayedEarly and StartWithoutReplay are *)
(* faulty variants that nothing uses.                                      *)
(***************************************************************************)
EXTENDS Naturals, Sequences, FiniteSets, Functions

CONSTANTS
  Event, Chat, ChatOf, Kind,
  Window,     \* numbers of the Windows (bounds them)
  Capacity,   \* maxWindowMessages
  Attempts,   \* of one Window's dispatch
  MaxTroubles, \* bounds crashes, faults and repetitions together
  MaxReloads,  \* bounds the reloads of the gate
  MaxEvents,   \* bounds events and troubles together
  None

ASSUME IntakeConstants ==
  /\ ChatOf \in [Event -> Chat]
  /\ Kind \in [Event -> {"message", "mention", "update", "mutation", "history"}]
  /\ Window \subseteq Nat /\ None \notin Window
  /\ Capacity \in Nat \ {0} /\ Attempts \in Nat \ {0}

VARIABLES
  archived, \* conversation_events
  seqOf,    \* inbox_sequence of each managed_chat_inbox row, 0 without a row
  lastSeq,  \* its AUTOINCREMENT counter
  windowOf, \* its window_id
  status,   \* managed_chat_admissions row of each Window
  gate,     \* the chats that are admitted
  mode,     \* how far the Coalescer has come: booting, replaying, streaming; stopped
  backlog,  \* rows read at the start, the first part of the event stream
  overlap,  \* those of them not yet seen a second time
  queue,    \* live events of each chat
  buffer,   \* what each chat's actor has gathered
  turn,     \* the Window each actor is dispatching
  todo,     \* pending Windows still to be replayed
  halted,   \* chats whose actor is fail-stopped
  \* history and bounds
  admitted, \* times Flue admitted each Window
  unsettled,\* Windows whose ledger write failed
  crashes, faults, repeats, reloads

rows   == <<archived, seqOf, lastSeq, windowOf>>
stream == <<mode, backlog, overlap, todo>>
bounds == <<crashes, faults, repeats, reloads>>
intakeVars == <<rows, status, gate, stream, queue, buffer, turn, halted, admitted, unsettled, bounds>>

Idle == [window |-> None, tries |-> 0, at |-> "idle"]
Turn(w, n, at) == [window |-> w, tries |-> n, at |-> at]
Of(c) == {e \in Event : ChatOf[e] = c}
Pending == {e \in Event : seqOf[e] > 0 /\ windowOf[e] = None}
Contents(w) == {e \in Event : windowOf[e] = w}
WindowChat(w) == CHOOSE c \in Chat : \E e \in Contents(w) : ChatOf[e] = c
Room == Cardinality(archived) + crashes + faults + repeats + reloads < MaxEvents
Trouble == crashes + faults + repeats < MaxTroubles /\ Room

(* conversationArrival, conversationUpdate and conversationSent: what an   *)
(* event of the provider, or a send, becomes in the archive.               *)
IsMessage(e)  == Kind[e] \in {"message", "mention"}
IsUpdate(e)   == Kind[e] = "update"
IsMutation(e) == Kind[e] = "mutation"
Listening == mode # "booting"

IntakeInit ==
  /\ archived = {}
  /\ seqOf = [e \in Event |-> 0]
  /\ lastSeq = 0
  /\ windowOf = [e \in Event |-> None]
  /\ status = [w \in Window |-> "absent"]
  /\ gate \in SUBSET Chat
  /\ mode = "booting"
  /\ backlog = {} /\ overlap = {} /\ todo = {} /\ halted = {} /\ unsettled = {}
  /\ queue = [c \in Chat |-> <<>>]
  /\ buffer = [c \in Chat |-> <<>>]
  /\ turn = [c \in Chat |-> Idle]
  /\ admitted = [w \in Window |-> 0]
  /\ crashes = 0 /\ faults = 0 /\ repeats = 0 /\ reloads = 0

-----------------------------------------------------------------------------
(* The account and the recorder.                                           *)

Accepts(e) == Kind[e] # "history" /\ ChatOf[e] \in gate

(* recorder.append: the archive's row and the inbox row in one transaction.*)
Record(e) ==
  /\ e \notin archived /\ Room
  /\ archived' = archived \cup {e}
  /\ IF Accepts(e)
     THEN /\ lastSeq' = lastSeq + 1
          /\ seqOf' = [seqOf EXCEPT ![e] = lastSeq + 1]
     ELSE UNCHANGED <<lastSeq, seqOf>>
  /\ UNCHANGED windowOf

(* The provider delivers an event for the first time. The event source     *)
(* asks the inbox for the row and queues it.                               *)
Deliver(e) ==
  /\ ~IsMutation(e)
  /\ Record(e)
  /\ queue' = IF Listening /\ Accepts(e)
              THEN [queue EXCEPT ![ChatOf[e]] = Append(@, e)] ELSE queue
  /\ UNCHANGED <<status, gate, stream, buffer, turn, halted, admitted, unsettled, bounds>>

(* An update delivered again is not archived again, but it is offered to   *)
(* the subscribers, and queued if no Window holds it. The filter on the    *)
(* stream drops one repetition of an event of the backlog.                 *)
Redeliver(e) ==
  /\ Trouble
  /\ IsUpdate(e) /\ e \in archived
  /\ Listening /\ ChatOf[e] \in gate /\ e \in Pending
  /\ IF e \in overlap
     THEN overlap' = overlap \ {e} /\ UNCHANGED queue
     ELSE queue' = [queue EXCEPT ![ChatOf[e]] = Append(@, e)] /\ UNCHANGED overlap
  /\ repeats' = repeats + 1
  /\ UNCHANGED <<rows, status, gate, mode, backlog, todo, buffer, turn, halted, admitted,
                 unsettled, crashes, faults, reloads>>

(* session.send of a reaction, an edit or a revocation: conversationSent   *)
(* is appended under an id of its own; the echo of the provider is         *)
(* recognised by its fingerprint and dropped.                              *)
SendMutation(e) ==
  /\ IsMutation(e)
  /\ Record(e)
  /\ UNCHANGED <<status, gate, stream, queue, buffer, turn, halted, admitted, unsettled, bounds>>

(* reloadManagedChats.                                                     *)
Reload(S) ==
  /\ reloads < MaxReloads /\ Room
  /\ S # gate
  /\ gate' = S
  /\ reloads' = reloads + 1
  /\ UNCHANGED <<rows, status, stream, queue, buffer, turn, halted, admitted, unsettled,
                 crashes, faults, repeats>>

-----------------------------------------------------------------------------
(* The Coalescer starts: subscription, unwindowed rows, pending Windows.   *)

StartWithoutReplay ==
  /\ mode = "booting"
  /\ mode' = "replaying"
  /\ backlog' = Pending
  /\ overlap' = Pending
  /\ UNCHANGED <<rows, status, gate, todo, queue, buffer, turn, halted, admitted, unsettled, bounds>>

Start ==
  /\ mode = "booting"
  /\ mode' = "replaying"
  /\ backlog' = Pending
  /\ overlap' = Pending
  /\ todo' = {w \in Window : status[w] = "pending"}
  /\ UNCHANGED <<rows, status, gate, queue, buffer, turn, halted, admitted, unsettled, bounds>>

(* The read of the pending Windows fails: intake is fail-stopped.          *)
StartFails ==
  /\ mode = "booting" /\ Trouble
  /\ mode' = "stopped"
  /\ faults' = faults + 1
  /\ UNCHANGED <<rows, status, gate, backlog, overlap, todo, queue, buffer, turn, halted,
                 admitted, unsettled, crashes, repeats, reloads>>

(* replayChat: a chat's pending Windows one after the other.               *)
Replay(w) ==
  /\ mode = "replaying" /\ w \in todo
  /\ turn[WindowChat(w)] = Idle
  /\ \A v \in todo : WindowChat(v) = WindowChat(w) => w <= v
  /\ turn' = [turn EXCEPT ![WindowChat(w)] = Turn(w, 0, "dispatching")]
  /\ todo' = todo \ {w}
  /\ UNCHANGED <<rows, status, gate, mode, backlog, overlap, queue, buffer, halted, admitted,
                 unsettled, bounds>>

ReplayedEarly ==
  /\ mode = "replaying" /\ \A c \in Chat : turn[c] = Idle
  /\ mode' = "streaming"
  /\ UNCHANGED <<rows, status, gate, backlog, overlap, todo, queue, buffer, turn, halted,
                 admitted, unsettled, bounds>>

Replayed ==
  /\ mode = "replaying" /\ todo = {} /\ \A c \in Chat : turn[c] = Idle
  /\ mode' = "streaming"
  /\ UNCHANGED <<rows, status, gate, backlog, overlap, todo, queue, buffer, turn, halted,
                 admitted, unsettled, bounds>>

-----------------------------------------------------------------------------
(* The actor of a chat: debounceActor over the events of the chat.         *)

Running(c) == mode = "streaming" /\ c \notin halted /\ turn[c] = Idle

Counted(b) == Len(SelectSeq(b, LAMBDA e : IsMessage(e)))

(* The last event makes the buffer fire at once.                           *)
Due(c) ==
  /\ buffer[c] # <<>>
  /\ \/ Kind[buffer[c][Len(buffer[c])]] = "mention"
     \/ Counted(buffer[c]) >= Capacity

Gather(c, e) == buffer' = [buffer EXCEPT ![c] = Append(@, e)]

TakeBacklog(c, e) ==
  /\ Running(c) /\ ~Due(c)
  /\ e \in backlog \cap Of(c)
  /\ \A f \in backlog \cap Of(c) : seqOf[e] <= seqOf[f]
  /\ Gather(c, e)
  /\ backlog' = backlog \ {e}
  /\ UNCHANGED <<rows, status, gate, mode, overlap, todo, queue, turn, halted, admitted,
                 unsettled, bounds>>

TakeLive(c) ==
  /\ Running(c) /\ ~Due(c)
  /\ backlog \cap Of(c) = {} /\ queue[c] # <<>>
  /\ Gather(c, Head(queue[c]))
  /\ queue' = [queue EXCEPT ![c] = Tail(@)]
  /\ UNCHANGED <<rows, status, gate, stream, turn, halted, admitted, unsettled, bounds>>

(* createWindow. A buffer that holds an event twice is never the oldest    *)
(* pending events.                                                         *)
AnyPending(c, S) == S \subseteq Pending

Oldest(c, S) ==
  /\ S \subseteq Pending
  /\ \A e \in S : \A f \in (Pending \cap Of(c)) \ S : seqOf[e] < seqOf[f]
Distinct(b) == \A i, j \in DOMAIN b : b[i] = b[j] => i = j
Assign(c, w) ==
  windowOf' = [e \in Event |-> IF e \in Range(buffer[c]) THEN w ELSE windowOf[e]]
Creates(c) == Oldest(c, Range(buffer[c])) /\ Distinct(buffer[c])
ReadsAgain(c, w) == Distinct(buffer[c]) /\ Range(buffer[c]) = Contents(w)

Fire(c, w) ==
  /\ buffer' = [buffer EXCEPT ![c] = <<>>]
  /\ turn' = [turn EXCEPT ![c] = Turn(w, 0, "dispatching")]

Cut(c, w) ==
  /\ Running(c) /\ buffer[c] # <<>>
  /\ Creates(c)
  /\ status[w] = "absent" /\ \A v \in Window : v < w => status[v] # "absent"
  /\ Assign(c, w)
  /\ status' = [status EXCEPT ![w] = "pending"]
  /\ Fire(c, w)
  /\ UNCHANGED <<archived, seqOf, lastSeq, gate, stream, queue, halted, admitted, unsettled,
                 bounds>>

(* The buffer is exactly an existing Window, which is dispatched again.    *)
CutAgain(c, w) ==
  /\ Running(c) /\ buffer[c] # <<>>
  /\ ReadsAgain(c, w)
  /\ Fire(c, w)
  /\ UNCHANGED <<rows, status, gate, stream, queue, halted, admitted, unsettled, bounds>>

(* createWindow throws, and the actor never goes on: it refuses the draft, *)
CutRefused(c) ==
  /\ Running(c) /\ buffer[c] # <<>>
  /\ ~Creates(c) /\ ~\E w \in Window : ReadsAgain(c, w)
  /\ halted' = halted \cup {c}
  /\ UNCHANGED <<rows, status, gate, stream, queue, buffer, turn, admitted, unsettled, bounds>>

(* or the database fails.                                                  *)
CutFails(c) ==
  /\ Running(c) /\ buffer[c] # <<>> /\ Trouble
  /\ halted' = halted \cup {c}
  /\ faults' = faults + 1
  /\ UNCHANGED <<rows, status, gate, stream, queue, buffer, turn, admitted, unsettled,
                 crashes, repeats, reloads>>

-----------------------------------------------------------------------------
(* admitWindow: dispatch with retries, then the ledger.                    *)

At(c, at) == mode # "stopped" /\ turn[c].at = at
Step(c, t) == turn' = [turn EXCEPT ![c] = t]
ledgerRest == <<rows, gate, stream, queue, buffer, halted, crashes, repeats, reloads>>

Admit(c) ==
  /\ At(c, "dispatching")
  /\ admitted' = [admitted EXCEPT ![turn[c].window] = @ + 1]
  /\ Step(c, [turn[c] EXCEPT !.at = "admitted"])
  /\ UNCHANGED <<ledgerRest, status, unsettled, faults>>

(* The dispatch throws, before or after Flue admitted the Window.          *)
DispatchThrows(c) ==
  /\ At(c, "dispatching") /\ Trouble
  /\ \E n \in {0, 1} : admitted' = [admitted EXCEPT ![turn[c].window] = @ + n]
  /\ Step(c, Turn(turn[c].window, turn[c].tries + 1,
                  IF turn[c].tries + 1 >= Attempts THEN "failing" ELSE "dispatching"))
  /\ faults' = faults + 1
  /\ UNCHANGED <<ledgerRest, status, unsettled>>

(* markDone and markFailed change a pending row only; on any other they    *)
(* throw, which is logged.                                                 *)
Settle(c, at, outcome) ==
  /\ At(c, at)
  /\ status' = IF status[turn[c].window] = "pending"
               THEN [status EXCEPT ![turn[c].window] = outcome] ELSE status
  /\ Step(c, Idle)
  /\ UNCHANGED <<ledgerRest, admitted, unsettled, faults>>

MarkDone(c)   == Settle(c, "admitted", "done")
MarkFailed(c) == Settle(c, "failing", "failed")

(* The ledger cannot be written: the Window stays pending until a restart. *)
LedgerFails(c) ==
  /\ At(c, "admitted") \/ At(c, "failing")
  /\ Trouble
  /\ unsettled' = unsettled \cup {turn[c].window}
  /\ Step(c, Idle)
  /\ faults' = faults + 1
  /\ UNCHANGED <<ledgerRest, status, admitted>>

Crash ==
  /\ Trouble
  /\ mode' = "booting"
  /\ backlog' = {} /\ overlap' = {} /\ todo' = {} /\ halted' = {}
  /\ queue' = [c \in Chat |-> <<>>]
  /\ buffer' = [c \in Chat |-> <<>>]
  /\ turn' = [c \in Chat |-> Idle]
  /\ crashes' = crashes + 1
  /\ UNCHANGED <<rows, status, gate, admitted, unsettled, faults, repeats, reloads>>

ActorStep(c) ==
  \/ \E e \in Event : TakeBacklog(c, e)
  \/ TakeLive(c)
  \/ \E w \in Window : Cut(c, w) \/ CutAgain(c, w)
  \/ CutRefused(c)
  \/ CutFails(c)

RelayStep(c) ==
  \/ Admit(c)
  \/ DispatchThrows(c)
  \/ MarkDone(c)
  \/ MarkFailed(c)
  \/ LedgerFails(c)

IntakeNext ==
  \/ \E e \in Event : Deliver(e) \/ Redeliver(e) \/ SendMutation(e)
  \/ \E S \in SUBSET Chat : Reload(S)
  \/ Start \/ StartFails \/ Replayed
  \/ \E w \in Window : Replay(w)
  \/ \E c \in Chat : ActorStep(c) \/ RelayStep(c)
  \/ Crash

(* A fiber that can go on does so: an event in the queue is taken, the     *)
(* timer of a buffer fires at the latest when maxWait is over, a dispatch  *)
(* returns or throws. Nothing obliges the provider or the operator.        *)
IntakeFairness ==
  /\ WF_intakeVars(Start \/ Replayed)
  /\ \A w \in Window : WF_intakeVars(Replay(w))
  /\ \A c \in Chat :
       /\ WF_intakeVars(TakeLive(c) \/ \E e \in Event : TakeBacklog(c, e))
       /\ WF_intakeVars(CutRefused(c) \/ \E w \in Window : Cut(c, w) \/ CutAgain(c, w))
       /\ WF_intakeVars(RelayStep(c))

IntakeSpec == IntakeInit /\ [][IntakeNext]_intakeVars /\ IntakeFairness

-----------------------------------------------------------------------------
(* Properties.                                                             *)

(* The rows are what they should be: an inbox row only for an archived     *)
(* event, a Window only for such a row, an admission for every Window.     *)
IntakeTypeOK ==
  /\ archived \subseteq Event
  /\ seqOf \in [Event -> 0..lastSeq] /\ lastSeq \in Nat
  /\ windowOf \in [Event -> Window \cup {None}]
  /\ status \in [Window -> {"absent", "pending", "done", "failed"}]
  /\ gate \subseteq Chat /\ mode \in {"booting", "replaying", "streaming", "stopped"}
  /\ backlog \subseteq Pending /\ overlap \subseteq Event
  /\ queue \in [Chat -> Seq(Event)] /\ buffer \in [Chat -> Seq(Event)]
  /\ turn \in [Chat -> [window : Window \cup {None}, tries : Nat,
                        at : {"idle", "dispatching", "admitted", "failing"}]]
  /\ todo \subseteq Window /\ halted \subseteq Chat /\ unsettled \subseteq Window
  /\ admitted \in [Window -> Nat]
  /\ \A e \in Event : /\ seqOf[e] > 0 => e \in archived
                      /\ windowOf[e] # None => seqOf[e] > 0
  /\ \A w \in Window : status[w] # "absent" <=> Contents(w) # {}

(* A chat is read without gap, repetition or reordering, and each Window   *)
(* is settled once, whatever crashes, repetitions and faults do.           *)
Feed == INSTANCE ChatFeed WITH
  outcome <- [w \in Window |-> IF status[w] \in {"done", "failed"} THEN status[w] ELSE "open"]
ImplementsFeed == Feed!FeedSpec

(* While a chat's actor lives, every accepted event that no Window holds   *)
(* is on its way to it; only the bot's own mutations are not.              *)
NothingForgotten ==
  mode = "streaming" =>
    \A c \in Chat \ halted : \A e \in Pending \cap Of(c) :
      IsMutation(e) \/ e \in backlog \cup Range(queue[c]) \cup Range(buffer[c])

(* A chat is fail-stopped by nothing but a failing database, a repeated    *)
(* update or a mutation the bot sent to it.                                *)
FailStopHasCause ==
  \A c \in halted : \/ faults > 0 \/ repeats > 0
                   \/ \E e \in Of(c) : IsMutation(e) /\ seqOf[e] > 0

(* At-least-once, and no oftener than there are reasons: a Window is done  *)
(* only if Flue admitted it, and it is admitted again only after a crash,  *)
(* a fault or a repeated update.                                           *)
WakesAccounted ==
  \A w \in Window : /\ status[w] = "done" => admitted[w] > 0
                    /\ admitted[w] <= 1 + crashes + faults + repeats

(* The Speaker hears a chat in order: a later Window is admitted first     *)
(* only when the earlier one failed or its failure could not be recorded.  *)
HeardInOrder ==
  \A v, w \in Window :
    (/\ v < w /\ status[w] # "absent" /\ WindowChat(v) = WindowChat(w)
     /\ admitted[w] > 0 /\ admitted[v] = 0)
    => status[v] = "failed" \/ v \in unsettled

(* Every accepted event but the bot's own mutations is put in a Window,    *)
(* unless its chat or the whole intake was fail-stopped.                   *)
EveryEventRead ==
  \A e \in Event : (~IsMutation(e) /\ seqOf[e] > 0) ~>
    (windowOf[e] # None \/ ChatOf[e] \in halted \/ mode = "stopped")

(* Every Window is settled, unless the ledger could not be written or the  *)
(* intake never started.                                                   *)
EveryWindowSettled ==
  \A w \in Window : status[w] = "pending" ~>
    (status[w] # "pending" \/ w \in unsettled \/ mode = "stopped")

(* "Every accepted live message belongs to exactly one Window"             *)
(* (CONTEXT.md), here without crashes, faults or repetitions.              *)
EveryAcceptedMessageRead ==
  \A e \in Event : (IsMessage(e) /\ seqOf[e] > 0) ~> windowOf[e] # None

(* Nothing lost, repeated, reordered or given up without a cause.          *)
IntakeIsLossless ==
  /\ IntakeTypeOK
  /\ NothingForgotten
  /\ FailStopHasCause
  /\ WakesAccounted
  /\ HeardInOrder

(* Both together: an accepted event reaches a Window, and the Window the   *)
(* Speaker.                                                                *)
IntakeProgress == EveryEventRead /\ EveryWindowSettled
=============================================================================
