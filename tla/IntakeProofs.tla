----------------------------- MODULE IntakeProofs -----------------------------
(***************************************************************************)
(* What holds of the Managed Chat intake whatever the number of events,    *)
(* chats, Windows, crashes, faults and repetitions: ChatIntake keeps its   *)
(* rows, forgets nothing, stops for a cause, wakes a Speaker no oftener    *)
(* than there is a reason to, in the order of the chat, and implements     *)
(* ChatFeed; the debounce actor flushes on time; and the archive shows of  *)
(* each message what its facts say.                                        *)
(*                                                                         *)
(* None of this is inductive as it stands. What connects it is where an    *)
(* event may be: a row that no Window holds is in the backlog, the queue   *)
(* or the buffer of its chat (OnItsWay), in the order of its number        *)
(* (Tidy); how often it may be there is bounded by the reasons to put it   *)
(* there again (Occasions); and a Window that was not heard is still to be *)
(* replayed or is the one its chat's actor is about (InOrder).             *)
(***************************************************************************)
EXTENDS ChatIntake, DebounceActor, ArchiveProjection,
        FiniteSetTheorems, SequenceTheorems, WellFoundedInduction, TLAPS

(* The types: what each row, queue and turn may hold.                      *)
TurnState == [window : Window \cup {None}, tries : Nat,
              at : {"idle", "dispatching", "admitted", "failing"}]
IntakeTyped ==
  /\ archived \subseteq Event
  /\ lastSeq \in Nat
  /\ seqOf \in [Event -> Nat]
  /\ windowOf \in [Event -> Window \cup {None}]
  /\ status \in [Window -> {"absent", "pending", "done", "failed"}]
  /\ gate \subseteq Chat
  /\ mode \in {"booting", "replaying", "streaming", "stopped"}
  /\ backlog \subseteq Event /\ overlap \subseteq Event
  /\ queue \in [Chat -> Seq(Event)]
  /\ buffer \in [Chat -> Seq(Event)]
  /\ turn \in [Chat -> TurnState]
  /\ todo \subseteq Window /\ halted \subseteq Chat /\ unsettled \subseteq Window
  /\ admitted \in [Window -> Nat]
  /\ crashes \in Nat /\ faults \in Nat /\ repeats \in Nat

(* The rows: numbers are given once and in order, a Window is of one chat, *)
(* has an admission as soon as it has an event, and Windows are numbered   *)
(* without a gap.                                                          *)
Numbered ==
  \A e \in Event : /\ seqOf[e] <= lastSeq
                   /\ seqOf[e] > 0 => e \in archived
                   /\ windowOf[e] # None => seqOf[e] > 0
NoTies == \A e, f \in Event : seqOf[e] > 0 /\ seqOf[e] = seqOf[f] => e = f
OneChat ==
  \A e, f \in Event : windowOf[e] # None /\ windowOf[e] = windowOf[f] => ChatOf[e] = ChatOf[f]
Filled == \A w \in Window : status[w] # "absent" <=> Contents(w) # {}
InTurn ==
  \A w \in Window :
    /\ status[w] = "absent" => admitted[w] = 0
    /\ status[w] # "absent" => \A v \in Window : v < w => status[v] # "absent"
Rows == Numbered /\ NoTies /\ OneChat /\ Filled /\ InTurn

(* What is on its way to a chat is an accepted event of that chat; before  *)
(* the stream starts nothing is gathered and no actor has stopped.         *)
Inboxed(c) == {e \in Of(c) : seqOf[e] > 0}
InQueues == \A c \in Chat : Range(queue[c]) \subseteq Inboxed(c)
InBuffers == \A c \in Chat : Range(buffer[c]) \subseteq Inboxed(c) \ backlog
Quiet ==
  /\ mode = "booting" => backlog = {} /\ \A c \in Chat : queue[c] = <<>>
  /\ mode # "streaming" => halted = {} /\ \A c \in Chat : buffer[c] = <<>>
Placed == backlog \subseteq Pending /\ InQueues /\ InBuffers /\ Quiet

(* A turn that is under way is about a Window of its chat, and Flue has    *)
(* admitted it when the turn says so. No turn outlives the process;        *)
(* pending Windows are replayed before the stream.                         *)
EngagedWell(c) ==
  IF turn[c].at = "idle" THEN turn[c] = Idle
  ELSE /\ turn[c].window \in Window
       /\ Contents(turn[c].window) # {}
       /\ Contents(turn[c].window) \subseteq Of(c)
       /\ turn[c].at = "admitted" => admitted[turn[c].window] > 0
Engaged == \A c \in Chat : EngagedWell(c)
AtRest == mode \in {"booting", "stopped"} => \A c \in Chat : turn[c] = Idle
StillToDo == (mode # "replaying" => todo = {}) /\ \A w \in todo : status[w] # "absent"
Turns == Engaged /\ AtRest /\ StillToDo

(* While a chat's actor lives, an accepted event that no Window holds is   *)
(* on its way to it; the bot's own mutations are not.                      *)
OnWay(c) ==
  \A e \in Pending \cap Of(c) :
    IsMutation(e) \/ e \in backlog \cup Range(queue[c]) \cup Range(buffer[c])
OnItsWay == mode \in {"replaying", "streaming"} => \A c \in Chat \ halted : OnWay(c)

(* In a chat without a repeated update and without a mutation of the bot,  *)
(* everything on its way is pending and in the order of its numbers, the   *)
(* buffer before the backlog and the backlog before the queue. This is why *)
(* createWindow then never refuses a draft.                                *)
Undisturbed(c) == repeats = 0 /\ \A e \in Of(c) : ~ (IsMutation(e) /\ seqOf[e] > 0)
Rising(s) == \A i, j \in DOMAIN s : i < j => seqOf[s[i]] < seqOf[s[j]]
Before(S, T) == \A e \in S, f \in T : seqOf[e] < seqOf[f]
TidyChat(c) ==
  /\ Range(buffer[c]) \cup Range(queue[c]) \subseteq Pending
  /\ Rising(buffer[c]) /\ Rising(queue[c])
  /\ Before(Range(buffer[c]), backlog \cap Of(c))
  /\ Before(Range(buffer[c]), Range(queue[c]))
  /\ Before(backlog \cap Of(c), Range(queue[c]))
Tidy == \A c \in Chat : Undisturbed(c) => TidyChat(c)

(* The occasions to wake a Speaker: an event's copies on their way, the    *)
(* admissions of its Window, its place among the Windows to replay and the *)
(* dispatch under way together are no more than one and the troubles so    *)
(* far; a process that has just started has used up none for itself.       *)
Reasons == crashes + faults + repeats
Copies(s, e) == Cardinality({i \in DOMAIN s : s[i] = e})
One(p) == IF p THEN 1 ELSE 0
Dispatching(c, w) == turn[c].at = "dispatching" /\ turn[c].window = w
InFlight(e) == Copies(buffer[ChatOf[e]], e) + Copies(queue[ChatOf[e]], e) + One(e \in backlog)
Spent(c, w) == IF w = None THEN 0 ELSE admitted[w] + One(w \in todo) + One(Dispatching(c, w))
Afford(e) == seqOf[e] > 0 => Spent(ChatOf[e], windowOf[e]) + InFlight(e) <= 1 + Reasons
Affordable == \A e \in Event : Afford(e)
FreshBoot == mode = "booting" => \A w \in Window : admitted[w] <= Reasons
DoneWasHeard == \A w \in Window : status[w] = "done" => admitted[w] > 0
Occasions == Affordable /\ FreshBoot /\ DoneWasHeard

(* The order: an earlier Window of the chat was heard, or failed, or its   *)
(* outcome could not be written, before a later one is dispatched.         *)
Chats(w) == {ChatOf[e] : e \in Contents(w)}
Heard(w) == admitted[w] > 0 \/ status[w] = "failed" \/ w \in unsettled
AdmittedInOrder ==
  \A v, w \in Window : \A c \in Chats(v) \cap Chats(w) :
    v < w /\ admitted[w] > 0 => Heard(v)
EngagedInOrder ==
  \A v, w \in Window : \A c \in Chats(v) \cap Chats(w) :
    v < w /\ turn[c].window = w => Heard(v)
Awaited ==
  \A w \in Window : \A c \in Chats(w) :
    Heard(w) \/ w \in todo \/ turn[c].window = w \/ mode \in {"booting", "stopped"}
InOrder == AdmittedInOrder /\ EngagedInOrder /\ Awaited

(* The inductive invariant.                                                *)
IntakeInv ==
  /\ IntakeTyped /\ Rows /\ Placed /\ Turns /\ OnItsWay
  /\ Tidy /\ Occasions /\ InOrder /\ FailStopHasCause

-----------------------------------------------------------------------------

(* What an element at the end of a sequence, or the loss of its head, does *)
(* to what the sequence holds and how often.                               *)
LEMMA RangeAppend ==
  ASSUME NEW s \in Seq(Event), NEW x \in Event
  PROVE  Append(s, x) \in Seq(Event) /\ Range(Append(s, x)) = Range(s) \cup {x}
<1>1. DOMAIN Append(s, x) = DOMAIN s \cup {Len(s) + 1}
    BY AppendProperties
<1> QED
    BY <1>1, AppendProperties DEF Range

LEMMA RangeTail ==
  ASSUME NEW s \in Seq(Event), s # <<>>
  PROVE  /\ Head(s) \in Event /\ Tail(s) \in Seq(Event)
         /\ Range(s) = {Head(s)} \cup Range(Tail(s))
<1>1. Head(s) \in Event /\ Tail(s) \in Seq(Event) /\ s[1] = Head(s) /\ 1 \in DOMAIN s
    BY HeadTailProperties
<1>2. \A i \in DOMAIN Tail(s) : i + 1 \in DOMAIN s /\ Tail(s)[i] = s[i + 1]
    BY HeadTailProperties
<1>3. \A j \in DOMAIN s : j = 1 \/ (j - 1 \in DOMAIN Tail(s) /\ Tail(s)[j - 1] = s[j])
    BY HeadTailProperties
<1>4. \A j \in DOMAIN s : s[j] = Head(s) \/ \E i \in DOMAIN Tail(s) : Tail(s)[i] = s[j]
    BY <1>1, <1>3
<1>5. Range(s) \subseteq {Head(s)} \cup Range(Tail(s))
    BY <1>4, Zenon DEF Range
<1>6. {Head(s)} \cup Range(Tail(s)) \subseteq Range(s)
    BY <1>1, <1>2 DEF Range
<1> QED
    BY <1>1, <1>5, <1>6

LEMMA CopiesNat ==
  ASSUME NEW s \in Seq(Event), NEW e
  PROVE  Copies(s, e) \in Nat /\ IsFiniteSet({i \in DOMAIN s : s[i] = e})
<1>1. IsFiniteSet(1..Len(s))
    BY FS_Interval
<1>2. {i \in DOMAIN s : s[i] = e} \in SUBSET (1..Len(s))
    OBVIOUS
<1>3. IsFiniteSet({i \in DOMAIN s : s[i] = e})
    BY <1>1, <1>2, FS_Subset, Zenon
<1> QED
    BY <1>3, FS_CardinalityType DEF Copies

LEMMA CopiesAppend ==
  ASSUME NEW s \in Seq(Event), NEW x \in Event, NEW e
  PROVE  Copies(Append(s, x), e) = Copies(s, e) + (IF x = e THEN 1 ELSE 0)
<1> DEFINE at == {i \in DOMAIN s : s[i] = e}
           n == Len(s) + 1
<1>1. {i \in DOMAIN Append(s, x) : Append(s, x)[i] = e} = IF x = e THEN at \cup {n} ELSE at
    BY AppendProperties
<1>2. n \notin at
    OBVIOUS
<1>3. IsFiniteSet(at) /\ Cardinality(at) \in Nat
    BY CopiesNat DEF Copies
<1>4. Copies(s, e) = Cardinality(at)
    BY DEF Copies
<1>5. Copies(Append(s, x), e) = Cardinality(IF x = e THEN at \cup {n} ELSE at)
    BY <1>1, Zenon DEF Copies
<1> HIDE DEF at, n
<1>6. Cardinality(at \cup {n}) = Cardinality(at) + 1
    BY <1>2, <1>3, FS_AddElement
<1> QED
    BY <1>3, <1>4, <1>5, <1>6

LEMMA CopiesTail ==
  ASSUME NEW s \in Seq(Event), s # <<>>, NEW e
  PROVE  Copies(s, e) = Copies(Tail(s), e) + (IF Head(s) = e THEN 1 ELSE 0)
<1> DEFINE at == {i \in DOMAIN s : s[i] = e}
           T == {i \in DOMAIN Tail(s) : Tail(s)[i] = e}
           later == at \ {1}
           f == [i \in T |-> i + 1]
<1>1. f \in Bijection(T, later)
  <2>1. \A i \in T : i \in Nat /\ i + 1 \in later
      BY HeadTailProperties
  <2>2. \A j \in later : j - 1 \in T /\ j - 1 + 1 = j
      BY HeadTailProperties
  <2>3. f \in [T -> later]
      BY <2>1
  <2>4. \A a, b \in T : f[a] = f[b] => a = b
      BY <2>1
  <2>5. \A j \in later : \E i \in T : f[i] = j
      BY <2>2
  <2> QED
      BY <2>3, <2>4, <2>5 DEF Bijection, Injection, Surjection, IsInjective
<1>2. IsFiniteSet(T) /\ IsFiniteSet(at) /\ Cardinality(at) \in Nat /\ Cardinality(T) \in Nat
    BY CopiesNat, HeadTailProperties DEF Copies
<1>3. Cardinality(later) = Cardinality(T)
    BY <1>1, <1>2, FS_Bijection DEF ExistsBijection
<1>4. Cardinality(later) = IF 1 \in at THEN Cardinality(at) - 1 ELSE Cardinality(at)
    BY <1>2, FS_RemoveElement
<1>5. 1 \in at <=> Head(s) = e
    BY HeadTailProperties
<1>6. Copies(s, e) = Cardinality(at) /\ Copies(Tail(s), e) = Cardinality(T)
    BY DEF Copies
<1> HIDE DEF at, T, later
<1> QED
    BY <1>2, <1>3, <1>4, <1>5, <1>6

LEMMA CopiesAbsent ==
  ASSUME NEW s \in Seq(Event), NEW e, e \notin Range(s)
  PROVE  Copies(s, e) = 0
<1>1. {i \in DOMAIN s : s[i] = e} = {}
    BY DEF Range
<1> QED
    BY <1>1, FS_EmptySet DEF Copies

LEMMA CopiesDistinct ==
  ASSUME NEW s \in Seq(Event), NEW e \in Range(s), Distinct(s)
  PROVE  Copies(s, e) = 1
<1>1. PICK i \in DOMAIN s : s[i] = e
    BY DEF Range
<1>2. {j \in DOMAIN s : s[j] = e} = {i}
    BY <1>1 DEF Distinct
<1> QED
    BY <1>2, FS_Singleton DEF Copies

(* A row of the inbox gets the next number.                                *)
LEMMA Recorded ==
  ASSUME IntakeInv, NEW e \in Event, Record(e)
  PROVE  /\ archived' = archived \cup {e} /\ windowOf' = windowOf
         /\ seqOf[e] = 0 /\ windowOf[e] = None
         /\ lastSeq' \in Nat /\ lastSeq <= lastSeq' /\ seqOf' \in [Event -> Nat]
         /\ \A f \in Event \ {e} : seqOf'[f] = seqOf[f]
         /\ IF Accepts(e) THEN seqOf'[e] = lastSeq + 1 /\ lastSeq' = lastSeq + 1
                          ELSE seqOf' = seqOf /\ lastSeq' = lastSeq
<1>1. e \notin archived /\ archived' = archived \cup {e} /\ windowOf' = windowOf
    BY DEF Record
<1>2. lastSeq \in Nat /\ seqOf \in [Event -> Nat] /\ Numbered
    BY DEF IntakeInv, IntakeTyped, Rows
<1>3. seqOf[e] = 0 /\ windowOf[e] = None
    BY <1>1, <1>2 DEF Numbered
<1>4. CASE Accepts(e)
  <2>1. lastSeq' = lastSeq + 1 /\ seqOf' = [seqOf EXCEPT ![e] = lastSeq + 1]
      BY <1>4 DEF Record
  <2> QED
      BY <1>1, <1>2, <1>3, <1>4, <2>1
<1>5. CASE ~ Accepts(e)
  <2>1. lastSeq' = lastSeq /\ seqOf' = seqOf
      BY <1>5 DEF Record
  <2> QED
      BY <1>1, <1>2, <1>3, <1>5, <2>1
<1> QED
    BY <1>4, <1>5

(* An event joins the queue of its chat.                                   *)
LEMMA Queued ==
  ASSUME IntakeInv, NEW e \in Event, queue' = [queue EXCEPT ![ChatOf[e]] = Append(@, e)]
  PROVE  /\ queue' \in [Chat -> Seq(Event)]
         /\ \A c \in Chat : queue'[c] = IF c = ChatOf[e] THEN Append(queue[c], e) ELSE queue[c]
<1>1. ChatOf[e] \in Chat /\ queue \in [Chat -> Seq(Event)]
    BY IntakeConstants DEF IntakeInv, IntakeTyped
<1>2. \A s \in Seq(Event) : Append(s, e) \in Seq(Event)
    BY RangeAppend
<1> QED
    BY <1>1, <1>2

LEMMA HomeOf ==
  ASSUME IntakeTyped, Rows, NEW w \in Window, NEW e \in Contents(w)
  PROVE  WindowChat(w) = ChatOf[e] /\ ChatOf[e] \in Chat /\ Contents(w) \subseteq Of(ChatOf[e])
<1>1. \A f \in Contents(w) : ChatOf[f] = ChatOf[e] /\ f \in Event
    BY IntakeConstants DEF Rows, OneChat, Contents, IntakeTyped
<1>2. e \in Event /\ ChatOf[e] \in Chat
    BY IntakeConstants DEF Contents
<1>3. \E c \in Chat : \E f \in Contents(w) : ChatOf[f] = c
    BY <1>2
<1>4. \A c \in Chat : (\E f \in Contents(w) : ChatOf[f] = c) => c = ChatOf[e]
    BY <1>1
<1>5. WindowChat(w) = ChatOf[e]
    BY <1>3, <1>4 DEF WindowChat
<1> QED
    BY <1>1, <1>2, <1>5 DEF Of

LEMMA HomeOfTodo ==
  ASSUME IntakeInv, NEW w \in todo
  PROVE  /\ w \in Window /\ WindowChat(w) \in Chat
         /\ Contents(w) # {} /\ Contents(w) \subseteq Of(WindowChat(w))
<1>1. w \in Window /\ Contents(w) # {}
    BY DEF IntakeInv, IntakeTyped, Rows, Filled, Turns, StillToDo
<1>2. PICK e \in Contents(w) : TRUE
    BY <1>1
<1> QED
    BY <1>1, <1>2, HomeOf DEF IntakeInv

LEMMA BusyTurn ==
  ASSUME IntakeInv, NEW c \in Chat, turn[c].at # "idle"
  PROVE  /\ turn[c].window \in Window
         /\ Contents(turn[c].window) # {}
         /\ status[turn[c].window] # "absent"
         /\ mode \in {"replaying", "streaming"}
<1>1. turn[c].window \in Window /\ Contents(turn[c].window) # {}
    BY DEF IntakeInv, Turns, Engaged, EngagedWell
<1>2. mode \in {"replaying", "streaming"}
    BY DEF IntakeInv, IntakeTyped, Turns, AtRest, Idle
<1> QED
    BY <1>1, <1>2 DEF IntakeInv, Rows, Filled

(* The types are kept.                                                     *)
LEMMA TypedStep == IntakeInv /\ [IntakeNext]_intakeVars => IntakeTyped'
<1> SUFFICES ASSUME IntakeInv, [IntakeNext]_intakeVars PROVE IntakeTyped'
    OBVIOUS
<1>1. ASSUME NEW e \in Event, Deliver(e) PROVE IntakeTyped'
  <2>1. queue' \in [Chat -> Seq(Event)]
      BY <1>1, RangeAppend, IntakeConstants DEF Deliver, IntakeInv, IntakeTyped
  <2> QED
      BY <1>1, <2>1, Recorded DEF Deliver, stream, bounds, IntakeInv, IntakeTyped
<1>2. ASSUME NEW e \in Event, Redeliver(e) PROVE IntakeTyped'
  <2>1. queue' \in [Chat -> Seq(Event)]
    <3>1. CASE e \in overlap
        BY <1>2, <3>1 DEF Redeliver, IntakeInv, IntakeTyped
    <3>2. CASE e \notin overlap
        BY <1>2, <3>2, Queued DEF Redeliver
    <3> QED
        BY <3>1, <3>2
  <2>2. overlap' = overlap \ {e} \/ overlap' = overlap
      BY <1>2, Zenon DEF Redeliver
  <2> QED
      BY <1>2, <2>1, <2>2 DEF Redeliver, rows, IntakeInv, IntakeTyped
<1>3. ASSUME NEW e \in Event, SendMutation(e) PROVE IntakeTyped'
    BY <1>3, Recorded DEF SendMutation, stream, bounds, IntakeInv, IntakeTyped
<1>4. ASSUME NEW S \in SUBSET Chat, Reload(S) PROVE IntakeTyped'
    BY <1>4 DEF Reload, rows, stream, IntakeInv, IntakeTyped, TurnState
<1>5. CASE Start
    BY <1>5 DEF Start, rows, bounds, Pending, IntakeInv, IntakeTyped
<1>6. CASE StartFails
    BY <1>6 DEF StartFails, rows, IntakeInv, IntakeTyped, TurnState
<1>7. CASE Replayed
    BY <1>7 DEF Replayed, rows, bounds, IntakeInv, IntakeTyped, TurnState
<1>8. ASSUME NEW w \in Window, Replay(w) PROVE IntakeTyped'
    BY <1>8, HomeOfTodo DEF Replay, Turn, rows, bounds, IntakeInv, IntakeTyped, TurnState
<1>9. ASSUME NEW c \in Chat, NEW e \in Event, TakeBacklog(c, e) PROVE IntakeTyped'
    BY <1>9, RangeAppend DEF TakeBacklog, Gather, rows, bounds, IntakeInv, IntakeTyped, TurnState
<1>10. ASSUME NEW c \in Chat, TakeLive(c) PROVE IntakeTyped'
    BY <1>10, RangeTail, RangeAppend DEF TakeLive, Gather, rows, stream, bounds, IntakeInv,
       IntakeTyped, TurnState
<1>11. ASSUME NEW c \in Chat, NEW w \in Window, Cut(c, w) PROVE IntakeTyped'
    BY <1>11 DEF Cut, Assign, Fire, Turn, stream, bounds, IntakeInv, IntakeTyped, TurnState
<1>12. ASSUME NEW c \in Chat, NEW w \in Window, CutAgain(c, w) PROVE IntakeTyped'
    BY <1>12 DEF CutAgain, Fire, Turn, rows, stream, bounds, IntakeInv, IntakeTyped, TurnState
<1>13. ASSUME NEW c \in Chat, CutRefused(c) PROVE IntakeTyped'
    BY <1>13 DEF CutRefused, rows, stream, bounds, IntakeInv, IntakeTyped, TurnState
<1>14. ASSUME NEW c \in Chat, CutFails(c) PROVE IntakeTyped'
    BY <1>14 DEF CutFails, rows, stream, IntakeInv, IntakeTyped, TurnState
<1>15. ASSUME NEW c \in Chat, Admit(c) PROVE IntakeTyped'
  <2>1. turn[c].window \in Window
      BY <1>15, BusyTurn DEF Admit, At
  <2>2. [turn[c] EXCEPT !.at = "admitted"] \in TurnState
      BY DEF IntakeInv, IntakeTyped, TurnState
  <2> QED
      BY <1>15, <2>1, <2>2 DEF Admit, Step, ledgerRest, rows, stream, IntakeInv, IntakeTyped
<1>16. ASSUME NEW c \in Chat, DispatchThrows(c) PROVE IntakeTyped'
  <2>1. turn[c].window \in Window
      BY <1>16, BusyTurn DEF DispatchThrows, At
  <2>2. turn' \in [Chat -> TurnState]
      BY <1>16, <2>1 DEF DispatchThrows, Step, Turn, IntakeInv, IntakeTyped, TurnState
  <2>3. admitted' \in [Window -> Nat]
      BY <1>16, <2>1 DEF DispatchThrows, IntakeInv, IntakeTyped
  <2> QED
      BY <1>16, <2>2, <2>3 DEF DispatchThrows, ledgerRest, rows, stream, IntakeInv, IntakeTyped
<1>17. ASSUME NEW c \in Chat, MarkDone(c) PROVE IntakeTyped'
    BY <1>17, BusyTurn DEF MarkDone, Settle, At, Step, Idle, ledgerRest, rows, stream,
       IntakeInv, IntakeTyped, TurnState
<1>18. ASSUME NEW c \in Chat, MarkFailed(c) PROVE IntakeTyped'
    BY <1>18, BusyTurn DEF MarkFailed, Settle, At, Step, Idle, ledgerRest, rows, stream,
       IntakeInv, IntakeTyped, TurnState
<1>19. ASSUME NEW c \in Chat, LedgerFails(c) PROVE IntakeTyped'
    BY <1>19, BusyTurn DEF LedgerFails, At, Step, Idle, ledgerRest, rows, stream, IntakeInv,
       IntakeTyped, TurnState
<1>20. CASE Crash
    BY <1>20 DEF Crash, Idle, rows, IntakeInv, IntakeTyped, TurnState
<1>21. CASE UNCHANGED intakeVars
    BY <1>21 DEF intakeVars, rows, stream, bounds, IntakeInv, IntakeTyped, TurnState
<1> QED
    BY <1>1, <1>2, <1>3, <1>4, <1>5, <1>6, <1>7, <1>8, <1>9, <1>10, <1>11, <1>12, <1>13,
       <1>14, <1>15, <1>16, <1>17, <1>18, <1>19, <1>20, <1>21 DEF IntakeNext, ActorStep,
       RelayStep

(* What a Cut does to the Windows.                                         *)
LEMMA CutWindows ==
  ASSUME IntakeInv, NEW c \in Chat, NEW w \in Window, Cut(c, w)
  PROVE  /\ Range(buffer[c]) # {} /\ Range(buffer[c]) \subseteq Pending \cap Of(c)
         /\ Contents(w) = {} /\ Contents(w)' = Range(buffer[c])
         /\ \A v \in Window \ {w} : Contents(v)' = Contents(v)
         /\ Pending' = Pending \ Range(buffer[c])
         /\ \A e \in Event : windowOf'[e] = IF e \in Range(buffer[c]) THEN w ELSE windowOf[e]
         /\ w \notin todo /\ admitted[w] = 0 /\ mode = "streaming" /\ turn[c] = Idle
<1> DEFINE S == Range(buffer[c])
<1>1. S \subseteq Pending \cap Of(c)
    BY DEF IntakeInv, Placed, InBuffers, Inboxed, Cut, Creates, Oldest
<1>2. S # {}
  <2>1. buffer[c] \in Seq(Event) /\ buffer[c] # <<>>
      BY DEF IntakeInv, IntakeTyped, Cut
  <2> QED
      BY <2>1, RangeTail
<1>3. \A e \in Event : windowOf'[e] = IF e \in S THEN w ELSE windowOf[e]
    BY DEF Cut, Assign
<1>4. \A e \in S : windowOf[e] = None
    BY <1>1 DEF Pending
<1>5. seqOf' = seqOf
    BY DEF Cut
<1>6. Contents(w) = {} /\ admitted[w] = 0 /\ w \notin todo /\ status[w] = "absent"
    BY DEF IntakeInv, Cut, Rows, Filled, InTurn, Turns, StillToDo
<1>7. mode = "streaming" /\ turn[c] = Idle
    BY DEF Cut, Running
<1> HIDE DEF S
<1>8. w # None /\ \A v \in Window : v # None
    BY IntakeConstants
<1>9. Contents(w)' = S
    BY <1>1, <1>3, <1>6 DEF Contents, Pending
<1>10. \A v \in Window \ {w} : Contents(v)' = Contents(v)
    BY <1>3, <1>4, <1>8 DEF Contents
<1>11. Pending' = Pending \ S
    BY <1>3, <1>5, <1>8 DEF Pending
<1> QED
    BY <1>1, <1>2, <1>3, <1>6, <1>7, <1>9, <1>10, <1>11 DEF S

LEMMA RowsKept == ASSUME IntakeInv, UNCHANGED <<rows, status, admitted>> PROVE Rows'
BY DEF IntakeInv, Rows, Numbered, NoTies, OneChat, Filled, InTurn, rows, Contents

LEMMA RowsRecorded ==
  ASSUME IntakeInv, NEW e \in Event, Record(e), UNCHANGED <<status, admitted>>
  PROVE  Rows'
<1>1. /\ archived' = archived \cup {e} /\ windowOf' = windowOf
      /\ seqOf[e] = 0 /\ windowOf[e] = None /\ lastSeq <= lastSeq'
      /\ \A f \in Event \ {e} : seqOf'[f] = seqOf[f]
      /\ (seqOf'[e] = lastSeq + 1 /\ lastSeq' = lastSeq + 1) \/ (seqOf' = seqOf /\ lastSeq' = lastSeq)
    BY Recorded
<1>2. lastSeq \in Nat /\ seqOf \in [Event -> Nat]
    BY DEF IntakeInv, IntakeTyped
<1>3. Numbered /\ NoTies
    BY DEF IntakeInv, Rows
<1>4. Numbered'
    BY <1>1, <1>2, <1>3 DEF Numbered
<1>5. NoTies'
  <2>1. CASE seqOf' = seqOf
      BY <1>3, <2>1 DEF NoTies
  <2>2. CASE seqOf'[e] = lastSeq + 1
    <3>1. \A f \in Event \ {e} : seqOf'[f] # seqOf'[e]
        BY <1>1, <1>2, <1>3, <2>2 DEF Numbered
    <3> QED
        BY <1>1, <1>3, <3>1 DEF NoTies
  <2> QED
      BY <1>1, <2>1, <2>2
<1>6. OneChat' /\ Filled' /\ InTurn'
    BY <1>1 DEF IntakeInv, Rows, OneChat, Filled, InTurn, Contents
<1> QED
    BY <1>4, <1>5, <1>6 DEF Rows

LEMMA RowsMarked ==
  ASSUME IntakeInv, NEW w \in Window, status[w] # "absent", UNCHANGED rows,
         \A v \in Window : v # w => admitted'[v] = admitted[v],
         \A v \in Window : (status'[v] = "absent") <=> (status[v] = "absent")
  PROVE  Rows'
BY DEF IntakeInv, Rows, Numbered, NoTies, OneChat, Filled, InTurn, rows, Contents

(* The rows are kept.                                                      *)
LEMMA RowsStep == IntakeInv /\ [IntakeNext]_intakeVars => Rows'
<1> SUFFICES ASSUME IntakeInv, [IntakeNext]_intakeVars PROVE Rows'
    OBVIOUS
<1>1. ASSUME NEW e \in Event, Deliver(e) PROVE Rows'
    BY <1>1, RowsRecorded DEF Deliver
<1>2. ASSUME NEW e \in Event, Redeliver(e) PROVE Rows'
    BY <1>2, RowsKept DEF Redeliver
<1>3. ASSUME NEW e \in Event, SendMutation(e) PROVE Rows'
    BY <1>3, RowsRecorded DEF SendMutation
<1>4. ASSUME NEW S \in SUBSET Chat, Reload(S) PROVE Rows'
    BY <1>4, RowsKept DEF Reload
<1>5. CASE Start
    BY <1>5, RowsKept DEF Start
<1>6. CASE StartFails
    BY <1>6, RowsKept DEF StartFails
<1>7. CASE Replayed
    BY <1>7, RowsKept DEF Replayed
<1>8. ASSUME NEW w \in Window, Replay(w) PROVE Rows'
    BY <1>8, RowsKept DEF Replay
<1>9. ASSUME NEW c \in Chat, NEW e \in Event, TakeBacklog(c, e) PROVE Rows'
    BY <1>9, RowsKept DEF TakeBacklog
<1>10. ASSUME NEW c \in Chat, TakeLive(c) PROVE Rows'
    BY <1>10, RowsKept DEF TakeLive
<1>11. ASSUME NEW c \in Chat, NEW w \in Window, Cut(c, w) PROVE Rows'
  <2>1. Numbered' /\ NoTies'
      BY <1>11, CutWindows DEF Cut, IntakeInv, Rows, Numbered, NoTies, Pending
  <2>2. OneChat'
      BY <1>11, CutWindows, IntakeConstants DEF IntakeInv, Rows, OneChat, Of, Contents
  <2>3. status' = [status EXCEPT ![w] = "pending"] /\ UNCHANGED admitted
      BY <1>11 DEF Cut
  <2>4. status[w] = "absent" /\ \A v \in Window : v < w => status[v] # "absent"
      BY <1>11 DEF Cut
  <2>5. status \in [Window -> {"absent", "pending", "done", "failed"}]
      BY DEF IntakeInv, IntakeTyped
  <2>6. Filled'
      BY <1>11, <2>3, <2>5, CutWindows DEF IntakeInv, Rows, Filled
  <2>7. InTurn'
      BY <2>3, <2>4, <2>5 DEF IntakeInv, Rows, InTurn
  <2> QED
      BY <2>1, <2>2, <2>6, <2>7 DEF Rows
<1>12. ASSUME NEW c \in Chat, NEW w \in Window, CutAgain(c, w) PROVE Rows'
    BY <1>12, RowsKept DEF CutAgain
<1>13. ASSUME NEW c \in Chat, CutRefused(c) PROVE Rows'
    BY <1>13, RowsKept DEF CutRefused
<1>14. ASSUME NEW c \in Chat, CutFails(c) PROVE Rows'
    BY <1>14, RowsKept DEF CutFails
<1>15. ASSUME NEW c \in Chat, Admit(c) PROVE Rows'
  <2>1. turn[c].window \in Window /\ status[turn[c].window] # "absent"
      BY <1>15, BusyTurn DEF Admit, At
  <2> QED
      BY <1>15, <2>1, RowsMarked DEF Admit, At, ledgerRest, IntakeInv, IntakeTyped
<1>16. ASSUME NEW c \in Chat, DispatchThrows(c) PROVE Rows'
  <2>1. turn[c].window \in Window /\ status[turn[c].window] # "absent"
      BY <1>16, BusyTurn DEF DispatchThrows, At
  <2> QED
      BY <1>16, <2>1, RowsMarked DEF DispatchThrows, At, ledgerRest, IntakeInv, IntakeTyped
<1>17. ASSUME NEW c \in Chat, MarkDone(c) PROVE Rows'
  <2>1. turn[c].window \in Window /\ status[turn[c].window] # "absent"
      BY <1>17, BusyTurn DEF MarkDone, At, Settle
  <2> QED
      BY <1>17, <2>1, RowsMarked DEF MarkDone, At, Settle, ledgerRest, IntakeInv, IntakeTyped
<1>18. ASSUME NEW c \in Chat, MarkFailed(c) PROVE Rows'
  <2>1. turn[c].window \in Window /\ status[turn[c].window] # "absent"
      BY <1>18, BusyTurn DEF MarkFailed, At, Settle
  <2> QED
      BY <1>18, <2>1, RowsMarked DEF MarkFailed, At, Settle, ledgerRest, IntakeInv, IntakeTyped
<1>19. ASSUME NEW c \in Chat, LedgerFails(c) PROVE Rows'
    BY <1>19, RowsKept DEF LedgerFails, ledgerRest
<1>20. CASE Crash
    BY <1>20, RowsKept DEF Crash
<1>21. CASE UNCHANGED intakeVars
    BY <1>21, RowsKept DEF intakeVars
<1> QED
    BY <1>1, <1>2, <1>3, <1>4, <1>5, <1>6, <1>7, <1>8, <1>9, <1>10, <1>11, <1>12, <1>13,
       <1>14, <1>15, <1>16, <1>17, <1>18, <1>19, <1>20, <1>21 DEF IntakeNext, ActorStep,
       RelayStep

LEMMA EmptyRange == Range(<<>>) = {}
BY DEF Range

LEMMA PlacedKept ==
  ASSUME IntakeInv, UNCHANGED <<seqOf, windowOf, backlog, queue, buffer, mode, halted>>
  PROVE  Placed'
BY DEF IntakeInv, Placed, InQueues, InBuffers, Inboxed, Quiet, Pending

(* A new row leaves everything where it is.                                *)
LEMMA InboxGrows ==
  ASSUME IntakeInv, NEW e \in Event, Record(e)
  PROVE  /\ Pending \subseteq Pending' /\ Pending' \subseteq Pending \cup {e}
         /\ \A c \in Chat : Inboxed(c) \subseteq Inboxed(c)' /\ Inboxed(c)' \subseteq Inboxed(c) \cup {e}
         /\ Accepts(e) => e \in Pending' /\ e \in Inboxed(ChatOf[e])'
         /\ e \notin Pending /\ \A c \in Chat : e \notin Inboxed(c)
<1>1. lastSeq \in Nat /\ seqOf \in [Event -> Nat]
    BY DEF IntakeInv, IntakeTyped
<1> QED
    BY <1>1, Recorded DEF Pending, Inboxed, Of

(* What is on its way stays where it may be.                               *)
LEMMA PlacedStep == IntakeInv /\ [IntakeNext]_intakeVars => Placed'
<1> SUFFICES ASSUME IntakeInv, [IntakeNext]_intakeVars PROVE Placed'
    OBVIOUS
<1>1. ASSUME NEW e \in Event, Deliver(e) PROVE Placed'
  <2>1. backlog' \subseteq Pending' /\ InBuffers'
      BY <1>1, InboxGrows DEF Deliver, stream, IntakeInv, Placed, InBuffers
  <2>2. InQueues'
    <3>1. CASE queue' = queue
        BY <1>1, <3>1, InboxGrows DEF Deliver, IntakeInv, Placed, InQueues
    <3>2. CASE Accepts(e) /\ queue' = [queue EXCEPT ![ChatOf[e]] = Append(@, e)]
      <4>1. \A c \in Chat : Range(queue'[c]) \subseteq Range(queue[c]) \cup (IF c = ChatOf[e] THEN {e} ELSE {})
          BY <3>2, Queued, RangeAppend DEF IntakeInv, IntakeTyped
      <4> QED
          BY <1>1, <3>2, <4>1, InboxGrows DEF Deliver, IntakeInv, Placed, InQueues
    <3> QED
        BY <1>1, <3>1, <3>2 DEF Deliver
  <2>3. Quiet'
      BY <1>1 DEF Deliver, stream, Listening, IntakeInv, Placed, Quiet
  <2> QED
      BY <2>1, <2>2, <2>3 DEF Placed
<1>2. ASSUME NEW e \in Event, Redeliver(e) PROVE Placed'
  <2>1. UNCHANGED <<seqOf, windowOf, backlog, buffer, mode, halted>> /\ mode # "booting"
      BY <1>2 DEF Redeliver, rows, Listening
  <2>2. backlog' \subseteq Pending' /\ InBuffers' /\ Quiet'
      BY <2>1 DEF IntakeInv, Placed, InBuffers, Inboxed, Quiet, Pending
  <2>3. InQueues'
    <3>1. CASE queue' = queue
        BY <2>1, <3>1 DEF IntakeInv, Placed, InQueues, Inboxed
    <3>2. CASE queue' = [queue EXCEPT ![ChatOf[e]] = Append(@, e)]
      <4>1. \A c \in Chat : Range(queue'[c]) \subseteq Range(queue[c]) \cup (IF c = ChatOf[e] THEN {e} ELSE {})
          BY <3>2, Queued, RangeAppend DEF IntakeInv, IntakeTyped
      <4>2. e \in Inboxed(ChatOf[e])
          BY <1>2 DEF Redeliver, Pending, Inboxed, Of
      <4> QED
          BY <2>1, <4>1, <4>2 DEF IntakeInv, Placed, InQueues, Inboxed
    <3> QED
        BY <1>2, <3>1, <3>2 DEF Redeliver
  <2> QED
      BY <2>2, <2>3 DEF Placed
<1>3. ASSUME NEW e \in Event, SendMutation(e) PROVE Placed'
  <2>1. Record(e) /\ UNCHANGED <<backlog, queue, buffer, mode, halted>>
      BY <1>3 DEF SendMutation, stream
  <2>2. backlog' \subseteq Pending' /\ InBuffers' /\ InQueues'
      BY <2>1, InboxGrows DEF IntakeInv, Placed, InBuffers, InQueues
  <2>3. Quiet'
      BY <2>1 DEF IntakeInv, Placed, Quiet
  <2> QED
      BY <2>2, <2>3 DEF Placed
<1>4. ASSUME NEW S \in SUBSET Chat, Reload(S) PROVE Placed'
    BY <1>4, PlacedKept DEF Reload, rows, stream
<1>5. CASE Start
  <2>1. \A c \in Chat : queue'[c] = <<>> /\ buffer'[c] = <<>>
      BY <1>5 DEF Start, IntakeInv, Placed, Quiet
  <2>2. backlog' \subseteq Pending' /\ Quiet'
      BY <1>5, <2>1 DEF Start, rows, Pending, IntakeInv, Placed, Quiet
  <2> QED
      BY <2>1, <2>2, EmptyRange DEF Placed, InQueues, InBuffers
<1>6. CASE StartFails
  <2>1. \A c \in Chat : queue'[c] = <<>> /\ buffer'[c] = <<>>
      BY <1>6 DEF StartFails, IntakeInv, Placed, Quiet
  <2>2. backlog' \subseteq Pending' /\ Quiet'
      BY <1>6, <2>1 DEF StartFails, rows, Pending, IntakeInv, Placed, Quiet
  <2> QED
      BY <2>1, <2>2, EmptyRange DEF Placed, InQueues, InBuffers
<1>7. CASE Replayed
  <2>1. UNCHANGED <<seqOf, windowOf, backlog, queue, buffer, halted>> /\ mode' = "streaming"
      BY <1>7 DEF Replayed, rows
  <2> QED
      BY <2>1 DEF IntakeInv, Placed, InQueues, InBuffers, Inboxed, Quiet, Pending
<1>8. ASSUME NEW w \in Window, Replay(w) PROVE Placed'
    BY <1>8, PlacedKept DEF Replay, rows
<1>9. ASSUME NEW c \in Chat, NEW e \in Event, TakeBacklog(c, e) PROVE Placed'
  <2>1. UNCHANGED <<seqOf, windowOf, queue, mode>> /\ mode = "streaming" /\ backlog' = backlog \ {e}
      BY <1>9 DEF TakeBacklog, Running, rows
  <2>2. \A d \in Chat : Range(buffer'[d]) = Range(buffer[d]) \cup (IF d = c THEN {e} ELSE {})
      BY <1>9, RangeAppend DEF TakeBacklog, Gather, IntakeInv, IntakeTyped
  <2>3. e \in Inboxed(c)
      BY <1>9 DEF TakeBacklog, IntakeInv, Placed, Pending, Inboxed, Of
  <2>4. InBuffers'
      BY <2>1, <2>2, <2>3 DEF IntakeInv, Placed, InBuffers, Inboxed
  <2> QED
      BY <2>1, <2>4 DEF IntakeInv, Placed, InQueues, Inboxed, Quiet, Pending
<1>10. ASSUME NEW c \in Chat, TakeLive(c) PROVE Placed'
  <2>1. /\ UNCHANGED <<seqOf, windowOf, backlog, mode, halted>> /\ mode = "streaming"
        /\ queue[c] # <<>> /\ backlog \cap Of(c) = {}
      BY <1>10 DEF TakeLive, Running, rows, stream
  <2>2. queue[c] \in Seq(Event) /\ buffer[c] \in Seq(Event)
      BY DEF IntakeInv, IntakeTyped
  <2>3. Range(queue[c]) = {Head(queue[c])} \cup Range(Tail(queue[c])) /\ Head(queue[c]) \in Event
      BY <2>1, <2>2, RangeTail
  <2>4. Range(Append(buffer[c], Head(queue[c]))) = Range(buffer[c]) \cup {Head(queue[c])}
      BY <2>2, <2>3, RangeAppend
  <2>5. \A d \in Chat : Range(buffer'[d]) = Range(buffer[d]) \cup (IF d = c THEN {Head(queue[c])} ELSE {})
      BY <1>10, <2>4 DEF TakeLive, Gather, IntakeInv, IntakeTyped
  <2>6. \A d \in Chat : Range(queue'[d]) \subseteq Range(queue[d])
      BY <1>10, <2>3 DEF TakeLive, IntakeInv, IntakeTyped
  <2>7. Head(queue[c]) \in Inboxed(c) \ backlog
      BY <2>1, <2>3 DEF IntakeInv, Placed, InQueues, Inboxed
  <2>8. InBuffers'
      BY <2>1, <2>5, <2>7 DEF IntakeInv, Placed, InBuffers, Inboxed
  <2>9. InQueues'
      BY <2>1, <2>6 DEF IntakeInv, Placed, InQueues, Inboxed
  <2> QED
      BY <2>1, <2>8, <2>9 DEF IntakeInv, Placed, Quiet, Pending
<1>11. ASSUME NEW c \in Chat, NEW w \in Window, Cut(c, w) PROVE Placed'
  <2>1. UNCHANGED <<seqOf, queue, halted, backlog, mode>> /\ mode = "streaming"
      BY <1>11 DEF Cut, Running, stream
  <2>2. Range(buffer[c]) \cap backlog = {} /\ Pending' = Pending \ Range(buffer[c])
      BY <1>11, CutWindows DEF IntakeInv, Placed, InBuffers
  <2>3. \A d \in Chat : Range(buffer'[d]) \subseteq Range(buffer[d])
      BY <1>11, EmptyRange DEF Cut, Fire, IntakeInv, IntakeTyped
  <2> QED
      BY <2>1, <2>2, <2>3 DEF IntakeInv, Placed, InQueues, InBuffers, Inboxed, Quiet
<1>12. ASSUME NEW c \in Chat, NEW w \in Window, CutAgain(c, w) PROVE Placed'
  <2>1. UNCHANGED <<seqOf, windowOf, queue, halted, backlog, mode>> /\ mode = "streaming"
      BY <1>12 DEF CutAgain, Running, rows, stream
  <2>2. \A d \in Chat : Range(buffer'[d]) \subseteq Range(buffer[d])
      BY <1>12, EmptyRange DEF CutAgain, Fire, IntakeInv, IntakeTyped
  <2> QED
      BY <2>1, <2>2 DEF IntakeInv, Placed, InQueues, InBuffers, Inboxed, Quiet, Pending
<1>13. ASSUME NEW c \in Chat, CutRefused(c) PROVE Placed'
  <2>1. UNCHANGED <<seqOf, windowOf, backlog, queue, buffer, mode>> /\ mode = "streaming"
      BY <1>13 DEF CutRefused, Running, rows, stream
  <2> QED
      BY <2>1 DEF IntakeInv, Placed, InQueues, InBuffers, Inboxed, Quiet, Pending
<1>14. ASSUME NEW c \in Chat, CutFails(c) PROVE Placed'
  <2>1. UNCHANGED <<seqOf, windowOf, backlog, queue, buffer, mode>> /\ mode = "streaming"
      BY <1>14 DEF CutFails, Running, rows, stream
  <2> QED
      BY <2>1 DEF IntakeInv, Placed, InQueues, InBuffers, Inboxed, Quiet, Pending
<1>15. ASSUME NEW c \in Chat, Admit(c) PROVE Placed'
    BY <1>15, PlacedKept DEF Admit, ledgerRest, rows, stream
<1>16. ASSUME NEW c \in Chat, DispatchThrows(c) PROVE Placed'
    BY <1>16, PlacedKept DEF DispatchThrows, ledgerRest, rows, stream
<1>17. ASSUME NEW c \in Chat, MarkDone(c) PROVE Placed'
    BY <1>17, PlacedKept DEF MarkDone, Settle, ledgerRest, rows, stream
<1>18. ASSUME NEW c \in Chat, MarkFailed(c) PROVE Placed'
    BY <1>18, PlacedKept DEF MarkFailed, Settle, ledgerRest, rows, stream
<1>19. ASSUME NEW c \in Chat, LedgerFails(c) PROVE Placed'
    BY <1>19, PlacedKept DEF LedgerFails, ledgerRest, rows, stream
<1>20. CASE Crash
  <2>1. \A c \in Chat : queue'[c] = <<>> /\ buffer'[c] = <<>>
      BY <1>20 DEF Crash
  <2> QED
      BY <1>20, <2>1, EmptyRange DEF Crash, Placed, InQueues, InBuffers, Quiet
<1>21. CASE UNCHANGED intakeVars
    BY <1>21, PlacedKept DEF intakeVars, rows, stream
<1> QED
    BY <1>1, <1>2, <1>3, <1>4, <1>5, <1>6, <1>7, <1>8, <1>9, <1>10, <1>11, <1>12, <1>13,
       <1>14, <1>15, <1>16, <1>17, <1>18, <1>19, <1>20, <1>21 DEF IntakeNext, ActorStep,
       RelayStep

LEMMA TurnsKept ==
  ASSUME IntakeInv, UNCHANGED <<windowOf, status, mode, turn, todo, admitted>>
  PROVE  Turns'
BY DEF IntakeInv, Turns, Engaged, EngagedWell, AtRest, StillToDo, Contents

(* The turn of one chat goes on or ends.                                   *)
LEMMA TurnMoves ==
  ASSUME IntakeInv, IntakeTyped', NEW c \in Chat, NEW t \in TurnState,
         turn' = [turn EXCEPT ![c] = t], UNCHANGED <<windowOf, mode, todo>>,
         mode \in {"replaying", "streaming"},
         \A v \in Window : admitted'[v] >= admitted[v],
         \A v \in Window : status[v] # "absent" => status'[v] # "absent",
         IF t.at = "idle" THEN t = Idle
         ELSE /\ t.window \in Window /\ Contents(t.window) # {} /\ Contents(t.window) \subseteq Of(c)
              /\ t.at = "admitted" => admitted'[t.window] > 0
  PROVE  Turns'
<1>1. /\ turn \in [Chat -> TurnState] /\ todo \subseteq Window
      /\ admitted \in [Window -> Nat] /\ admitted' \in [Window -> Nat]
    BY DEF IntakeInv, IntakeTyped
<1>2. \A v \in Window : Contents(v)' = Contents(v)
    BY DEF Contents
<1>3. Engaged'
  <2> SUFFICES ASSUME NEW d \in Chat PROVE EngagedWell(d)'
      BY DEF Engaged
  <2>1. CASE d = c
      BY <1>1, <1>2, <2>1 DEF EngagedWell
  <2>2. CASE d # c
      BY <1>1, <1>2, <2>2 DEF IntakeInv, Turns, Engaged, EngagedWell
  <2> QED
      BY <2>1, <2>2
<1>4. AtRest'
    BY DEF AtRest
<1>5. StillToDo'
    BY <1>1 DEF IntakeInv, Turns, StillToDo
<1> QED
    BY <1>3, <1>4, <1>5 DEF Turns

(* The turns are kept.                                                     *)
LEMMA TurnsStep == IntakeInv /\ [IntakeNext]_intakeVars => Turns'
<1> SUFFICES ASSUME IntakeInv, [IntakeNext]_intakeVars PROVE Turns'
    OBVIOUS
<1>0. IntakeTyped'
    BY TypedStep
<1>1. ASSUME NEW e \in Event, Deliver(e) PROVE Turns'
    BY <1>1, TurnsKept, Recorded DEF Deliver, stream
<1>2. ASSUME NEW e \in Event, Redeliver(e) PROVE Turns'
    BY <1>2, TurnsKept DEF Redeliver, rows, stream
<1>3. ASSUME NEW e \in Event, SendMutation(e) PROVE Turns'
    BY <1>3, TurnsKept, Recorded DEF SendMutation, stream
<1>4. ASSUME NEW S \in SUBSET Chat, Reload(S) PROVE Turns'
    BY <1>4, TurnsKept DEF Reload, rows, stream
<1>5. CASE Start
    BY <1>5 DEF Start, rows, IntakeInv, IntakeTyped, Turns, Engaged, EngagedWell, AtRest,
       StillToDo, Contents
<1>6. CASE StartFails
    BY <1>6 DEF StartFails, rows, IntakeInv, Turns, Engaged, EngagedWell, AtRest, StillToDo,
       Contents
<1>7. CASE Replayed
    BY <1>7 DEF Replayed, rows, IntakeInv, Turns, Engaged, EngagedWell, AtRest, StillToDo,
       Contents
<1>8. ASSUME NEW w \in Window, Replay(w) PROVE Turns'
  <2> DEFINE d == WindowChat(w)
            t == Turn(w, 0, "dispatching")
  <2>1. d \in Chat /\ Contents(w) # {} /\ Contents(w) \subseteq Of(d) /\ mode = "replaying"
      BY <1>8, HomeOfTodo DEF Replay
  <2>2. /\ turn' = [turn EXCEPT ![d] = t] /\ todo' = todo \ {w}
        /\ UNCHANGED <<windowOf, mode, status, admitted>>
      BY <1>8 DEF Replay, rows
  <2>3. t.at = "dispatching" /\ t.window = w
      BY DEF Turn
  <2> HIDE DEF d, t
  <2>4. Engaged'
    <3> SUFFICES ASSUME NEW x \in Chat PROVE EngagedWell(x)'
        BY DEF Engaged
    <3>1. \A v : Contents(v)' = Contents(v)
        BY <2>2 DEF Contents
    <3>2. CASE x = d
        BY <2>1, <2>2, <2>3, <3>1, <3>2 DEF IntakeInv, IntakeTyped, EngagedWell
    <3>3. CASE x # d
        BY <2>1, <2>2, <3>1, <3>3 DEF IntakeInv, IntakeTyped, Turns, Engaged, EngagedWell
    <3> QED
        BY <3>2, <3>3
  <2> QED
      BY <2>1, <2>2, <2>4 DEF IntakeInv, Turns, AtRest, StillToDo
<1>9. ASSUME NEW c \in Chat, NEW e \in Event, TakeBacklog(c, e) PROVE Turns'
    BY <1>9, TurnsKept DEF TakeBacklog, rows, stream
<1>10. ASSUME NEW c \in Chat, TakeLive(c) PROVE Turns'
    BY <1>10, TurnsKept DEF TakeLive, rows, stream
<1>11. ASSUME NEW c \in Chat, NEW w \in Window, Cut(c, w) PROVE Turns'
  <2>1. /\ status' = [status EXCEPT ![w] = "pending"] /\ turn' = [turn EXCEPT ![c] = Turn(w, 0, "dispatching")]
        /\ UNCHANGED <<mode, todo, admitted>> /\ mode = "streaming"
      BY <1>11 DEF Cut, Fire, Running, stream
  <2>2. Turn(w, 0, "dispatching").at = "dispatching" /\ Turn(w, 0, "dispatching").window = w
      BY DEF Turn
  <2>3. Engaged'
    <3> SUFFICES ASSUME NEW x \in Chat PROVE EngagedWell(x)'
        BY DEF Engaged
    <3>1. /\ Range(buffer[c]) # {} /\ Range(buffer[c]) \subseteq Of(c)
          /\ Contents(w) = {} /\ Contents(w)' = Range(buffer[c])
          /\ \A v \in Window : v # w => Contents(v)' = Contents(v)
        BY <1>11, CutWindows
    <3>2. turn \in [Chat -> TurnState]
        BY DEF IntakeInv, IntakeTyped
    <3>3. CASE x = c
        BY <2>1, <2>2, <3>1, <3>2, <3>3 DEF EngagedWell
    <3>4. CASE x # c
      <4>1. turn'[x] = turn[x] /\ EngagedWell(x)
          BY <2>1, <3>2, <3>4 DEF IntakeInv, Turns, Engaged
      <4> QED
          BY <2>1, <3>1, <4>1 DEF EngagedWell
    <3> QED
        BY <3>3, <3>4
  <2> QED
      BY <2>1, <2>3 DEF IntakeInv, IntakeTyped, Turns, AtRest, StillToDo
<1>12. ASSUME NEW c \in Chat, NEW w \in Window, CutAgain(c, w) PROVE Turns'
  <2> DEFINE t == Turn(w, 0, "dispatching")
  <2>1. /\ turn' = [turn EXCEPT ![c] = t] /\ mode = "streaming"
        /\ UNCHANGED <<windowOf, mode, todo, admitted, status>>
        /\ buffer[c] # <<>> /\ Range(buffer[c]) = Contents(w)
      BY <1>12 DEF CutAgain, ReadsAgain, Fire, Running, rows, stream
  <2>2. Contents(w) # {} /\ Contents(w) \subseteq Of(c)
    <3>1. buffer[c] \in Seq(Event) /\ Range(buffer[c]) \subseteq Inboxed(c)
        BY DEF IntakeInv, IntakeTyped, Placed, InBuffers
    <3>2. Range(buffer[c]) # {}
        BY <2>1, <3>1, RangeTail
    <3> QED
        BY <2>1, <3>1, <3>2 DEF Inboxed
  <2>3. t \in TurnState /\ t.at = "dispatching" /\ t.window = w
      BY DEF Turn, TurnState
  <2> HIDE DEF t
  <2>4. \A v \in Window : admitted[v] >= admitted[v]
      BY DEF IntakeInv, IntakeTyped
  <2> QED
      BY <2>1, <2>2, <2>3, <2>4, <1>0, TurnMoves
<1>13. ASSUME NEW c \in Chat, CutRefused(c) PROVE Turns'
    BY <1>13, TurnsKept DEF CutRefused, rows, stream
<1>14. ASSUME NEW c \in Chat, CutFails(c) PROVE Turns'
    BY <1>14, TurnsKept DEF CutFails, rows, stream
<1>15. ASSUME NEW c \in Chat, Admit(c) PROVE Turns'
  <2> DEFINE t == [turn[c] EXCEPT !.at = "admitted"]
  <2>1. /\ turn' = [turn EXCEPT ![c] = t] /\ UNCHANGED <<windowOf, mode, todo, status>>
        /\ admitted' = [admitted EXCEPT ![turn[c].window] = @ + 1] /\ turn[c].at = "dispatching"
      BY <1>15 DEF Admit, At, Step, ledgerRest, rows, stream
  <2>2. /\ turn[c].window \in Window /\ mode \in {"replaying", "streaming"}
        /\ Contents(turn[c].window) # {} /\ Contents(turn[c].window) \subseteq Of(c)
      BY <2>1, BusyTurn DEF IntakeInv, Turns, Engaged, EngagedWell
  <2>3. t \in TurnState /\ t.at = "admitted" /\ t.window = turn[c].window
      BY DEF IntakeInv, IntakeTyped, TurnState
  <2>4. admitted \in [Window -> Nat]
      BY DEF IntakeInv, IntakeTyped
  <2> HIDE DEF t
  <2>5. \A v \in Window : admitted'[v] >= admitted[v]
      BY <2>1, <2>2, <2>4
  <2>6. IF t.at = "idle" THEN t = Idle
        ELSE /\ t.window \in Window /\ Contents(t.window) # {} /\ Contents(t.window) \subseteq Of(c)
             /\ t.at = "admitted" => admitted'[t.window] > 0
      BY <2>1, <2>2, <2>3, <2>4
  <2> QED
      BY <2>1, <2>2, <2>3, <2>5, <2>6, <1>0, TurnMoves
<1>16. ASSUME NEW c \in Chat, DispatchThrows(c) PROVE Turns'
  <2>1. PICK t \in TurnState : /\ turn' = [turn EXCEPT ![c] = t]
                               /\ t.at \in {"failing", "dispatching"} /\ t.window = turn[c].window
    <3> DEFINE t == Turn(turn[c].window, turn[c].tries + 1,
                         IF turn[c].tries + 1 >= Attempts THEN "failing" ELSE "dispatching")
    <3>1. t \in TurnState /\ t.at \in {"failing", "dispatching"} /\ t.window = turn[c].window
        BY DEF Turn, IntakeInv, IntakeTyped, TurnState
    <3>2. turn' = [turn EXCEPT ![c] = t]
        BY <1>16 DEF DispatchThrows, Step
    <3> HIDE DEF t
    <3> QED
        BY <3>1, <3>2
  <2>2. /\ UNCHANGED <<windowOf, mode, todo, status>> /\ turn[c].at = "dispatching"
        /\ \E n \in {0, 1} : admitted' = [admitted EXCEPT ![turn[c].window] = @ + n]
      BY <1>16 DEF DispatchThrows, At, ledgerRest, rows, stream
  <2>3. /\ turn[c].window \in Window /\ mode \in {"replaying", "streaming"}
        /\ Contents(turn[c].window) # {} /\ Contents(turn[c].window) \subseteq Of(c)
      BY <2>2, BusyTurn DEF IntakeInv, Turns, Engaged, EngagedWell
  <2>4. admitted \in [Window -> Nat]
      BY DEF IntakeInv, IntakeTyped
  <2>5. \A v \in Window : admitted'[v] >= admitted[v]
      BY <2>2, <2>3, <2>4
  <2>6. IF t.at = "idle" THEN t = Idle
        ELSE /\ t.window \in Window /\ Contents(t.window) # {} /\ Contents(t.window) \subseteq Of(c)
             /\ t.at = "admitted" => admitted'[t.window] > 0
      BY <2>1, <2>3
  <2> QED
      BY <2>1, <2>2, <2>3, <2>5, <2>6, <1>0, TurnMoves
<1>17. ASSUME NEW c \in Chat, MarkDone(c) PROVE Turns'
  <2>1. turn' = [turn EXCEPT ![c] = Idle] /\ UNCHANGED <<windowOf, mode, todo, admitted>> /\ turn[c].at # "idle"
      BY <1>17 DEF MarkDone, Settle, At, Step, ledgerRest, rows, stream
  <2>2. \A v \in Window : status[v] # "absent" => status'[v] # "absent"
      BY <1>17 DEF MarkDone, Settle, IntakeInv, IntakeTyped
  <2>3. Idle \in TurnState /\ Idle.at = "idle" /\ mode \in {"replaying", "streaming"}
      BY <2>1, BusyTurn DEF Idle, TurnState
  <2>4. admitted \in [Window -> Nat]
      BY DEF IntakeInv, IntakeTyped
  <2>5. \A v \in Window : admitted'[v] >= admitted[v]
      BY <2>1, <2>4
  <2> QED
      BY <2>1, <2>2, <2>3, <2>5, <1>0, TurnMoves
<1>18. ASSUME NEW c \in Chat, MarkFailed(c) PROVE Turns'
  <2>1. turn' = [turn EXCEPT ![c] = Idle] /\ UNCHANGED <<windowOf, mode, todo, admitted>> /\ turn[c].at # "idle"
      BY <1>18 DEF MarkFailed, Settle, At, Step, ledgerRest, rows, stream
  <2>2. \A v \in Window : status[v] # "absent" => status'[v] # "absent"
      BY <1>18 DEF MarkFailed, Settle, IntakeInv, IntakeTyped
  <2>3. Idle \in TurnState /\ Idle.at = "idle" /\ mode \in {"replaying", "streaming"}
      BY <2>1, BusyTurn DEF Idle, TurnState
  <2>4. admitted \in [Window -> Nat]
      BY DEF IntakeInv, IntakeTyped
  <2>5. \A v \in Window : admitted'[v] >= admitted[v]
      BY <2>1, <2>4
  <2> QED
      BY <2>1, <2>2, <2>3, <2>5, <1>0, TurnMoves
<1>19. ASSUME NEW c \in Chat, LedgerFails(c) PROVE Turns'
  <2>1. turn' = [turn EXCEPT ![c] = Idle] /\ UNCHANGED <<windowOf, mode, todo, admitted>> /\ turn[c].at # "idle"
      BY <1>19 DEF LedgerFails, At, Step, ledgerRest, rows, stream
  <2>2. \A v \in Window : status[v] # "absent" => status'[v] # "absent"
      BY <1>19 DEF LedgerFails, IntakeInv, IntakeTyped
  <2>3. Idle \in TurnState /\ Idle.at = "idle" /\ mode \in {"replaying", "streaming"}
      BY <2>1, BusyTurn DEF Idle, TurnState
  <2>4. admitted \in [Window -> Nat]
      BY DEF IntakeInv, IntakeTyped
  <2>5. \A v \in Window : admitted'[v] >= admitted[v]
      BY <2>1, <2>4
  <2> QED
      BY <2>1, <2>2, <2>3, <2>5, <1>0, TurnMoves
<1>20. CASE Crash
    BY <1>20 DEF Crash, rows, Idle, Turns, Engaged, EngagedWell, AtRest, StillToDo
<1>21. CASE UNCHANGED intakeVars
    BY <1>21, TurnsKept DEF intakeVars, rows, stream
<1> QED
    BY <1>1, <1>2, <1>3, <1>4, <1>5, <1>6, <1>7, <1>8, <1>9, <1>10, <1>11, <1>12, <1>13,
       <1>14, <1>15, <1>16, <1>17, <1>18, <1>19, <1>20, <1>21 DEF IntakeNext, ActorStep,
       RelayStep

LEMMA WayKept ==
  ASSUME IntakeInv, UNCHANGED <<seqOf, windowOf, backlog, queue, buffer, mode>>, halted \subseteq halted'
  PROVE  OnItsWay'
BY DEF IntakeInv, OnItsWay, OnWay, Pending

(* What a chat's actor takes stays on its way, in the buffer.              *)
LEMMA TakenBacklog ==
  ASSUME IntakeInv, NEW c \in Chat, NEW e \in Event, TakeBacklog(c, e)
  PROVE  /\ e \in backlog \cap Of(c) /\ backlog' = backlog \ {e}
         /\ \A f \in backlog \cap Of(c) : seqOf[e] <= seqOf[f]
         /\ UNCHANGED <<seqOf, windowOf, mode, queue, halted, repeats, archived>>
         /\ buffer'[c] = Append(buffer[c], e) /\ \A d \in Chat \ {c} : buffer'[d] = buffer[d]
         /\ \A d \in Chat : Range(buffer'[d]) = Range(buffer[d]) \cup (IF d = c THEN {e} ELSE {})
         /\ buffer[c] \in Seq(Event)
<1>1. buffer \in [Chat -> Seq(Event)]
    BY DEF IntakeInv, IntakeTyped
<1>2. Range(Append(buffer[c], e)) = Range(buffer[c]) \cup {e}
    BY <1>1, RangeAppend
<1> QED
    BY <1>1, <1>2 DEF TakeBacklog, Gather, rows, bounds

LEMMA TakenLive ==
  ASSUME IntakeInv, NEW c \in Chat, TakeLive(c)
  PROVE  /\ queue[c] # <<>> /\ backlog \cap Of(c) = {}
         /\ UNCHANGED <<seqOf, windowOf, mode, backlog, halted, repeats, archived>>
         /\ buffer'[c] = Append(buffer[c], Head(queue[c])) /\ queue'[c] = Tail(queue[c])
         /\ \A d \in Chat \ {c} : buffer'[d] = buffer[d] /\ queue'[d] = queue[d]
         /\ Range(queue[c]) = {Head(queue[c])} \cup Range(Tail(queue[c]))
         /\ Range(buffer'[c]) = Range(buffer[c]) \cup {Head(queue[c])}
         /\ buffer[c] \in Seq(Event) /\ queue[c] \in Seq(Event) /\ Head(queue[c]) \in Event
<1>1. queue \in [Chat -> Seq(Event)] /\ buffer \in [Chat -> Seq(Event)]
    BY DEF IntakeInv, IntakeTyped
<1>2. queue[c] # <<>>
    BY DEF TakeLive
<1>3. Range(queue[c]) = {Head(queue[c])} \cup Range(Tail(queue[c])) /\ Head(queue[c]) \in Event
    BY <1>1, <1>2, RangeTail
<1>4. Range(Append(buffer[c], Head(queue[c]))) = Range(buffer[c]) \cup {Head(queue[c])}
    BY <1>1, <1>3, RangeAppend
<1> QED
    BY <1>1, <1>2, <1>3, <1>4 DEF TakeLive, Gather, rows, stream, bounds

(* Nothing falls off its way.                                              *)
LEMMA WayStep == IntakeInv /\ [IntakeNext]_intakeVars => OnItsWay'
<1> SUFFICES ASSUME IntakeInv, [IntakeNext]_intakeVars PROVE OnItsWay'
    OBVIOUS
<1>1. ASSUME NEW e \in Event, Deliver(e) PROVE OnItsWay'
  <2>1. UNCHANGED <<mode, backlog, buffer, halted>> /\ Record(e)
      BY <1>1 DEF Deliver, stream
  <2>2. Pending' \subseteq Pending \cup (IF Accepts(e) THEN {e} ELSE {})
      BY <2>1, Recorded DEF Pending
  <2>3. CASE mode \notin {"replaying", "streaming"}
      BY <2>1, <2>3 DEF OnItsWay
  <2>4. CASE mode \in {"replaying", "streaming"} /\ ~ Accepts(e)
      BY <1>1, <2>1, <2>2, <2>4 DEF Deliver, IntakeInv, OnItsWay, OnWay
  <2>5. CASE mode \in {"replaying", "streaming"} /\ Accepts(e)
    <3>1. queue' = [queue EXCEPT ![ChatOf[e]] = Append(@, e)]
        BY <1>1, <2>5 DEF Deliver, Listening
    <3>2. \A c \in Chat : Range(queue'[c]) = Range(queue[c]) \cup (IF c = ChatOf[e] THEN {e} ELSE {})
        BY <3>1, Queued, RangeAppend DEF IntakeInv, IntakeTyped
    <3> QED
        BY <2>1, <2>2, <2>5, <3>2 DEF IntakeInv, OnItsWay, OnWay, Of
  <2> QED
      BY <2>3, <2>4, <2>5
<1>2. ASSUME NEW e \in Event, Redeliver(e) PROVE OnItsWay'
  <2>1. UNCHANGED <<mode, backlog, buffer, halted, seqOf, windowOf>>
      BY <1>2 DEF Redeliver, rows
  <2>2. \A c \in Chat : Range(queue[c]) \subseteq Range(queue'[c])
    <3>1. CASE queue' = queue
        BY <3>1
    <3>2. CASE queue' = [queue EXCEPT ![ChatOf[e]] = Append(@, e)]
        BY <3>2, Queued, RangeAppend DEF IntakeInv, IntakeTyped
    <3> QED
        BY <1>2, <3>1, <3>2 DEF Redeliver
  <2> QED
      BY <2>1, <2>2 DEF IntakeInv, OnItsWay, OnWay, Pending
<1>3. ASSUME NEW e \in Event, SendMutation(e) PROVE OnItsWay'
  <2>1. UNCHANGED <<mode, backlog, buffer, halted, queue>> /\ Record(e) /\ IsMutation(e)
      BY <1>3 DEF SendMutation, stream
  <2>2. Pending' \subseteq Pending \cup {e}
      BY <2>1, InboxGrows
  <2> QED
      BY <2>1, <2>2 DEF IntakeInv, OnItsWay, OnWay
<1>4. ASSUME NEW S \in SUBSET Chat, Reload(S) PROVE OnItsWay'
    BY <1>4, WayKept DEF Reload, rows, stream
<1>5. CASE Start
    BY <1>5 DEF Start, rows, OnItsWay, OnWay, Pending
<1>6. CASE StartFails
    BY <1>6 DEF StartFails, OnItsWay
<1>7. CASE Replayed
  <2>1. mode = "replaying" /\ UNCHANGED <<seqOf, windowOf, backlog, queue, buffer, halted>>
      BY <1>7 DEF Replayed, rows
  <2> QED
      BY <2>1 DEF IntakeInv, OnItsWay, OnWay, Pending
<1>8. ASSUME NEW w \in Window, Replay(w) PROVE OnItsWay'
    BY <1>8, WayKept DEF Replay, rows, stream
<1>9. ASSUME NEW c \in Chat, NEW e \in Event, TakeBacklog(c, e) PROVE OnItsWay'
  <2>1. \A d \in Chat : Range(buffer'[d]) = Range(buffer[d]) \cup (IF d = c THEN {e} ELSE {})
      BY <1>9, TakenBacklog
  <2>2. e \in Of(c) /\ backlog' = backlog \ {e} /\ UNCHANGED <<seqOf, windowOf, mode, queue, halted>>
      BY <1>9, TakenBacklog
  <2>3. \A d \in Chat : e \in Of(d) => d = c
      BY <2>2 DEF Of
  <2> QED
      BY <2>1, <2>2, <2>3 DEF IntakeInv, OnItsWay, OnWay, Pending
<1>10. ASSUME NEW c \in Chat, TakeLive(c) PROVE OnItsWay'
  <2>1. \A d \in Chat : Range(queue[d]) \cup Range(buffer[d]) = Range(queue'[d]) \cup Range(buffer'[d])
      BY <1>10, TakenLive
  <2>2. UNCHANGED <<seqOf, windowOf, mode, backlog, halted>>
      BY <1>10, TakenLive
  <2> QED
      BY <2>1, <2>2 DEF IntakeInv, OnItsWay, OnWay, Pending
<1>11. ASSUME NEW c \in Chat, NEW w \in Window, Cut(c, w) PROVE OnItsWay'
  <2>1. UNCHANGED <<mode, backlog, halted, queue>> /\ Pending' = Pending \ Range(buffer[c])
      BY <1>11, CutWindows DEF Cut, stream
  <2>2. \A d \in Chat : d # c => buffer'[d] = buffer[d]
      BY <1>11 DEF Cut, Fire, IntakeInv, IntakeTyped
  <2> QED
      BY <2>1, <2>2 DEF IntakeInv, OnItsWay, OnWay
<1>12. ASSUME NEW c \in Chat, NEW w \in Window, CutAgain(c, w) PROVE OnItsWay'
  <2>1. /\ UNCHANGED <<mode, backlog, halted, queue, seqOf, windowOf>>
        /\ Range(buffer[c]) = Contents(w)
      BY <1>12 DEF CutAgain, ReadsAgain, rows, stream
  <2>2. \A d \in Chat : d # c => buffer'[d] = buffer[d]
      BY <1>12 DEF CutAgain, Fire, IntakeInv, IntakeTyped
  <2>3. Range(buffer[c]) \cap Pending = {}
      BY <2>1, IntakeConstants DEF Contents, Pending
  <2> QED
      BY <2>1, <2>2, <2>3 DEF IntakeInv, OnItsWay, OnWay, Pending
<1>13. ASSUME NEW c \in Chat, CutRefused(c) PROVE OnItsWay'
    BY <1>13, WayKept DEF CutRefused, rows, stream
<1>14. ASSUME NEW c \in Chat, CutFails(c) PROVE OnItsWay'
    BY <1>14, WayKept DEF CutFails, rows, stream
<1>15. ASSUME NEW c \in Chat, Admit(c) PROVE OnItsWay'
    BY <1>15, WayKept DEF Admit, ledgerRest, rows, stream
<1>16. ASSUME NEW c \in Chat, DispatchThrows(c) PROVE OnItsWay'
    BY <1>16, WayKept DEF DispatchThrows, ledgerRest, rows, stream
<1>17. ASSUME NEW c \in Chat, MarkDone(c) PROVE OnItsWay'
    BY <1>17, WayKept DEF MarkDone, Settle, ledgerRest, rows, stream
<1>18. ASSUME NEW c \in Chat, MarkFailed(c) PROVE OnItsWay'
    BY <1>18, WayKept DEF MarkFailed, Settle, ledgerRest, rows, stream
<1>19. ASSUME NEW c \in Chat, LedgerFails(c) PROVE OnItsWay'
    BY <1>19, WayKept DEF LedgerFails, ledgerRest, rows, stream
<1>20. CASE Crash
    BY <1>20 DEF Crash, OnItsWay
<1>21. CASE UNCHANGED intakeVars
    BY <1>21, WayKept DEF intakeVars, rows, stream
<1> QED
    BY <1>1, <1>2, <1>3, <1>4, <1>5, <1>6, <1>7, <1>8, <1>9, <1>10, <1>11, <1>12, <1>13,
       <1>14, <1>15, <1>16, <1>17, <1>18, <1>19, <1>20, <1>21 DEF IntakeNext, ActorStep,
       RelayStep

LEMMA RisingEmpty == Rising(<<>>)
BY DEF Rising

LEMMA RisingAppend ==
  ASSUME IntakeTyped, NEW s \in Seq(Event), NEW x \in Event, Rising(s),
         \A e \in Range(s) : seqOf[e] < seqOf[x]
  PROVE  Rising(Append(s, x))
<1>1. \A i \in DOMAIN s : seqOf[s[i]] < seqOf[x]
    BY DEF Range
<1>2. DOMAIN Append(s, x) = DOMAIN s \cup {Len(s) + 1} /\ DOMAIN s = 1..Len(s) /\ Len(s) \in Nat
    BY AppendProperties
<1>3. (\A i \in DOMAIN s : Append(s, x)[i] = s[i]) /\ Append(s, x)[Len(s) + 1] = x
    BY AppendProperties
<1> QED
    BY <1>1, <1>2, <1>3 DEF Rising

LEMMA RisingTail ==
  ASSUME IntakeTyped, NEW s \in Seq(Event), s # <<>>, Rising(s)
  PROVE  Rising(Tail(s)) /\ \A e \in Range(Tail(s)) : seqOf[Head(s)] < seqOf[e]
<1>1. /\ \A i \in DOMAIN Tail(s) : i \in Nat \ {0} /\ i + 1 \in DOMAIN s /\ Tail(s)[i] = s[i + 1]
      /\ 1 \in DOMAIN s /\ Head(s) = s[1]
    BY HeadTailProperties
<1>2. \A i \in DOMAIN Tail(s) : seqOf[s[1]] < seqOf[s[i + 1]]
    BY <1>1 DEF Rising
<1>3. \A e \in Range(Tail(s)) : seqOf[Head(s)] < seqOf[e]
    BY <1>1, <1>2 DEF Range
<1>4. \A i, j \in DOMAIN Tail(s) : i < j => seqOf[s[i + 1]] < seqOf[s[j + 1]]
    BY <1>1 DEF Rising
<1>5. Rising(Tail(s))
    BY <1>1, <1>4 DEF Rising
<1> QED
    BY <1>3, <1>5

LEMMA RisingDistinct ==
  ASSUME IntakeTyped, NEW s \in Seq(Event), Rising(s)
  PROVE  Distinct(s)
<1>1. \A i, j \in DOMAIN s : i < j \/ j < i \/ i = j
    OBVIOUS
<1>2. \A i \in DOMAIN s : seqOf[s[i]] \in Nat
    BY DEF IntakeTyped
<1> QED
    BY <1>1, <1>2 DEF Rising, Distinct

(* Order is a matter of what is there and of the numbers it has.           *)
LEMMA RisingKept ==
  ASSUME NEW s \in Seq(Event), Rising(s), \A e \in Range(s) : seqOf'[e] = seqOf[e]
  PROVE  Rising(s)'
BY DEF Rising, Range

LEMMA TidyKept ==
  ASSUME IntakeInv, NEW c \in Chat, TidyChat(c),
         UNCHANGED <<seqOf, windowOf>>, backlog' = backlog, buffer'[c] = buffer[c], queue'[c] = queue[c]
  PROVE  TidyChat(c)'
BY DEF TidyChat, Rising, Before, Pending

LEMMA DisturbedStays ==
  ASSUME IntakeInv, NEW c \in Chat, Undisturbed(c)', repeats <= repeats',
         \A e \in Event : seqOf[e] > 0 => seqOf'[e] > 0
  PROVE  Undisturbed(c)
BY DEF Undisturbed, IntakeInv, IntakeTyped, Of, IsMutation

LEMMA TidyStays ==
  ASSUME IntakeInv, UNCHANGED <<seqOf, windowOf, backlog, buffer, queue>>, repeats <= repeats'
  PROVE  Tidy'
BY DisturbedStays, TidyKept DEF Tidy, IntakeInv

(* What is gathered stays in order.                                        *)
LEMMA TidyStep == IntakeInv /\ [IntakeNext]_intakeVars => Tidy'
<1> SUFFICES ASSUME IntakeInv, [IntakeNext]_intakeVars PROVE Tidy'
    OBVIOUS
<1>0. IntakeTyped'
    BY TypedStep
<1>1. ASSUME NEW e \in Event, Deliver(e) PROVE Tidy'
  <2> SUFFICES ASSUME NEW c \in Chat, Undisturbed(c)' PROVE TidyChat(c)'
      BY DEF Tidy
  <2>1. UNCHANGED <<mode, backlog, buffer, repeats>> /\ Record(e)
      BY <1>1 DEF Deliver, stream, bounds
  <2>2. /\ \A f \in Event \ {e} : seqOf'[f] = seqOf[f]
        /\ seqOf[e] = 0 /\ lastSeq \in Nat /\ seqOf \in [Event -> Nat]
        /\ Pending \subseteq Pending' /\ e \notin Pending
      BY <2>1, Recorded, InboxGrows DEF IntakeInv, IntakeTyped
  <2>3. Undisturbed(c)
    <3>1. \A f \in Event : seqOf[f] > 0 => seqOf'[f] > 0
        BY <2>2
    <3>2. repeats <= repeats'
        BY <2>1 DEF IntakeInv, IntakeTyped
    <3> QED
        BY <3>1, <3>2, DisturbedStays
  <2>4. TidyChat(c) /\ backlog \subseteq Pending
      BY <2>3 DEF IntakeInv, Tidy, Placed
  <2>5. buffer[c] \in Seq(Event) /\ queue[c] \in Seq(Event)
      BY DEF IntakeInv, IntakeTyped
  <2>6. \A f \in Range(buffer[c]) \cup Range(queue[c]) \cup backlog : f \in Event /\ f # e /\ seqOf'[f] = seqOf[f]
      BY <2>2, <2>4 DEF TidyChat, Pending
  <2>7. Rising(buffer[c])' /\ Before(Range(buffer[c]), backlog \cap Of(c))'
    <3>1. Rising(buffer[c]) /\ Before(Range(buffer[c]), backlog \cap Of(c))
        BY <2>4 DEF TidyChat
    <3> QED
        BY <2>1, <2>5, <2>6, <3>1, RisingKept DEF Before, Rising, Range
  <2>8. CASE queue'[c] = queue[c]
    <3>1. Rising(queue[c])'
        BY <2>4, <2>6, <2>8 DEF TidyChat, Rising, Range
    <3>2. Before(Range(buffer[c]), Range(queue[c]))' /\ Before(backlog \cap Of(c), Range(queue[c]))'
        BY <2>1, <2>4, <2>6, <2>8 DEF TidyChat, Before
    <3>3. Range(buffer'[c]) \cup Range(queue'[c]) \subseteq Pending'
        BY <2>1, <2>2, <2>4, <2>8 DEF TidyChat
    <3> QED
        BY <2>7, <3>1, <3>2, <3>3 DEF TidyChat
  <2>9. CASE c = ChatOf[e] /\ Accepts(e) /\ queue'[c] = Append(queue[c], e)
    <3>1. seqOf'[e] = lastSeq + 1 /\ e \in Pending' /\ \A f \in Event \ {e} : seqOf'[f] < seqOf'[e]
      <4>1. seqOf'[e] = lastSeq + 1 /\ e \in Pending'
          BY <2>1, <2>9, Recorded, InboxGrows
      <4>2. \A f \in Event : seqOf[f] <= lastSeq
          BY DEF IntakeInv, Rows, Numbered
      <4> QED
          BY <2>2, <4>1, <4>2
    <3>2. IntakeTyped'
        BY <1>0
    <3>3. Range(queue'[c]) = Range(queue[c]) \cup {e}
        BY <2>5, <2>9, RangeAppend
    <3>4. Rising(queue[c])'
      <4>1. \A i, j \in DOMAIN queue[c] : i < j => seqOf'[queue[c][i]] < seqOf'[queue[c][j]]
          BY <2>4, <2>6 DEF TidyChat, Rising, Range
      <4>2. \A i \in DOMAIN queue[c] : seqOf'[queue[c][i]] < seqOf'[e]
          BY <2>6, <3>1 DEF Range
      <4>3. /\ DOMAIN queue'[c] = DOMAIN queue[c] \cup {Len(queue[c]) + 1}
            /\ DOMAIN queue[c] = 1..Len(queue[c]) /\ Len(queue[c]) \in Nat
            /\ \A i \in DOMAIN queue[c] : queue'[c][i] = queue[c][i]
            /\ queue'[c][Len(queue[c]) + 1] = e
          BY <2>5, <2>9, AppendProperties
      <4> QED
          BY <4>1, <4>2, <4>3 DEF Rising
    <3>5. Before(Range(buffer[c]), Range(queue[c]))' /\ Before(backlog \cap Of(c), Range(queue[c]))'
        BY <2>1, <2>4, <2>6, <3>1, <3>3 DEF TidyChat, Before
    <3>6. Range(buffer'[c]) \cup Range(queue'[c]) \subseteq Pending'
        BY <2>1, <2>2, <2>4, <3>1, <3>3 DEF TidyChat
    <3> QED
        BY <2>7, <3>4, <3>5, <3>6 DEF TidyChat
  <2>10. queue'[c] = queue[c] \/ (c = ChatOf[e] /\ Accepts(e) /\ queue'[c] = Append(queue[c], e))
      BY <1>1, Queued DEF Deliver
  <2> QED
      BY <2>8, <2>9, <2>10
<1>2. ASSUME NEW e \in Event, Redeliver(e) PROVE Tidy'
  <2>1. repeats' # 0
      BY <1>2 DEF Redeliver, IntakeInv, IntakeTyped
  <2> QED
      BY <2>1 DEF Tidy, Undisturbed
<1>3. ASSUME NEW e \in Event, SendMutation(e) PROVE Tidy'
  <2> SUFFICES ASSUME NEW c \in Chat, Undisturbed(c)' PROVE TidyChat(c)'
      BY DEF Tidy
  <2>1. UNCHANGED <<backlog, buffer, queue, repeats>> /\ Record(e) /\ IsMutation(e)
      BY <1>3 DEF SendMutation, stream, bounds
  <2>2. /\ \A f \in Event \ {e} : seqOf'[f] = seqOf[f]
        /\ seqOf[e] = 0 /\ lastSeq \in Nat /\ seqOf \in [Event -> Nat]
        /\ Pending \subseteq Pending' /\ e \notin Pending
      BY <2>1, Recorded, InboxGrows DEF IntakeInv, IntakeTyped
  <2>3. Undisturbed(c)
    <3>1. \A f \in Event : seqOf[f] > 0 => seqOf'[f] > 0
        BY <2>2
    <3>2. repeats <= repeats'
        BY <2>1 DEF IntakeInv, IntakeTyped
    <3> QED
        BY <3>1, <3>2, DisturbedStays
  <2>4. TidyChat(c) /\ backlog \subseteq Pending
      BY <2>3 DEF IntakeInv, Tidy, Placed
  <2>5. \A f \in Range(buffer[c]) \cup Range(queue[c]) \cup backlog : seqOf'[f] = seqOf[f]
      BY <2>2, <2>4 DEF TidyChat, Pending
  <2>6. Rising(buffer[c])' /\ Rising(queue[c])'
      BY <2>1, <2>4, <2>5 DEF TidyChat, Rising, Range
  <2>7. /\ Before(Range(buffer[c]), backlog \cap Of(c))'
        /\ Before(Range(buffer[c]), Range(queue[c]))' /\ Before(backlog \cap Of(c), Range(queue[c]))'
      BY <2>1, <2>4, <2>5 DEF TidyChat, Before
  <2> QED
      BY <2>1, <2>2, <2>4, <2>6, <2>7 DEF TidyChat
<1>4. ASSUME NEW S \in SUBSET Chat, Reload(S) PROVE Tidy'
  <2>1. UNCHANGED <<seqOf, windowOf, backlog, buffer, queue>> /\ repeats <= repeats'
      BY <1>4 DEF Reload, rows, stream, bounds, IntakeInv, IntakeTyped
  <2> QED
      BY <2>1, TidyStays
<1>5. CASE Start
  <2>1. \A c \in Chat : queue'[c] = <<>> /\ buffer'[c] = <<>>
      BY <1>5 DEF Start, IntakeInv, Placed, Quiet
  <2> QED
      BY <2>1, EmptyRange, RisingEmpty DEF Tidy, TidyChat, Rising, Before
<1>6. CASE StartFails
  <2>1. \A c \in Chat : queue'[c] = <<>> /\ buffer'[c] = <<>>
      BY <1>6 DEF StartFails, IntakeInv, Placed, Quiet
  <2> QED
      BY <2>1, EmptyRange, RisingEmpty DEF Tidy, TidyChat, Rising, Before
<1>7. CASE Replayed
  <2>1. UNCHANGED <<seqOf, windowOf, backlog, buffer, queue>> /\ repeats <= repeats'
      BY <1>7 DEF Replayed, rows, stream, bounds, IntakeInv, IntakeTyped
  <2> QED
      BY <2>1, TidyStays
<1>8. ASSUME NEW w \in Window, Replay(w) PROVE Tidy'
  <2>1. UNCHANGED <<seqOf, windowOf, backlog, buffer, queue>> /\ repeats <= repeats'
      BY <1>8 DEF Replay, rows, stream, bounds, IntakeInv, IntakeTyped
  <2> QED
      BY <2>1, TidyStays
<1>9. ASSUME NEW c \in Chat, NEW e \in Event, TakeBacklog(c, e) PROVE Tidy'
  <2> SUFFICES ASSUME NEW d \in Chat, Undisturbed(d)' PROVE TidyChat(d)'
      BY DEF Tidy
  <2>1. /\ e \in backlog \cap Of(c) /\ backlog' = backlog \ {e}
        /\ \A f \in backlog \cap Of(c) : seqOf[e] <= seqOf[f]
        /\ UNCHANGED <<seqOf, windowOf, queue, repeats>>
        /\ buffer'[c] = Append(buffer[c], e) /\ \A x \in Chat \ {c} : buffer'[x] = buffer[x]
        /\ Range(buffer'[c]) = Range(buffer[c]) \cup {e} /\ buffer[c] \in Seq(Event)
      BY <1>9, TakenBacklog
  <2>2. Undisturbed(d)
      BY <2>1, DisturbedStays DEF IntakeInv, IntakeTyped
  <2>3. TidyChat(d) /\ backlog \subseteq Pending
      BY <2>2 DEF IntakeInv, Tidy, Placed
  <2>4. CASE d # c
      BY <2>1, <2>3, <2>4 DEF TidyChat, Rising, Before, Pending, Of
  <2>5. CASE d = c
    <3>1. \A f \in (backlog' \cap Of(c)) : seqOf[e] < seqOf[f]
      <4>1. \A f \in backlog : f \in Event /\ seqOf[f] > 0 /\ seqOf[f] \in Nat
          BY <2>3 DEF Pending, IntakeInv, IntakeTyped
      <4> QED
          BY <2>1, <4>1 DEF IntakeInv, Rows, NoTies
    <3>2. Rising(buffer'[c])
      <4>1. \A f \in Range(buffer[c]) : seqOf[f] < seqOf[e]
          BY <2>1, <2>3, <2>5 DEF TidyChat, Before
      <4> QED
          BY <2>1, <2>3, <2>5, <4>1, RisingAppend DEF TidyChat, IntakeInv
    <3>3. Rising(buffer[c])' /\ Rising(queue[c])'
        BY <2>1, <2>3, <2>5, <3>2 DEF TidyChat, Rising
    <3>4. Before(Range(buffer[c]), backlog \cap Of(c))'
        BY <2>1, <2>3, <2>5, <3>1 DEF TidyChat, Before
    <3>5. Before(Range(buffer[c]), Range(queue[c]))' /\ Before(backlog \cap Of(c), Range(queue[c]))'
        BY <2>1, <2>3, <2>5 DEF TidyChat, Before
    <3>6. (Range(buffer[c]) \cup Range(queue[c]))' \subseteq Pending'
        BY <2>1, <2>3, <2>5 DEF TidyChat, Pending
    <3> QED
        BY <2>5, <3>3, <3>4, <3>5, <3>6 DEF TidyChat
  <2> QED
      BY <2>4, <2>5
<1>10. ASSUME NEW c \in Chat, TakeLive(c) PROVE Tidy'
  <2> SUFFICES ASSUME NEW d \in Chat, Undisturbed(d)' PROVE TidyChat(d)'
      BY DEF Tidy
  <2>1. /\ queue[c] # <<>> /\ backlog \cap Of(c) = {}
        /\ UNCHANGED <<seqOf, windowOf, backlog, repeats>>
        /\ buffer'[c] = Append(buffer[c], Head(queue[c])) /\ queue'[c] = Tail(queue[c])
        /\ \A x \in Chat \ {c} : buffer'[x] = buffer[x] /\ queue'[x] = queue[x]
        /\ Range(queue[c]) = {Head(queue[c])} \cup Range(Tail(queue[c]))
        /\ Range(buffer'[c]) = Range(buffer[c]) \cup {Head(queue[c])}
        /\ buffer[c] \in Seq(Event) /\ queue[c] \in Seq(Event) /\ Head(queue[c]) \in Event
      BY <1>10, TakenLive
  <2>2. Undisturbed(d)
      BY <2>1, DisturbedStays DEF IntakeInv, IntakeTyped
  <2>3. TidyChat(d)
      BY <2>2 DEF IntakeInv, Tidy
  <2>4. CASE d # c
      BY <2>1, <2>3, <2>4 DEF TidyChat, Rising, Before, Pending, Of
  <2>5. CASE d = c
    <3>1. Rising(queue'[c]) /\ \A f \in Range(queue'[c]) : seqOf[Head(queue[c])] < seqOf[f]
        BY <2>1, <2>3, <2>5, RisingTail DEF TidyChat, IntakeInv
    <3>2. Rising(buffer'[c])
      <4>1. \A f \in Range(buffer[c]) : seqOf[f] < seqOf[Head(queue[c])]
          BY <2>1, <2>3, <2>5 DEF TidyChat, Before
      <4> QED
          BY <2>1, <2>3, <2>5, <4>1, RisingAppend DEF TidyChat, IntakeInv
    <3>3. Rising(buffer[c])' /\ Rising(queue[c])'
        BY <2>1, <3>1, <3>2 DEF Rising
    <3>4. Before(Range(buffer[c]), backlog \cap Of(c))' /\ Before(backlog \cap Of(c), Range(queue[c]))'
        BY <2>1 DEF Before
    <3>5. Before(Range(buffer[c]), Range(queue[c]))'
        BY <2>1, <2>3, <2>5, <3>1 DEF TidyChat, Before
    <3>6. (Range(buffer[c]) \cup Range(queue[c]))' \subseteq Pending'
        BY <2>1, <2>3, <2>5 DEF TidyChat, Pending
    <3> QED
        BY <2>5, <3>3, <3>4, <3>5, <3>6 DEF TidyChat
  <2> QED
      BY <2>4, <2>5
<1>11. ASSUME NEW c \in Chat, NEW w \in Window, Cut(c, w) PROVE Tidy'
  <2> SUFFICES ASSUME NEW d \in Chat, Undisturbed(d)' PROVE TidyChat(d)'
      BY DEF Tidy
  <2>1. /\ UNCHANGED <<seqOf, backlog, queue, repeats>> /\ buffer'[c] = <<>>
        /\ \A x \in Chat \ {c} : buffer'[x] = buffer[x]
      BY <1>11 DEF Cut, Fire, stream, bounds, IntakeInv, IntakeTyped
  <2>2. Pending' = Pending \ Range(buffer[c]) /\ Range(buffer[c]) \subseteq Of(c)
      BY <1>11, CutWindows
  <2>3. Undisturbed(d)
      BY <2>1, DisturbedStays DEF IntakeInv, IntakeTyped
  <2>4. TidyChat(d) /\ Range(queue[d]) \subseteq Of(d) /\ Range(buffer[d]) \subseteq Of(d)
      BY <2>3 DEF IntakeInv, Tidy, Placed, InQueues, InBuffers, Inboxed
  <2>5. CASE d # c
    <3>1. (Range(buffer[d]) \cup Range(queue[d]))' \subseteq Pending'
        BY <2>1, <2>2, <2>4, <2>5 DEF TidyChat, Of
    <3> QED
        BY <2>1, <2>4, <2>5, <3>1 DEF TidyChat, Rising, Before
  <2>6. CASE d = c
    <3>1. \A f \in Range(queue[c]) : f \notin Range(buffer[c])
        BY <2>4, <2>6 DEF TidyChat, Before, Pending, IntakeInv, IntakeTyped
    <3>2. (Range(buffer[c]) \cup Range(queue[c]))' \subseteq Pending'
        BY <2>1, <2>2, <2>4, <2>6, <3>1, EmptyRange DEF TidyChat
    <3>3. Rising(buffer[c])' /\ Rising(queue[c])'
        BY <2>1, <2>4, <2>6 DEF TidyChat, Rising
    <3>4. /\ Before(Range(buffer[c]), backlog \cap Of(c))'
          /\ Before(Range(buffer[c]), Range(queue[c]))' /\ Before(backlog \cap Of(c), Range(queue[c]))'
        BY <2>1, <2>4, <2>6, EmptyRange DEF TidyChat, Before
    <3> QED
        BY <2>6, <3>2, <3>3, <3>4 DEF TidyChat
  <2> QED
      BY <2>5, <2>6
<1>12. ASSUME NEW c \in Chat, NEW w \in Window, CutAgain(c, w) PROVE Tidy'
  <2> SUFFICES ASSUME NEW d \in Chat, Undisturbed(d)' PROVE TidyChat(d)'
      BY DEF Tidy
  <2>1. /\ UNCHANGED <<seqOf, windowOf, backlog, queue, repeats>> /\ buffer'[c] = <<>>
        /\ \A x \in Chat \ {c} : buffer'[x] = buffer[x]
      BY <1>12 DEF CutAgain, Fire, rows, stream, bounds, IntakeInv, IntakeTyped
  <2>2. Undisturbed(d)
      BY <2>1, DisturbedStays DEF IntakeInv, IntakeTyped
  <2>3. TidyChat(d)
      BY <2>2 DEF IntakeInv, Tidy
  <2>4. CASE d # c
      BY <2>1, <2>3, <2>4 DEF TidyChat, Rising, Before, Pending
  <2>5. CASE d = c
      BY <2>1, <2>3, <2>5, EmptyRange DEF TidyChat, Rising, Before, Pending
  <2> QED
      BY <2>4, <2>5
<1>13. ASSUME NEW c \in Chat, CutRefused(c) PROVE Tidy'
  <2>1. UNCHANGED <<seqOf, windowOf, backlog, buffer, queue>> /\ repeats <= repeats'
      BY <1>13 DEF CutRefused, rows, stream, bounds, IntakeInv, IntakeTyped
  <2> QED
      BY <2>1, TidyStays
<1>14. ASSUME NEW c \in Chat, CutFails(c) PROVE Tidy'
  <2>1. UNCHANGED <<seqOf, windowOf, backlog, buffer, queue>> /\ repeats <= repeats'
      BY <1>14 DEF CutFails, rows, stream, bounds, IntakeInv, IntakeTyped
  <2> QED
      BY <2>1, TidyStays
<1>15. ASSUME NEW c \in Chat, Admit(c) PROVE Tidy'
  <2>1. UNCHANGED <<seqOf, windowOf, backlog, buffer, queue>> /\ repeats <= repeats'
      BY <1>15 DEF Admit, ledgerRest, rows, stream, bounds, IntakeInv, IntakeTyped
  <2> QED
      BY <2>1, TidyStays
<1>16. ASSUME NEW c \in Chat, DispatchThrows(c) PROVE Tidy'
  <2>1. UNCHANGED <<seqOf, windowOf, backlog, buffer, queue>> /\ repeats <= repeats'
      BY <1>16 DEF DispatchThrows, ledgerRest, rows, stream, bounds, IntakeInv, IntakeTyped
  <2> QED
      BY <2>1, TidyStays
<1>17. ASSUME NEW c \in Chat, MarkDone(c) PROVE Tidy'
  <2>1. UNCHANGED <<seqOf, windowOf, backlog, buffer, queue>> /\ repeats <= repeats'
      BY <1>17 DEF MarkDone, Settle, ledgerRest, rows, stream, bounds, IntakeInv, IntakeTyped
  <2> QED
      BY <2>1, TidyStays
<1>18. ASSUME NEW c \in Chat, MarkFailed(c) PROVE Tidy'
  <2>1. UNCHANGED <<seqOf, windowOf, backlog, buffer, queue>> /\ repeats <= repeats'
      BY <1>18 DEF MarkFailed, Settle, ledgerRest, rows, stream, bounds, IntakeInv, IntakeTyped
  <2> QED
      BY <2>1, TidyStays
<1>19. ASSUME NEW c \in Chat, LedgerFails(c) PROVE Tidy'
  <2>1. UNCHANGED <<seqOf, windowOf, backlog, buffer, queue>> /\ repeats <= repeats'
      BY <1>19 DEF LedgerFails, ledgerRest, rows, stream, bounds, IntakeInv, IntakeTyped
  <2> QED
      BY <2>1, TidyStays
<1>20. CASE Crash
  <2>1. \A c \in Chat : queue'[c] = <<>> /\ buffer'[c] = <<>>
      BY <1>20 DEF Crash, IntakeInv, Placed, Quiet
  <2> QED
      BY <2>1, EmptyRange, RisingEmpty DEF Tidy, TidyChat, Rising, Before
<1>21. CASE UNCHANGED intakeVars
  <2>1. UNCHANGED <<seqOf, windowOf, backlog, buffer, queue>> /\ repeats <= repeats'
      BY <1>21 DEF intakeVars, rows, stream, bounds, IntakeInv, IntakeTyped
  <2> QED
      BY <2>1, TidyStays
<1> QED
    BY <1>1, <1>2, <1>3, <1>4, <1>5, <1>6, <1>7, <1>8, <1>9, <1>10, <1>11, <1>12, <1>13,
       <1>14, <1>15, <1>16, <1>17, <1>18, <1>19, <1>20, <1>21 DEF IntakeNext, ActorStep,
       RelayStep

(* Without trouble, what a chat's actor has gathered makes a Window.       *)
LEMMA TidyCreates ==
  ASSUME IntakeInv, NEW c \in Chat, Running(c), Undisturbed(c)
  PROVE  Creates(c)
<1>1. TidyChat(c) /\ OnWay(c)
    BY DEF IntakeInv, Tidy, OnItsWay, Running
<1>2. Distinct(buffer[c])
    BY <1>1, RisingDistinct DEF TidyChat, IntakeInv, IntakeTyped
<1>3. \A e \in Pending \cap Of(c) : ~ IsMutation(e)
    BY DEF Undisturbed, Pending
<1>4. \A f \in (Pending \cap Of(c)) \ Range(buffer[c]) : f \in (backlog \cap Of(c)) \cup Range(queue[c])
    BY <1>1, <1>3 DEF OnWay
<1>5. \A e \in Range(buffer[c]) : \A f \in (Pending \cap Of(c)) \ Range(buffer[c]) : seqOf[e] < seqOf[f]
    BY <1>1, <1>4 DEF TidyChat, Before
<1> QED
    BY <1>1, <1>2, <1>5 DEF Creates, Oldest, TidyChat

LEMMA CauseStays ==
  ASSUME IntakeInv, IntakeTyped', faults <= faults', repeats <= repeats', halted' \subseteq halted,
         \A e \in Event : seqOf[e] > 0 => seqOf'[e] > 0
  PROVE  FailStopHasCause'
<1> SUFFICES ASSUME NEW c \in halted'
             PROVE  \/ faults' > 0 \/ repeats' > 0
                    \/ \E e \in Of(c) : IsMutation(e) /\ seqOf'[e] > 0
    BY DEF FailStopHasCause, Of, IsMutation
<1>1. faults \in Nat /\ repeats \in Nat /\ faults' \in Nat /\ repeats' \in Nat
    BY DEF IntakeInv, IntakeTyped
<1>2. \/ faults > 0 \/ repeats > 0
      \/ \E e \in Of(c) : IsMutation(e) /\ seqOf[e] > 0
    BY DEF IntakeInv, FailStopHasCause
<1> QED
    BY <1>1, <1>2 DEF Of

(* A chat stops for a cause.                                               *)
LEMMA CauseStep == IntakeInv /\ [IntakeNext]_intakeVars => FailStopHasCause'
<1> SUFFICES ASSUME IntakeInv, [IntakeNext]_intakeVars PROVE FailStopHasCause'
    OBVIOUS
<1>0. IntakeTyped'
    BY TypedStep
<1>1. ASSUME NEW e \in Event, Deliver(e) PROVE FailStopHasCause'
  <2>1. Record(e) /\ UNCHANGED <<faults, repeats, halted>>
      BY <1>1 DEF Deliver, bounds
  <2>2. \A f \in Event : seqOf[f] > 0 => seqOf'[f] > 0
      BY <2>1, Recorded
  <2> QED
      BY <2>1, <2>2, <1>0, CauseStays DEF IntakeInv, IntakeTyped
<1>2. ASSUME NEW e \in Event, Redeliver(e) PROVE FailStopHasCause'
  <2>1. /\ faults <= faults' /\ repeats <= repeats' /\ halted' \subseteq halted
        /\ \A f \in Event : seqOf[f] > 0 => seqOf'[f] > 0
      BY <1>2 DEF Redeliver, rows, stream, bounds, IntakeInv, IntakeTyped
  <2> QED
      BY <2>1, <1>0, CauseStays
<1>3. ASSUME NEW e \in Event, SendMutation(e) PROVE FailStopHasCause'
  <2>1. Record(e) /\ UNCHANGED <<faults, repeats, halted>>
      BY <1>3 DEF SendMutation, bounds
  <2>2. \A f \in Event : seqOf[f] > 0 => seqOf'[f] > 0
      BY <2>1, Recorded
  <2> QED
      BY <2>1, <2>2, <1>0, CauseStays DEF IntakeInv, IntakeTyped
<1>4. ASSUME NEW S \in SUBSET Chat, Reload(S) PROVE FailStopHasCause'
  <2>1. /\ faults <= faults' /\ repeats <= repeats' /\ halted' \subseteq halted
        /\ \A f \in Event : seqOf[f] > 0 => seqOf'[f] > 0
      BY <1>4 DEF Reload, rows, stream, bounds, IntakeInv, IntakeTyped
  <2> QED
      BY <2>1, <1>0, CauseStays
<1>5. CASE Start
  <2>1. /\ faults <= faults' /\ repeats <= repeats' /\ halted' \subseteq halted
        /\ \A f \in Event : seqOf[f] > 0 => seqOf'[f] > 0
      BY <1>5 DEF Start, rows, stream, bounds, IntakeInv, IntakeTyped
  <2> QED
      BY <2>1, <1>0, CauseStays
<1>6. CASE StartFails
  <2>1. /\ faults <= faults' /\ repeats <= repeats' /\ halted' \subseteq halted
        /\ \A f \in Event : seqOf[f] > 0 => seqOf'[f] > 0
      BY <1>6 DEF StartFails, rows, stream, bounds, IntakeInv, IntakeTyped
  <2> QED
      BY <2>1, <1>0, CauseStays
<1>7. CASE Replayed
  <2>1. /\ faults <= faults' /\ repeats <= repeats' /\ halted' \subseteq halted
        /\ \A f \in Event : seqOf[f] > 0 => seqOf'[f] > 0
      BY <1>7 DEF Replayed, rows, stream, bounds, IntakeInv, IntakeTyped
  <2> QED
      BY <2>1, <1>0, CauseStays
<1>8. ASSUME NEW w \in Window, Replay(w) PROVE FailStopHasCause'
  <2>1. /\ faults <= faults' /\ repeats <= repeats' /\ halted' \subseteq halted
        /\ \A f \in Event : seqOf[f] > 0 => seqOf'[f] > 0
      BY <1>8 DEF Replay, rows, stream, bounds, IntakeInv, IntakeTyped
  <2> QED
      BY <2>1, <1>0, CauseStays
<1>9. ASSUME NEW c \in Chat, NEW e \in Event, TakeBacklog(c, e) PROVE FailStopHasCause'
  <2>1. /\ faults <= faults' /\ repeats <= repeats' /\ halted' \subseteq halted
        /\ \A f \in Event : seqOf[f] > 0 => seqOf'[f] > 0
      BY <1>9 DEF TakeBacklog, rows, stream, bounds, IntakeInv, IntakeTyped
  <2> QED
      BY <2>1, <1>0, CauseStays
<1>10. ASSUME NEW c \in Chat, TakeLive(c) PROVE FailStopHasCause'
  <2>1. /\ faults <= faults' /\ repeats <= repeats' /\ halted' \subseteq halted
        /\ \A f \in Event : seqOf[f] > 0 => seqOf'[f] > 0
      BY <1>10 DEF TakeLive, rows, stream, bounds, IntakeInv, IntakeTyped
  <2> QED
      BY <2>1, <1>0, CauseStays
<1>11. ASSUME NEW c \in Chat, NEW w \in Window, Cut(c, w) PROVE FailStopHasCause'
  <2>1. /\ faults <= faults' /\ repeats <= repeats' /\ halted' \subseteq halted
        /\ \A f \in Event : seqOf[f] > 0 => seqOf'[f] > 0
      BY <1>11 DEF Cut, rows, stream, bounds, IntakeInv, IntakeTyped
  <2> QED
      BY <2>1, <1>0, CauseStays
<1>12. ASSUME NEW c \in Chat, NEW w \in Window, CutAgain(c, w) PROVE FailStopHasCause'
  <2>1. /\ faults <= faults' /\ repeats <= repeats' /\ halted' \subseteq halted
        /\ \A f \in Event : seqOf[f] > 0 => seqOf'[f] > 0
      BY <1>12 DEF CutAgain, rows, stream, bounds, IntakeInv, IntakeTyped
  <2> QED
      BY <2>1, <1>0, CauseStays
<1>13. ASSUME NEW c \in Chat, CutRefused(c) PROVE FailStopHasCause'
  <2>1. Running(c) /\ ~ Creates(c) /\ halted' = halted \cup {c} /\ UNCHANGED <<seqOf, faults, repeats>>
      BY <1>13 DEF CutRefused, rows, bounds
  <2>2. ~ Undisturbed(c)
      BY <2>1, TidyCreates
  <2>3. repeats > 0 \/ \E e \in Of(c) : IsMutation(e) /\ seqOf[e] > 0
      BY <2>2 DEF Undisturbed, IntakeInv, IntakeTyped
  <2> QED
      BY <2>1, <2>3 DEF FailStopHasCause, IntakeInv, IsMutation
<1>14. ASSUME NEW c \in Chat, CutFails(c) PROVE FailStopHasCause'
  <2>1. faults' > 0
      BY <1>14 DEF CutFails, IntakeInv, IntakeTyped
  <2> QED
      BY <2>1 DEF FailStopHasCause
<1>15. ASSUME NEW c \in Chat, Admit(c) PROVE FailStopHasCause'
  <2>1. /\ faults <= faults' /\ repeats <= repeats' /\ halted' \subseteq halted
        /\ \A f \in Event : seqOf[f] > 0 => seqOf'[f] > 0
      BY <1>15 DEF Admit, ledgerRest, rows, stream, bounds, IntakeInv, IntakeTyped
  <2> QED
      BY <2>1, <1>0, CauseStays
<1>16. ASSUME NEW c \in Chat, DispatchThrows(c) PROVE FailStopHasCause'
  <2>1. /\ faults <= faults' /\ repeats <= repeats' /\ halted' \subseteq halted
        /\ \A f \in Event : seqOf[f] > 0 => seqOf'[f] > 0
      BY <1>16 DEF DispatchThrows, ledgerRest, rows, stream, bounds, IntakeInv, IntakeTyped
  <2> QED
      BY <2>1, <1>0, CauseStays
<1>17. ASSUME NEW c \in Chat, MarkDone(c) PROVE FailStopHasCause'
  <2>1. /\ faults <= faults' /\ repeats <= repeats' /\ halted' \subseteq halted
        /\ \A f \in Event : seqOf[f] > 0 => seqOf'[f] > 0
      BY <1>17 DEF MarkDone, Settle, ledgerRest, rows, stream, bounds, IntakeInv, IntakeTyped
  <2> QED
      BY <2>1, <1>0, CauseStays
<1>18. ASSUME NEW c \in Chat, MarkFailed(c) PROVE FailStopHasCause'
  <2>1. /\ faults <= faults' /\ repeats <= repeats' /\ halted' \subseteq halted
        /\ \A f \in Event : seqOf[f] > 0 => seqOf'[f] > 0
      BY <1>18 DEF MarkFailed, Settle, ledgerRest, rows, stream, bounds, IntakeInv, IntakeTyped
  <2> QED
      BY <2>1, <1>0, CauseStays
<1>19. ASSUME NEW c \in Chat, LedgerFails(c) PROVE FailStopHasCause'
  <2>1. /\ faults <= faults' /\ repeats <= repeats' /\ halted' \subseteq halted
        /\ \A f \in Event : seqOf[f] > 0 => seqOf'[f] > 0
      BY <1>19 DEF LedgerFails, ledgerRest, rows, stream, bounds, IntakeInv, IntakeTyped
  <2> QED
      BY <2>1, <1>0, CauseStays
<1>20. CASE Crash
  <2>1. /\ faults <= faults' /\ repeats <= repeats' /\ halted' \subseteq halted
        /\ \A f \in Event : seqOf[f] > 0 => seqOf'[f] > 0
      BY <1>20 DEF Crash, rows, stream, bounds, IntakeInv, IntakeTyped
  <2> QED
      BY <2>1, <1>0, CauseStays
<1>21. CASE UNCHANGED intakeVars
  <2>1. /\ faults <= faults' /\ repeats <= repeats' /\ halted' \subseteq halted
        /\ \A f \in Event : seqOf[f] > 0 => seqOf'[f] > 0
      BY <1>21 DEF intakeVars, rows, stream, bounds, IntakeInv, IntakeTyped
  <2> QED
      BY <2>1, <1>0, CauseStays
<1> QED
    BY <1>1, <1>2, <1>3, <1>4, <1>5, <1>6, <1>7, <1>8, <1>9, <1>10, <1>11, <1>12, <1>13,
       <1>14, <1>15, <1>16, <1>17, <1>18, <1>19, <1>20, <1>21 DEF IntakeNext, ActorStep,
       RelayStep

(* What can be counted.                                                    *)
LEMMA FlightCounts ==
  ASSUME IntakeTyped, NEW e \in Event
  PROVE  /\ Copies(buffer[ChatOf[e]], e) \in Nat /\ Copies(queue[ChatOf[e]], e) \in Nat
         /\ InFlight(e) \in Nat /\ One(e \in backlog) \in {0, 1}
         /\ \A w \in Window : Spent(ChatOf[e], w) \in Nat /\ admitted[w] <= Spent(ChatOf[e], w)
         /\ Spent(ChatOf[e], None) = 0
         /\ Reasons \in Nat
<1>1. ChatOf[e] \in Chat
    BY IntakeConstants
<1>2. buffer[ChatOf[e]] \in Seq(Event) /\ queue[ChatOf[e]] \in Seq(Event)
    BY <1>1 DEF IntakeTyped
<1>3. Copies(buffer[ChatOf[e]], e) \in Nat /\ Copies(queue[ChatOf[e]], e) \in Nat
    BY <1>2, CopiesNat
<1>4. InFlight(e) \in Nat /\ One(e \in backlog) \in {0, 1}
    BY <1>3 DEF InFlight, One
<1>5. Spent(ChatOf[e], None) = 0 /\ Reasons \in Nat
    BY DEF Spent, Reasons, IntakeTyped
<1>6. \A w \in Window : Spent(ChatOf[e], w) \in Nat /\ admitted[w] <= Spent(ChatOf[e], w)
    BY IntakeConstants DEF Spent, One, IntakeTyped
<1> QED
    BY <1>3, <1>4, <1>5, <1>6

LEMMA FlightKept ==
  ASSUME NEW e \in Event, buffer'[ChatOf[e]] = buffer[ChatOf[e]], queue'[ChatOf[e]] = queue[ChatOf[e]],
         UNCHANGED backlog
  PROVE  InFlight(e)' = InFlight(e)
BY DEF InFlight, One, Copies

LEMMA ReasonsNext == IntakeTyped' => Reasons' \in Nat
<1>1. ASSUME NEW k \in Nat, NEW m \in Nat, NEW n \in Nat PROVE k + m + n \in Nat
    OBVIOUS
<1> QED
    BY <1>1 DEF IntakeTyped, Reasons

LEMMA FlightNext ==
  ASSUME NEW e \in Event
  PROVE  InFlight(e)' = Copies(buffer'[ChatOf[e]], e) + Copies(queue'[ChatOf[e]], e) + One(e \in backlog')
BY DEF InFlight, One, Copies

LEMMA CopiesEmpty ==
  ASSUME NEW e
  PROVE  Copies(<<>>, e) = 0
<1>1. {i \in DOMAIN <<>> : <<>>[i] = e} = {}
    OBVIOUS
<1> QED
    BY <1>1, FS_EmptySet DEF Copies

LEMMA AffordStays ==
  ASSUME IntakeInv, IntakeTyped', NEW e \in Event, seqOf'[e] > 0, seqOf[e] > 0,
         windowOf'[e] = windowOf[e], Reasons <= Reasons', InFlight(e)' <= InFlight(e),
         InFlight(e)' \in Nat,
         windowOf[e] # None =>
           /\ admitted'[windowOf[e]] = admitted[windowOf[e]]
           /\ windowOf[e] \in todo' => windowOf[e] \in todo
           /\ Dispatching(ChatOf[e], windowOf[e])' => Dispatching(ChatOf[e], windowOf[e])
  PROVE  Afford(e)'
<1>0. IntakeTyped
    BY DEF IntakeInv
<1>1. windowOf[e] \in Window \cup {None} /\ Reasons \in Nat /\ Reasons' \in Nat /\ InFlight(e) \in Nat
  <2>1. InFlight(e) \in Nat
      BY <1>0, FlightCounts
  <2>2. windowOf[e] \in Window \cup {None} /\ Reasons \in Nat
      BY <1>0 DEF IntakeTyped, Reasons
  <2>4. Reasons' \in Nat
      BY ReasonsNext
  <2> QED
      BY <2>1, <2>2, <2>4
<1>2. Spent(ChatOf[e], windowOf[e]) + InFlight(e) <= 1 + Reasons
    BY DEF IntakeInv, Occasions, Affordable, Afford
<1>3. Spent(ChatOf[e], windowOf[e]) \in Nat
    BY <1>1, FlightCounts DEF IntakeInv
<1>4. Spent(ChatOf[e], windowOf[e])' \in Nat /\ Spent(ChatOf[e], windowOf[e])' <= Spent(ChatOf[e], windowOf[e])
  <2>1. CASE windowOf[e] = None
      BY <2>1 DEF Spent
  <2>2. CASE windowOf[e] # None
      BY <1>1, <2>2 DEF Spent, One, IntakeTyped, IntakeInv
  <2> QED
      BY <2>1, <2>2
<1> QED
    BY <1>1, <1>2, <1>3, <1>4 DEF Afford

LEMMA AdmittedBound ==
  ASSUME IntakeInv, NEW w \in Window
  PROVE  admitted[w] <= 1 + Reasons /\ admitted[w] \in Nat /\ Reasons \in Nat
<1>1. admitted[w] \in Nat /\ Reasons \in Nat
    BY DEF IntakeInv, IntakeTyped, Reasons
<1>2. CASE Contents(w) = {}
    BY <1>1, <1>2 DEF IntakeInv, Rows, Filled, InTurn
<1>3. CASE Contents(w) # {}
  <2>1. PICK e \in Event : windowOf[e] = w
      BY <1>3 DEF Contents
  <2>2. seqOf[e] > 0
      BY <2>1, IntakeConstants DEF IntakeInv, Rows, Numbered
  <2>3. Spent(ChatOf[e], w) + InFlight(e) <= 1 + Reasons
      BY <2>1, <2>2 DEF IntakeInv, Occasions, Affordable, Afford
  <2> QED
      BY <1>1, <2>3, FlightCounts DEF IntakeInv
<1> QED
    BY <1>1, <1>2, <1>3

(* No step wakes a Speaker without a reason.                               *)
LEMMA AffordStep == IntakeInv /\ [IntakeNext]_intakeVars => Affordable'
<1> SUFFICES ASSUME IntakeInv, [IntakeNext]_intakeVars PROVE Affordable'
    OBVIOUS
<1>0. IntakeTyped'
    BY TypedStep
<1>1. ASSUME NEW e \in Event, Deliver(e) PROVE Affordable'
  <2> SUFFICES ASSUME NEW x \in Event, seqOf'[x] > 0 PROVE Afford(x)'
      BY DEF Affordable, Afford
  <2>1. /\ Record(e) /\ UNCHANGED <<buffer, backlog, admitted, turn, todo, crashes, faults, repeats>>
        /\ queue' = (IF Listening /\ Accepts(e) THEN [queue EXCEPT ![ChatOf[e]] = Append(@, e)] ELSE queue)
      BY <1>1 DEF Deliver, stream, bounds
  <2>2. Reasons' = Reasons /\ Reasons \in Nat
      BY <2>1 DEF Reasons, IntakeInv, IntakeTyped
  <2>3. /\ windowOf' = windowOf /\ windowOf[e] = None /\ seqOf[e] = 0
        /\ \A f \in Event \ {e} : seqOf'[f] = seqOf[f]
      BY <2>1, Recorded
  <2>4. /\ ChatOf[x] \in Chat /\ buffer[ChatOf[x]] \in Seq(Event) /\ queue[ChatOf[x]] \in Seq(Event)
        /\ queue'[ChatOf[x]] \in Seq(Event) /\ buffer'[ChatOf[x]] \in Seq(Event)
      BY <1>0, IntakeConstants DEF IntakeInv, IntakeTyped
  <2>5. CASE x # e
    <3>1. Copies(queue'[ChatOf[x]], x) = Copies(queue[ChatOf[x]], x)
      <4>1. queue'[ChatOf[x]] \in {queue[ChatOf[x]], Append(queue[ChatOf[x]], e)}
          BY <2>1, <2>4 DEF IntakeInv, IntakeTyped
      <4>2. Copies(Append(queue[ChatOf[x]], e), x) = Copies(queue[ChatOf[x]], x)
        <5>1. Copies(Append(queue[ChatOf[x]], e), x) = Copies(queue[ChatOf[x]], x) + (IF e = x THEN 1 ELSE 0)
            BY <2>4, CopiesAppend
        <5>2. Copies(queue[ChatOf[x]], x) \in Nat
            BY <2>4, CopiesNat
        <5> QED
            BY <2>5, <5>1, <5>2
      <4> QED
          BY <4>1, <4>2
    <3>2. InFlight(x)' = InFlight(x) /\ InFlight(x) \in Nat
        BY <2>1, <3>1, FlightCounts DEF InFlight, One, Copies, IntakeInv
    <3> QED
        BY <1>0, <2>1, <2>2, <2>3, <2>5, <3>2, AffordStays DEF Dispatching
  <2>6. CASE x = e
    <3>1. e \notin Range(buffer[ChatOf[e]]) /\ e \notin Range(queue[ChatOf[e]]) /\ e \notin backlog
        BY <2>3, <2>4, <2>6 DEF IntakeInv, Placed, InBuffers, InQueues, Inboxed, Pending
    <3>2. Copies(buffer[ChatOf[e]], e) = 0 /\ Copies(queue[ChatOf[e]], e) = 0
        BY <2>4, <2>6, <3>1, CopiesAbsent
    <3>3. Copies(queue'[ChatOf[e]], e) \in {0, 1}
      <4>1. queue'[ChatOf[x]] \in {queue[ChatOf[x]], Append(queue[ChatOf[x]], e)}
          BY <2>1, <2>4 DEF IntakeInv, IntakeTyped
      <4>2. Copies(Append(queue[ChatOf[x]], e), e) = 1
          BY <2>4, <2>6, <3>2, CopiesAppend
      <4> QED
          BY <2>6, <3>2, <4>1, <4>2
    <3>4. InFlight(e)' \in {0, 1}
      <4>1. One(e \in backlog') = 0 /\ Copies(buffer'[ChatOf[e]], e) = 0
          BY <2>1, <3>1, <3>2 DEF One
      <4> QED
          BY <3>3, <4>1, FlightNext
    <3>5. Spent(ChatOf[e], windowOf[e])' = 0
        BY <2>3 DEF Spent
    <3> QED
        BY <2>2, <2>6, <3>4, <3>5 DEF Afford
  <2> QED
      BY <2>5, <2>6
<1>2. ASSUME NEW e \in Event, Redeliver(e) PROVE Affordable'
  <2> SUFFICES ASSUME NEW x \in Event, seqOf'[x] > 0 PROVE Afford(x)'
      BY DEF Affordable, Afford
  <2>1. /\ UNCHANGED <<seqOf, windowOf, buffer, backlog, admitted, turn, todo, crashes, faults>>
        /\ repeats' = repeats + 1 /\ e \in Pending
        /\ queue' \in {queue, [queue EXCEPT ![ChatOf[e]] = Append(@, e)]}
      BY <1>2 DEF Redeliver, rows
  <2>2. Reasons' = Reasons + 1 /\ Reasons \in Nat
      BY <2>1 DEF Reasons, IntakeInv, IntakeTyped
  <2>3. ChatOf[x] \in Chat /\ buffer[ChatOf[x]] \in Seq(Event) /\ queue[ChatOf[x]] \in Seq(Event)
      BY IntakeConstants DEF IntakeInv, IntakeTyped
  <2>4. queue'[ChatOf[x]] \in {queue[ChatOf[x]], Append(queue[ChatOf[x]], e)}
      BY <2>1, <2>3 DEF IntakeInv, IntakeTyped
  <2>5. Copies(Append(queue[ChatOf[x]], e), x) = Copies(queue[ChatOf[x]], x) + (IF e = x THEN 1 ELSE 0)
      BY <2>3, CopiesAppend
  <2>6. InFlight(x) \in Nat /\ Copies(buffer[ChatOf[x]], x) \in Nat /\ Copies(queue[ChatOf[x]], x) \in Nat
      BY FlightCounts DEF IntakeInv
  <2>7. InFlight(x)' \in Nat /\ InFlight(x)' <= InFlight(x) + (IF e = x THEN 1 ELSE 0)
    <3>1. InFlight(x)' = Copies(buffer[ChatOf[x]], x) + Copies(queue'[ChatOf[x]], x) + One(x \in backlog)
        BY <2>1, FlightNext
    <3>2. /\ Copies(queue'[ChatOf[x]], x) \in Nat
          /\ Copies(queue'[ChatOf[x]], x) <= Copies(queue[ChatOf[x]], x) + (IF e = x THEN 1 ELSE 0)
      <4>1. CASE queue'[ChatOf[x]] = queue[ChatOf[x]]
          BY <2>6, <4>1
      <4>2. CASE queue'[ChatOf[x]] = Append(queue[ChatOf[x]], e)
          BY <2>5, <2>6, <4>2
      <4> QED
          BY <2>4, <4>1, <4>2
    <3> QED
        BY <2>6, <3>1, <3>2 DEF InFlight, One
  <2>8. CASE x # e
      BY <1>0, <2>1, <2>2, <2>6, <2>7, <2>8, AffordStays DEF Dispatching
  <2>9. CASE x = e
    <3>1. windowOf[e] = None /\ seqOf[e] > 0
        BY <2>1 DEF Pending
    <3>2. InFlight(e) <= 1 + Reasons
        BY <2>6, <2>9, <3>1, FlightCounts DEF IntakeInv, Occasions, Affordable, Afford
    <3>3. Spent(ChatOf[e], windowOf[e])' = 0
        BY <2>1, <3>1 DEF Spent
    <3> QED
        BY <2>2, <2>6, <2>7, <2>9, <3>2, <3>3 DEF Afford
  <2> QED
      BY <2>8, <2>9
<1>3. ASSUME NEW e \in Event, SendMutation(e) PROVE Affordable'
  <2> SUFFICES ASSUME NEW x \in Event, seqOf'[x] > 0 PROVE Afford(x)'
      BY DEF Affordable, Afford
  <2>1. /\ Record(e) /\ UNCHANGED <<buffer, queue, backlog, admitted, turn, todo, crashes, faults, repeats>>
      BY <1>3 DEF SendMutation, stream, bounds
  <2>2. Reasons' = Reasons /\ Reasons \in Nat
      BY <2>1 DEF Reasons, IntakeInv, IntakeTyped
  <2>3. /\ windowOf' = windowOf /\ windowOf[e] = None /\ seqOf[e] = 0
        /\ \A f \in Event \ {e} : seqOf'[f] = seqOf[f]
      BY <2>1, Recorded
  <2>4. InFlight(x)' = InFlight(x) /\ InFlight(x) \in Nat
      BY <2>1, FlightKept, FlightCounts DEF IntakeInv
  <2>5. CASE x # e
      BY <1>0, <2>1, <2>2, <2>3, <2>4, <2>5, AffordStays DEF Dispatching
  <2>6. CASE x = e
    <3>1. ChatOf[e] \in Chat /\ buffer[ChatOf[e]] \in Seq(Event) /\ queue[ChatOf[e]] \in Seq(Event)
        BY IntakeConstants DEF IntakeInv, IntakeTyped
    <3>2. e \notin Range(buffer[ChatOf[e]]) /\ e \notin Range(queue[ChatOf[e]]) /\ e \notin backlog
        BY <2>3, <3>1 DEF IntakeInv, Placed, InBuffers, InQueues, Inboxed, Pending
    <3>3. InFlight(e) = 0
        BY <3>1, <3>2, CopiesAbsent DEF InFlight, One
    <3>4. Spent(ChatOf[e], windowOf[e])' = 0
        BY <2>3 DEF Spent
    <3> QED
        BY <2>2, <2>4, <2>6, <3>3, <3>4 DEF Afford
  <2> QED
      BY <2>5, <2>6
<1>4. ASSUME NEW S \in SUBSET Chat, Reload(S) PROVE Affordable'
  <2> SUFFICES ASSUME NEW x \in Event, seqOf'[x] > 0 PROVE Afford(x)'
      BY DEF Affordable, Afford
  <2>1. UNCHANGED <<seqOf, windowOf, buffer, queue, backlog, admitted, turn>> /\ todo' \subseteq todo
      BY <1>4 DEF Reload, rows, stream
  <2>2. InFlight(x)' = InFlight(x) /\ InFlight(x) \in Nat
      BY <2>1, FlightKept, FlightCounts DEF IntakeInv
  <2>3. Reasons <= Reasons'
      BY <1>4 DEF Reload, bounds, Reasons, IntakeInv, IntakeTyped
  <2> QED
      BY <1>0, <2>1, <2>2, <2>3, AffordStays DEF Dispatching
<1>5. CASE Start
  <2> SUFFICES ASSUME NEW x \in Event, seqOf'[x] > 0 PROVE Afford(x)'
      BY DEF Affordable, Afford
  <2>1. /\ mode = "booting" /\ UNCHANGED <<seqOf, windowOf, buffer, queue, admitted, turn, crashes, faults, repeats>>
        /\ backlog' = Pending
      BY <1>5 DEF Start, rows, bounds
  <2>2. ChatOf[x] \in Chat /\ buffer[ChatOf[x]] = <<>> /\ queue[ChatOf[x]] = <<>> /\ turn[ChatOf[x]] = Idle
      BY <2>1, IntakeConstants DEF IntakeInv, Placed, Quiet, Turns, AtRest
  <2>3. Copies(buffer'[ChatOf[x]], x) = 0 /\ Copies(queue'[ChatOf[x]], x) = 0
      BY <2>1, <2>2, CopiesEmpty
  <2>4. Reasons' = Reasons /\ Reasons \in Nat
      BY <2>1 DEF Reasons, IntakeInv, IntakeTyped
  <2>5. CASE windowOf[x] = None
    <3>1. InFlight(x)' \in {0, 1} /\ Spent(ChatOf[x], windowOf[x])' = 0
        BY <2>1, <2>3, <2>5, FlightNext DEF One, Spent
    <3> QED
        BY <2>4, <3>1 DEF Afford
  <2>6. CASE windowOf[x] # None
    <3>1. InFlight(x)' = 0
        BY <2>1, <2>3, <2>6, FlightNext DEF One, Pending
    <3>2. windowOf[x] \in Window /\ admitted[windowOf[x]] \in Nat /\ admitted[windowOf[x]] <= Reasons
        BY <2>1, <2>6 DEF IntakeInv, IntakeTyped, Occasions, FreshBoot
    <3>3. Spent(ChatOf[x], windowOf[x])' \in Nat /\ Spent(ChatOf[x], windowOf[x])' <= admitted[windowOf[x]] + 1
        BY <2>1, <2>2, <2>6, <3>2 DEF Spent, One, Dispatching, Idle
    <3> QED
        BY <2>4, <3>1, <3>2, <3>3 DEF Afford
  <2> QED
      BY <2>5, <2>6
<1>6. CASE StartFails
  <2> SUFFICES ASSUME NEW x \in Event, seqOf'[x] > 0 PROVE Afford(x)'
      BY DEF Affordable, Afford
  <2>1. UNCHANGED <<seqOf, windowOf, buffer, queue, backlog, admitted, turn>> /\ todo' \subseteq todo
      BY <1>6 DEF StartFails, rows, stream
  <2>2. InFlight(x)' = InFlight(x) /\ InFlight(x) \in Nat
      BY <2>1, FlightKept, FlightCounts DEF IntakeInv
  <2>3. Reasons <= Reasons'
      BY <1>6 DEF StartFails, bounds, Reasons, IntakeInv, IntakeTyped
  <2> QED
      BY <1>0, <2>1, <2>2, <2>3, AffordStays DEF Dispatching
<1>7. CASE Replayed
  <2> SUFFICES ASSUME NEW x \in Event, seqOf'[x] > 0 PROVE Afford(x)'
      BY DEF Affordable, Afford
  <2>1. UNCHANGED <<seqOf, windowOf, buffer, queue, backlog, admitted, turn>> /\ todo' \subseteq todo
      BY <1>7 DEF Replayed, rows, stream
  <2>2. InFlight(x)' = InFlight(x) /\ InFlight(x) \in Nat
      BY <2>1, FlightKept, FlightCounts DEF IntakeInv
  <2>3. Reasons <= Reasons'
      BY <1>7 DEF Replayed, bounds, Reasons, IntakeInv, IntakeTyped
  <2> QED
      BY <1>0, <2>1, <2>2, <2>3, AffordStays DEF Dispatching
<1>8. ASSUME NEW w \in Window, Replay(w) PROVE Affordable'
  <2> SUFFICES ASSUME NEW x \in Event, seqOf'[x] > 0 PROVE Afford(x)'
      BY DEF Affordable, Afford
  <2> DEFINE d == WindowChat(w)
  <2>1. /\ UNCHANGED <<seqOf, windowOf, buffer, queue, backlog, admitted, crashes, faults, repeats>>
        /\ w \in todo /\ todo' = todo \ {w} /\ turn[d] = Idle
        /\ turn' = [turn EXCEPT ![d] = Turn(w, 0, "dispatching")]
      BY <1>8 DEF Replay, rows, bounds
  <2>2. InFlight(x)' = InFlight(x) /\ InFlight(x) \in Nat
      BY <2>1, FlightKept, FlightCounts DEF IntakeInv
  <2>3. d \in Chat /\ Contents(w) \subseteq Of(d) /\ turn \in [Chat -> TurnState]
      BY <2>1, HomeOfTodo DEF IntakeInv, IntakeTyped
  <2>4. Reasons' = Reasons /\ Reasons \in Nat
      BY <2>1 DEF Reasons, IntakeInv, IntakeTyped
  <2> HIDE DEF d
  <2>5. CASE windowOf[x] # w
    <3>1. Dispatching(ChatOf[x], windowOf[x])' => Dispatching(ChatOf[x], windowOf[x])
        BY <2>1, <2>3, <2>5, IntakeConstants DEF Dispatching, Turn
    <3> QED
        BY <1>0, <2>1, <2>2, <2>4, <3>1, AffordStays
  <2>6. CASE windowOf[x] = w
    <3>1. ChatOf[x] = d /\ w # None /\ w \in Window /\ admitted[w] \in Nat
        BY <2>3, <2>6, IntakeConstants DEF Of, Contents, IntakeInv, IntakeTyped
    <3>2. Spent(d, w) = admitted[w] + 1
        BY <2>1, <3>1 DEF Spent, One, Dispatching, Idle
    <3>3. Spent(ChatOf[x], windowOf[x])' = admitted[w] + 1
        BY <2>1, <2>3, <2>6, <3>1 DEF Spent, One, Dispatching, Turn
    <3>4. Spent(d, w) + InFlight(x) <= 1 + Reasons
        BY <2>1, <2>6, <3>1 DEF IntakeInv, Occasions, Affordable, Afford
    <3> QED
        BY <2>2, <2>4, <3>1, <3>2, <3>3, <3>4 DEF Afford
  <2> QED
      BY <2>5, <2>6
<1>9. ASSUME NEW c \in Chat, NEW e \in Event, TakeBacklog(c, e) PROVE Affordable'
  <2> SUFFICES ASSUME NEW x \in Event, seqOf'[x] > 0 PROVE Afford(x)'
      BY DEF Affordable, Afford
  <2>1. /\ UNCHANGED <<seqOf, windowOf, queue, admitted, turn, todo, crashes, faults, repeats>>
        /\ e \in backlog /\ backlog' = backlog \ {e} /\ e \in Of(c)
        /\ buffer'[c] = Append(buffer[c], e) /\ \A y \in Chat \ {c} : buffer'[y] = buffer[y]
        /\ buffer[c] \in Seq(Event)
      BY <1>9, TakenBacklog DEF TakeBacklog, rows, bounds
  <2>2. Reasons' = Reasons /\ Reasons \in Nat
      BY <2>1 DEF Reasons, IntakeInv, IntakeTyped
  <2>3. /\ ChatOf[x] \in Chat /\ InFlight(x) \in Nat
        /\ Copies(buffer[ChatOf[x]], x) \in Nat /\ Copies(queue[ChatOf[x]], x) \in Nat
      BY FlightCounts, IntakeConstants DEF IntakeInv
  <2>4. InFlight(x)' = InFlight(x)
    <3>1. CASE x = e
      <4>1. ChatOf[x] = c /\ Copies(buffer'[c], x) = Copies(buffer[c], x) + 1
          BY <2>1, <3>1, CopiesAppend DEF Of
      <4>2. One(x \in backlog) = 1 /\ One(x \in backlog') = 0
          BY <2>1, <3>1 DEF One
      <4>3. InFlight(x)' = Copies(buffer'[c], x) + Copies(queue[c], x) + One(x \in backlog')
          BY <2>1, <4>1, FlightNext
      <4> QED
          BY <2>3, <4>1, <4>2, <4>3 DEF InFlight
    <3>2. CASE x # e
      <4>1. Copies(buffer'[ChatOf[x]], x) = Copies(buffer[ChatOf[x]], x)
        <5>1. CASE ChatOf[x] = c
          <6>1. Copies(Append(buffer[c], e), x) = Copies(buffer[c], x) + (IF e = x THEN 1 ELSE 0)
              BY <2>1, CopiesAppend
          <6>2. Copies(buffer[c], x) \in Nat
              BY <2>3, <5>1
          <6>3. Copies(Append(buffer[c], e), x) = Copies(buffer[c], x)
              BY <3>2, <6>1, <6>2
          <6> QED
              BY <2>1, <5>1, <6>3
        <5>2. CASE ChatOf[x] # c
            BY <2>1, <2>3, <5>2
        <5> QED
            BY <5>1, <5>2
      <4>2. One(x \in backlog') = One(x \in backlog)
          BY <2>1, <3>2 DEF One
      <4> QED
          BY <2>1, <4>1, <4>2, FlightNext DEF InFlight
    <3> QED
        BY <3>1, <3>2
  <2> QED
      BY <1>0, <2>1, <2>2, <2>3, <2>4, AffordStays DEF Dispatching
<1>10. ASSUME NEW c \in Chat, TakeLive(c) PROVE Affordable'
  <2> SUFFICES ASSUME NEW x \in Event, seqOf'[x] > 0 PROVE Afford(x)'
      BY DEF Affordable, Afford
  <2> DEFINE h == Head(queue[c])
  <2>1. /\ UNCHANGED <<seqOf, windowOf, backlog, admitted, turn, todo, crashes, faults, repeats>>
        /\ buffer'[c] = Append(buffer[c], h) /\ queue'[c] = Tail(queue[c]) /\ queue[c] # <<>>
        /\ \A y \in Chat \ {c} : buffer'[y] = buffer[y] /\ queue'[y] = queue[y]
        /\ buffer[c] \in Seq(Event) /\ queue[c] \in Seq(Event) /\ h \in Event
      BY <1>10, TakenLive DEF TakeLive, rows, stream, bounds
  <2>2. Reasons' = Reasons /\ Reasons \in Nat
      BY <2>1 DEF Reasons, IntakeInv, IntakeTyped
  <2>3. /\ ChatOf[x] \in Chat /\ InFlight(x) \in Nat
        /\ Copies(buffer[ChatOf[x]], x) \in Nat /\ Copies(queue[ChatOf[x]], x) \in Nat
      BY FlightCounts, IntakeConstants DEF IntakeInv
  <2>4. InFlight(x)' = InFlight(x)
    <3>1. CASE ChatOf[x] = c
      <4>1. Copies(Append(buffer[c], h), x) = Copies(buffer[c], x) + (IF h = x THEN 1 ELSE 0)
          BY <2>1, CopiesAppend
      <4>2. Copies(queue[c], x) = Copies(Tail(queue[c]), x) + (IF h = x THEN 1 ELSE 0)
          BY <2>1, CopiesTail
      <4>3. Copies(Tail(queue[c]), x) \in Nat
          BY <2>1, RangeTail, CopiesNat
      <4> HIDE DEF h
      <4>4. Copies(buffer'[c], x) + Copies(queue'[c], x) = Copies(buffer[c], x) + Copies(queue[c], x)
          BY <2>1, <2>3, <3>1, <4>1, <4>2, <4>3
      <4> QED
          BY <2>1, <2>3, <3>1, <4>4, FlightNext DEF InFlight, One
    <3>2. CASE ChatOf[x] # c
        BY <2>1, <2>3, <3>2, FlightKept
    <3> QED
        BY <3>1, <3>2
  <2> QED
      BY <1>0, <2>1, <2>2, <2>3, <2>4, AffordStays DEF Dispatching
<1>11. ASSUME NEW c \in Chat, NEW w \in Window, Cut(c, w) PROVE Affordable'
  <2> SUFFICES ASSUME NEW x \in Event, seqOf'[x] > 0 PROVE Afford(x)'
      BY DEF Affordable, Afford
  <2>1. /\ UNCHANGED <<seqOf, queue, backlog, admitted, todo, crashes, faults, repeats>>
        /\ buffer'[c] = <<>> /\ \A y \in Chat \ {c} : buffer'[y] = buffer[y]
        /\ turn'[c] = Turn(w, 0, "dispatching") /\ \A y \in Chat \ {c} : turn'[y] = turn[y]
        /\ Distinct(buffer[c])
      BY <1>11 DEF Cut, Creates, Fire, stream, bounds, IntakeInv, IntakeTyped
  <2>2. /\ Range(buffer[c]) \subseteq Pending \cap Of(c) /\ Contents(w) = {}
        /\ \A f \in Event : windowOf'[f] = IF f \in Range(buffer[c]) THEN w ELSE windowOf[f]
        /\ w \notin todo /\ admitted[w] = 0 /\ turn[c] = Idle
      BY <1>11, CutWindows
  <2>3. Reasons' = Reasons /\ Reasons \in Nat
      BY <2>1 DEF Reasons, IntakeInv, IntakeTyped
  <2>4. /\ ChatOf[x] \in Chat /\ InFlight(x) \in Nat
        /\ Copies(buffer[ChatOf[x]], x) \in Nat /\ Copies(queue[ChatOf[x]], x) \in Nat
      BY FlightCounts, IntakeConstants DEF IntakeInv
  <2>5. buffer[c] \in Seq(Event) /\ Copies(<<>>, x) = 0
      BY CopiesEmpty DEF IntakeInv, IntakeTyped
  <2>6. CASE x \in Range(buffer[c])
    <3>1. ChatOf[x] = c /\ windowOf[x] = None /\ seqOf[x] > 0
        BY <2>2, <2>6 DEF Pending, Of
    <3>2. Copies(buffer[c], x) = 1
        BY <2>1, <2>5, <2>6, CopiesDistinct
    <3>4. Spent(ChatOf[x], windowOf[x])' = 1
        BY <2>1, <2>2, <2>6, <3>1, IntakeConstants DEF Spent, One, Dispatching, Turn
    <3>5. InFlight(x) <= 1 + Reasons
        BY <2>4, <3>1, FlightCounts DEF IntakeInv, Occasions, Affordable, Afford
    <3>6. InFlight(x)' = InFlight(x) - 1
        BY <2>1, <2>4, <2>5, <3>1, <3>2, FlightNext DEF InFlight, One
    <3> QED
        BY <2>3, <2>4, <3>4, <3>5, <3>6 DEF Afford
  <2>7. CASE x \notin Range(buffer[c])
    <3>1. InFlight(x)' = InFlight(x)
      <4>1. CASE ChatOf[x] = c
          BY <2>1, <2>4, <2>5, <2>7, <4>1, CopiesAbsent, FlightNext DEF InFlight, One
      <4>2. CASE ChatOf[x] # c
          BY <2>1, <2>4, <4>2, FlightKept
      <4> QED
          BY <4>1, <4>2
    <3>2. windowOf'[x] = windowOf[x] /\ windowOf[x] # w
        BY <2>2, <2>7 DEF Contents
    <3>3. Dispatching(ChatOf[x], windowOf[x])' => Dispatching(ChatOf[x], windowOf[x])
        BY <2>1, <2>4, <3>2 DEF Dispatching, Turn
    <3> QED
        BY <1>0, <2>1, <2>3, <2>4, <3>1, <3>2, <3>3, AffordStays
  <2> QED
      BY <2>6, <2>7
<1>12. ASSUME NEW c \in Chat, NEW w \in Window, CutAgain(c, w) PROVE Affordable'
  <2> SUFFICES ASSUME NEW x \in Event, seqOf'[x] > 0 PROVE Afford(x)'
      BY DEF Affordable, Afford
  <2>1. /\ UNCHANGED <<seqOf, windowOf, queue, backlog, admitted, todo, crashes, faults, repeats>>
        /\ buffer'[c] = <<>> /\ \A y \in Chat \ {c} : buffer'[y] = buffer[y]
        /\ turn'[c] = Turn(w, 0, "dispatching") /\ \A y \in Chat \ {c} : turn'[y] = turn[y]
        /\ Distinct(buffer[c]) /\ Range(buffer[c]) = Contents(w) /\ turn[c] = Idle /\ mode = "streaming"
      BY <1>12 DEF CutAgain, ReadsAgain, Fire, Running, rows, stream, bounds, IntakeInv,
         IntakeTyped
  <2>2. todo = {} /\ Range(buffer[c]) \subseteq Of(c)
      BY <2>1 DEF IntakeInv, Turns, StillToDo, Placed, InBuffers, Inboxed
  <2>3. Reasons' = Reasons /\ Reasons \in Nat
      BY <2>1 DEF Reasons, IntakeInv, IntakeTyped
  <2>4. /\ ChatOf[x] \in Chat /\ InFlight(x) \in Nat
        /\ Copies(buffer[ChatOf[x]], x) \in Nat /\ Copies(queue[ChatOf[x]], x) \in Nat
      BY FlightCounts, IntakeConstants DEF IntakeInv
  <2>5. buffer[c] \in Seq(Event) /\ Copies(<<>>, x) = 0
      BY CopiesEmpty DEF IntakeInv, IntakeTyped
  <2>6. CASE windowOf[x] = w
    <3>1. x \in Range(buffer[c]) /\ ChatOf[x] = c /\ w # None /\ admitted[w] \in Nat
        BY <2>1, <2>2, <2>6, IntakeConstants DEF Contents, Of, IntakeInv, IntakeTyped
    <3>2. Copies(buffer[c], x) = 1
        BY <2>1, <2>5, <3>1, CopiesDistinct
    <3>3. InFlight(x)' = InFlight(x) - 1
        BY <2>1, <2>4, <2>5, <3>1, <3>2, FlightNext DEF InFlight, One
    <3>4. Spent(ChatOf[x], windowOf[x])' = admitted[w] + 1 /\ Spent(c, w) = admitted[w]
        BY <2>1, <2>2, <2>6, <3>1 DEF Spent, One, Dispatching, Turn, Idle
    <3>5. Spent(c, w) + InFlight(x) <= 1 + Reasons
        BY <2>1, <2>6, <3>1 DEF IntakeInv, Occasions, Affordable, Afford
    <3> QED
        BY <2>3, <2>4, <3>1, <3>3, <3>4, <3>5 DEF Afford
  <2>7. CASE windowOf[x] # w
    <3>1. x \notin Range(buffer[c])
        BY <2>1, <2>7 DEF Contents
    <3>2. InFlight(x)' = InFlight(x)
      <4>1. CASE ChatOf[x] = c
          BY <2>1, <2>4, <2>5, <3>1, <4>1, CopiesAbsent, FlightNext DEF InFlight, One
      <4>2. CASE ChatOf[x] # c
          BY <2>1, <2>4, <4>2, FlightKept
      <4> QED
          BY <4>1, <4>2
    <3>3. Dispatching(ChatOf[x], windowOf[x])' => Dispatching(ChatOf[x], windowOf[x])
        BY <2>1, <2>4, <2>7 DEF Dispatching, Turn
    <3> QED
        BY <1>0, <2>1, <2>3, <2>4, <3>2, <3>3, AffordStays
  <2> QED
      BY <2>6, <2>7
<1>13. ASSUME NEW c \in Chat, CutRefused(c) PROVE Affordable'
  <2> SUFFICES ASSUME NEW x \in Event, seqOf'[x] > 0 PROVE Afford(x)'
      BY DEF Affordable, Afford
  <2>1. UNCHANGED <<seqOf, windowOf, buffer, queue, backlog, admitted, turn>> /\ todo' \subseteq todo
      BY <1>13 DEF CutRefused, rows, stream
  <2>2. InFlight(x)' = InFlight(x) /\ InFlight(x) \in Nat
      BY <2>1, FlightKept, FlightCounts DEF IntakeInv
  <2>3. Reasons <= Reasons'
      BY <1>13 DEF CutRefused, bounds, Reasons, IntakeInv, IntakeTyped
  <2> QED
      BY <1>0, <2>1, <2>2, <2>3, AffordStays DEF Dispatching
<1>14. ASSUME NEW c \in Chat, CutFails(c) PROVE Affordable'
  <2> SUFFICES ASSUME NEW x \in Event, seqOf'[x] > 0 PROVE Afford(x)'
      BY DEF Affordable, Afford
  <2>1. UNCHANGED <<seqOf, windowOf, buffer, queue, backlog, admitted, turn>> /\ todo' \subseteq todo
      BY <1>14 DEF CutFails, rows, stream
  <2>2. InFlight(x)' = InFlight(x) /\ InFlight(x) \in Nat
      BY <2>1, FlightKept, FlightCounts DEF IntakeInv
  <2>3. Reasons <= Reasons'
      BY <1>14 DEF CutFails, bounds, Reasons, IntakeInv, IntakeTyped
  <2> QED
      BY <1>0, <2>1, <2>2, <2>3, AffordStays DEF Dispatching
<1>15. ASSUME NEW c \in Chat, Admit(c) PROVE Affordable'
  <2> SUFFICES ASSUME NEW x \in Event, seqOf'[x] > 0 PROVE Afford(x)'
      BY DEF Affordable, Afford
  <2> DEFINE w == turn[c].window
  <2>1. /\ UNCHANGED <<seqOf, windowOf, buffer, queue, backlog, todo>> /\ turn[c].at = "dispatching"
        /\ \E n \in {0, 1} : admitted' = [admitted EXCEPT ![w] = @ + n]
        /\ \A y \in Chat \ {c} : turn'[y] = turn[y]
        /\ turn'[c].window = w
      BY <1>15 DEF Admit, At, Step, Turn, ledgerRest, rows, stream, IntakeInv, IntakeTyped,
         TurnState
  <2>2. /\ w \in Window /\ Contents(w) \subseteq Of(c) /\ admitted \in [Window -> Nat]
        /\ windowOf[x] \in Window \cup {None} /\ ChatOf[x] \in Chat
      BY <2>1, IntakeConstants DEF IntakeInv, IntakeTyped, Turns, Engaged, EngagedWell
  <2>3. InFlight(x)' = InFlight(x) /\ InFlight(x) \in Nat
      BY <2>1, FlightKept, FlightCounts DEF IntakeInv
  <2>4. /\ Reasons \in Nat /\ Reasons' \in Nat /\ Reasons <= Reasons'
        /\ turn'[c].at = "dispatching" => Reasons' = Reasons + 1
        /\ turn'[c].at # "dispatching" => admitted'[w] <= admitted[w] + 1
        /\ turn'[c].at = "dispatching" => admitted'[w] <= admitted[w] + 1
      BY <1>15, <2>1, <2>2 DEF Admit, Step, ledgerRest, Reasons, IntakeInv, IntakeTyped
  <2> HIDE DEF w
  <2>5. CASE windowOf[x] # w
    <3>1. Dispatching(ChatOf[x], windowOf[x])' => Dispatching(ChatOf[x], windowOf[x])
        BY <2>1, <2>2, <2>5 DEF Dispatching
    <3>2. windowOf[x] # None => admitted'[windowOf[x]] = admitted[windowOf[x]]
        BY <2>1, <2>2, <2>5
    <3> QED
        BY <1>0, <2>1, <2>3, <2>4, <3>1, <3>2, AffordStays
  <2>6. CASE windowOf[x] = w
    <3>1. ChatOf[x] = c /\ w # None /\ admitted[w] \in Nat /\ admitted'[w] \in Nat
        BY <2>1, <2>2, <2>6, IntakeConstants DEF Of, Contents
    <3>2. Spent(c, w) = admitted[w] + One(w \in todo) + 1
        BY <2>1, <3>1 DEF Spent, One, Dispatching, w
    <3>3. Spent(ChatOf[x], windowOf[x])' = admitted'[w] + One(w \in todo) + One(turn'[c].at = "dispatching")
        BY <2>1, <2>6, <3>1 DEF Spent, One, Dispatching
    <3>4. Spent(c, w) + InFlight(x) <= 1 + Reasons
        BY <2>1, <2>6, <3>1 DEF IntakeInv, Occasions, Affordable, Afford
    <3> QED
        BY <2>3, <2>4, <3>1, <3>2, <3>3, <3>4 DEF Afford, One
  <2> QED
      BY <2>5, <2>6
<1>16. ASSUME NEW c \in Chat, DispatchThrows(c) PROVE Affordable'
  <2> SUFFICES ASSUME NEW x \in Event, seqOf'[x] > 0 PROVE Afford(x)'
      BY DEF Affordable, Afford
  <2> DEFINE w == turn[c].window
  <2>1. /\ UNCHANGED <<seqOf, windowOf, buffer, queue, backlog, todo>> /\ turn[c].at = "dispatching"
        /\ \E n \in {0, 1} : admitted' = [admitted EXCEPT ![w] = @ + n]
        /\ \A y \in Chat \ {c} : turn'[y] = turn[y]
        /\ turn'[c].window = w
      BY <1>16 DEF DispatchThrows, At, Step, Turn, ledgerRest, rows, stream, IntakeInv,
         IntakeTyped, TurnState
  <2>2. /\ w \in Window /\ Contents(w) \subseteq Of(c) /\ admitted \in [Window -> Nat]
        /\ windowOf[x] \in Window \cup {None} /\ ChatOf[x] \in Chat
      BY <2>1, IntakeConstants DEF IntakeInv, IntakeTyped, Turns, Engaged, EngagedWell
  <2>3. InFlight(x)' = InFlight(x) /\ InFlight(x) \in Nat
      BY <2>1, FlightKept, FlightCounts DEF IntakeInv
  <2>4. /\ Reasons \in Nat /\ Reasons' \in Nat /\ Reasons <= Reasons'
        /\ turn'[c].at = "dispatching" => Reasons' = Reasons + 1
        /\ turn'[c].at # "dispatching" => admitted'[w] <= admitted[w] + 1
        /\ turn'[c].at = "dispatching" => admitted'[w] <= admitted[w] + 1
      BY <1>16, <2>1, <2>2 DEF DispatchThrows, Step, ledgerRest, Reasons, IntakeInv, IntakeTyped
  <2> HIDE DEF w
  <2>5. CASE windowOf[x] # w
    <3>1. Dispatching(ChatOf[x], windowOf[x])' => Dispatching(ChatOf[x], windowOf[x])
        BY <2>1, <2>2, <2>5 DEF Dispatching
    <3>2. windowOf[x] # None => admitted'[windowOf[x]] = admitted[windowOf[x]]
        BY <2>1, <2>2, <2>5
    <3> QED
        BY <1>0, <2>1, <2>3, <2>4, <3>1, <3>2, AffordStays
  <2>6. CASE windowOf[x] = w
    <3>1. ChatOf[x] = c /\ w # None /\ admitted[w] \in Nat /\ admitted'[w] \in Nat
        BY <2>1, <2>2, <2>6, IntakeConstants DEF Of, Contents
    <3>2. Spent(c, w) = admitted[w] + One(w \in todo) + 1
        BY <2>1, <3>1 DEF Spent, One, Dispatching, w
    <3>3. Spent(ChatOf[x], windowOf[x])' = admitted'[w] + One(w \in todo) + One(turn'[c].at = "dispatching")
        BY <2>1, <2>6, <3>1 DEF Spent, One, Dispatching
    <3>4. Spent(c, w) + InFlight(x) <= 1 + Reasons
        BY <2>1, <2>6, <3>1 DEF IntakeInv, Occasions, Affordable, Afford
    <3> QED
        BY <2>3, <2>4, <3>1, <3>2, <3>3, <3>4 DEF Afford, One
  <2> QED
      BY <2>5, <2>6
<1>17. ASSUME NEW c \in Chat, MarkDone(c) PROVE Affordable'
  <2> SUFFICES ASSUME NEW x \in Event, seqOf'[x] > 0 PROVE Afford(x)'
      BY DEF Affordable, Afford
  <2>1. /\ UNCHANGED <<seqOf, windowOf, buffer, queue, backlog, admitted, todo>>
        /\ turn' = [turn EXCEPT ![c] = Idle]
      BY <1>17 DEF MarkDone, Settle, Step, ledgerRest, rows, stream
  <2>2. InFlight(x)' = InFlight(x) /\ InFlight(x) \in Nat
      BY <2>1, FlightKept, FlightCounts DEF IntakeInv
  <2>3. Reasons <= Reasons'
      BY <1>17 DEF MarkDone, Settle, ledgerRest, bounds, Reasons, IntakeInv, IntakeTyped
  <2>4. \A d \in Chat, w \in Window : Dispatching(d, w)' => Dispatching(d, w)
      BY <2>1 DEF Dispatching, Idle, IntakeInv, IntakeTyped
  <2>5. ChatOf[x] \in Chat /\ windowOf[x] \in Window \cup {None}
      BY IntakeConstants DEF IntakeInv, IntakeTyped
  <2> QED
      BY <1>0, <2>1, <2>2, <2>3, <2>4, <2>5, AffordStays
<1>18. ASSUME NEW c \in Chat, MarkFailed(c) PROVE Affordable'
  <2> SUFFICES ASSUME NEW x \in Event, seqOf'[x] > 0 PROVE Afford(x)'
      BY DEF Affordable, Afford
  <2>1. /\ UNCHANGED <<seqOf, windowOf, buffer, queue, backlog, admitted, todo>>
        /\ turn' = [turn EXCEPT ![c] = Idle]
      BY <1>18 DEF MarkFailed, Settle, Step, ledgerRest, rows, stream
  <2>2. InFlight(x)' = InFlight(x) /\ InFlight(x) \in Nat
      BY <2>1, FlightKept, FlightCounts DEF IntakeInv
  <2>3. Reasons <= Reasons'
      BY <1>18 DEF MarkFailed, Settle, ledgerRest, bounds, Reasons, IntakeInv, IntakeTyped
  <2>4. \A d \in Chat, w \in Window : Dispatching(d, w)' => Dispatching(d, w)
      BY <2>1 DEF Dispatching, Idle, IntakeInv, IntakeTyped
  <2>5. ChatOf[x] \in Chat /\ windowOf[x] \in Window \cup {None}
      BY IntakeConstants DEF IntakeInv, IntakeTyped
  <2> QED
      BY <1>0, <2>1, <2>2, <2>3, <2>4, <2>5, AffordStays
<1>19. ASSUME NEW c \in Chat, LedgerFails(c) PROVE Affordable'
  <2> SUFFICES ASSUME NEW x \in Event, seqOf'[x] > 0 PROVE Afford(x)'
      BY DEF Affordable, Afford
  <2>1. /\ UNCHANGED <<seqOf, windowOf, buffer, queue, backlog, admitted, todo>>
        /\ turn' = [turn EXCEPT ![c] = Idle]
      BY <1>19 DEF LedgerFails, Step, ledgerRest, rows, stream
  <2>2. InFlight(x)' = InFlight(x) /\ InFlight(x) \in Nat
      BY <2>1, FlightKept, FlightCounts DEF IntakeInv
  <2>3. Reasons <= Reasons'
      BY <1>19 DEF LedgerFails, ledgerRest, bounds, Reasons, IntakeInv, IntakeTyped
  <2>4. \A d \in Chat, w \in Window : Dispatching(d, w)' => Dispatching(d, w)
      BY <2>1 DEF Dispatching, Idle, IntakeInv, IntakeTyped
  <2>5. ChatOf[x] \in Chat /\ windowOf[x] \in Window \cup {None}
      BY IntakeConstants DEF IntakeInv, IntakeTyped
  <2> QED
      BY <1>0, <2>1, <2>2, <2>3, <2>4, <2>5, AffordStays
<1>20. CASE Crash
  <2> SUFFICES ASSUME NEW x \in Event, seqOf'[x] > 0 PROVE Afford(x)'
      BY DEF Affordable, Afford
  <2>1. /\ UNCHANGED <<seqOf, windowOf, admitted, faults, repeats>> /\ crashes' = crashes + 1
        /\ backlog' = {} /\ todo' = {} /\ \A y \in Chat : buffer'[y] = <<>> /\ queue'[y] = <<>> /\ turn'[y] = Idle
      BY <1>20 DEF Crash, rows
  <2>2. ChatOf[x] \in Chat /\ windowOf[x] \in Window \cup {None}
      BY IntakeConstants DEF IntakeInv, IntakeTyped
  <2>3. InFlight(x)' = 0
      BY <2>1, <2>2, CopiesEmpty, FlightNext DEF One
  <2>4. Reasons' = Reasons + 1 /\ Reasons \in Nat
    <3>1. crashes \in Nat /\ faults \in Nat /\ repeats \in Nat
        BY DEF IntakeInv, IntakeTyped
    <3> QED
        BY <2>1, <3>1 DEF Reasons
  <2>5. Spent(ChatOf[x], windowOf[x])' = IF windowOf[x] = None THEN 0 ELSE admitted[windowOf[x]]
      BY <2>1, <2>2 DEF Spent, One, Dispatching, Idle, IntakeInv, IntakeTyped
  <2>6. windowOf[x] # None => admitted[windowOf[x]] \in Nat /\ admitted[windowOf[x]] <= 1 + Reasons
      BY <2>2, AdmittedBound
  <2> QED
      BY <2>3, <2>4, <2>5, <2>6 DEF Afford
<1>21. CASE UNCHANGED intakeVars
  <2> SUFFICES ASSUME NEW x \in Event, seqOf'[x] > 0 PROVE Afford(x)'
      BY DEF Affordable, Afford
  <2>1. UNCHANGED <<seqOf, windowOf, buffer, queue, backlog, admitted, turn>> /\ todo' \subseteq todo
      BY <1>21 DEF intakeVars, rows, stream
  <2>2. InFlight(x)' = InFlight(x) /\ InFlight(x) \in Nat
      BY <2>1, FlightKept, FlightCounts DEF IntakeInv
  <2>3. Reasons <= Reasons'
      BY <1>21 DEF intakeVars, bounds, Reasons, IntakeInv, IntakeTyped
  <2> QED
      BY <1>0, <2>1, <2>2, <2>3, AffordStays DEF Dispatching
<1> QED
    BY <1>1, <1>2, <1>3, <1>4, <1>5, <1>6, <1>7, <1>8, <1>9, <1>10, <1>11, <1>12, <1>13,
       <1>14, <1>15, <1>16, <1>17, <1>18, <1>19, <1>20, <1>21 DEF IntakeNext, ActorStep,
       RelayStep

(* A Window is of one chat, and what was heard stays heard.                *)
LEMMA OneHome ==
  ASSUME IntakeInv, NEW w \in Window, NEW c \in Chats(w), NEW d \in Chats(w)
  PROVE  c = d /\ c \in Chat /\ status[w] # "absent" /\ WindowChat(w) = c
<1>1. PICK e \in Event : windowOf[e] = w /\ ChatOf[e] = c
    BY DEF Chats, Contents
<1>2. PICK f \in Event : windowOf[f] = w /\ ChatOf[f] = d
    BY DEF Chats, Contents
<1>3. w # None /\ c \in Chat
    BY <1>1, IntakeConstants
<1>4. c = d
    BY <1>1, <1>2, <1>3 DEF IntakeInv, Rows, OneChat
<1>5. Contents(w) # {}
    BY <1>1 DEF Contents
<1>6. status[w] # "absent"
    BY <1>5 DEF IntakeInv, Rows, Filled
<1>7. \A x \in Chat : (\E y \in Contents(w) : ChatOf[y] = x) <=> x = c
    BY <1>1, <1>3 DEF IntakeInv, Rows, OneChat, Contents
<1>8. WindowChat(w) = c
    BY <1>3, <1>7 DEF WindowChat
<1> QED
    BY <1>3, <1>4, <1>6, <1>8

LEMMA OrderKept ==
  ASSUME InOrder, UNCHANGED <<windowOf, admitted, status, unsettled, turn, todo>>,
         mode' = mode \/ mode' \in {"booting", "stopped"}
  PROVE  InOrder'
BY DEF InOrder, AdmittedInOrder, EngagedInOrder, Awaited, Heard, Chats, Contents

LEMMA ChatsKept == ASSUME UNCHANGED windowOf, NEW w PROVE Chats(w)' = Chats(w)
BY DEF Chats, Contents

(* A chat whose actor runs has nothing left but what was heard.            *)
LEMMA AllHeard ==
  ASSUME IntakeInv, mode = "streaming", NEW c \in Chat, turn[c] = Idle,
         NEW w \in Window, c \in Chats(w)
  PROVE  Heard(w)
<1>1. todo = {} /\ turn[c].window # w
    BY IntakeConstants DEF IntakeInv, Turns, StillToDo, Idle
<1> QED
    BY <1>1 DEF IntakeInv, InOrder, Awaited

(* A chat is heard in order.                                               *)
LEMMA OrderStep == IntakeInv /\ [IntakeNext]_intakeVars => InOrder'
<1> SUFFICES ASSUME IntakeInv, [IntakeNext]_intakeVars PROVE InOrder'
    OBVIOUS
<1>1. ASSUME NEW e \in Event, Deliver(e) PROVE InOrder'
  <2>1. /\ UNCHANGED <<windowOf, admitted, status, unsettled, turn, todo>>
        /\ mode' = mode \/ mode' \in {"booting", "stopped"}
      BY <1>1 DEF Deliver, Record, rows, stream
  <2> QED
      BY <2>1, OrderKept DEF IntakeInv
<1>2. ASSUME NEW e \in Event, Redeliver(e) PROVE InOrder'
  <2>1. /\ UNCHANGED <<windowOf, admitted, status, unsettled, turn, todo>>
        /\ mode' = mode \/ mode' \in {"booting", "stopped"}
      BY <1>2 DEF Redeliver, Record, rows, stream
  <2> QED
      BY <2>1, OrderKept DEF IntakeInv
<1>3. ASSUME NEW e \in Event, SendMutation(e) PROVE InOrder'
  <2>1. /\ UNCHANGED <<windowOf, admitted, status, unsettled, turn, todo>>
        /\ mode' = mode \/ mode' \in {"booting", "stopped"}
      BY <1>3 DEF SendMutation, Record, rows, stream
  <2> QED
      BY <2>1, OrderKept DEF IntakeInv
<1>4. ASSUME NEW S \in SUBSET Chat, Reload(S) PROVE InOrder'
  <2>1. /\ UNCHANGED <<windowOf, admitted, status, unsettled, turn, todo>>
        /\ mode' = mode \/ mode' \in {"booting", "stopped"}
      BY <1>4 DEF Reload, Record, rows, stream
  <2> QED
      BY <2>1, OrderKept DEF IntakeInv
<1>5. CASE Start
  <2>1. /\ mode = "booting" /\ UNCHANGED <<windowOf, admitted, status, unsettled, turn>>
        /\ todo' = {w \in Window : status[w] = "pending"}
      BY <1>5 DEF Start, rows
  <2>2. ASSUME NEW w \in Window PROVE Heard(w)' = Heard(w) /\ Chats(w)' = Chats(w)
      BY <2>1, ChatsKept DEF Heard
  <2>3. ASSUME NEW w \in Window, NEW c \in Chats(w) PROVE Heard(w) \/ w \in todo'
    <3>1. status[w] \in {"pending", "done", "failed"}
        BY OneHome DEF IntakeInv, IntakeTyped
    <3>2. status[w] = "done" => admitted[w] > 0
        BY DEF IntakeInv, Occasions, DoneWasHeard
    <3> QED
        BY <2>1, <3>1, <3>2 DEF Heard
  <2>4. AdmittedInOrder' /\ EngagedInOrder'
      BY <2>1, <2>2 DEF IntakeInv, InOrder, AdmittedInOrder, EngagedInOrder
  <2>5. Awaited'
      BY <2>2, <2>3 DEF Awaited
  <2> QED
      BY <2>4, <2>5 DEF InOrder
<1>6. CASE StartFails
  <2>1. /\ UNCHANGED <<windowOf, admitted, status, unsettled, turn, todo>>
        /\ mode' = mode \/ mode' \in {"booting", "stopped"}
      BY <1>6 DEF StartFails, Record, rows, stream
  <2> QED
      BY <2>1, OrderKept DEF IntakeInv
<1>7. CASE Replayed
  <2>1. /\ mode = "replaying" /\ UNCHANGED <<windowOf, admitted, status, unsettled, turn, todo>>
        /\ todo = {} /\ \A c \in Chat : turn[c] = Idle
      BY <1>7 DEF Replayed, rows
  <2>2. ASSUME NEW w \in Window PROVE Heard(w)' = Heard(w) /\ Chats(w)' = Chats(w)
      BY <2>1, ChatsKept DEF Heard
  <2>3. ASSUME NEW w \in Window, NEW c \in Chats(w) PROVE Heard(w)
    <3>1. turn[c].window # w
        BY <2>1, OneHome, IntakeConstants DEF Idle
    <3> QED
        BY <2>1, <3>1 DEF IntakeInv, InOrder, Awaited
  <2>4. AdmittedInOrder' /\ EngagedInOrder'
      BY <2>1, <2>2 DEF IntakeInv, InOrder, AdmittedInOrder, EngagedInOrder
  <2>5. Awaited'
      BY <2>2, <2>3 DEF Awaited
  <2> QED
      BY <2>4, <2>5 DEF InOrder
<1>8. ASSUME NEW w \in Window, Replay(w) PROVE InOrder'
  <2> DEFINE d == WindowChat(w)
  <2>1. /\ UNCHANGED <<windowOf, admitted, status, unsettled, mode>>
        /\ mode = "replaying" /\ w \in todo /\ todo' = todo \ {w} /\ turn[d] = Idle
        /\ \A v \in todo : WindowChat(v) = d => w <= v
        /\ turn' = [turn EXCEPT ![d] = Turn(w, 0, "dispatching")]
      BY <1>8 DEF Replay, rows
  <2>2. turn'[d].window = w /\ d \in Chat /\ \A y \in Chat \ {d} : turn'[y] = turn[y]
      BY <2>1, HomeOfTodo DEF Turn, IntakeInv, IntakeTyped
  <2>3. ASSUME NEW v \in Window PROVE Heard(v)' = Heard(v) /\ Chats(v)' = Chats(v)
      BY <2>1, ChatsKept DEF Heard
  <2>4. ASSUME NEW v \in Window, v < w, d \in Chats(v) PROVE Heard(v)
    <3>1. v \notin todo
        BY <2>1, <2>4, OneHome, IntakeConstants
    <3>2. turn[d].window # v
        BY <2>1, IntakeConstants DEF Idle
    <3> QED
        BY <2>1, <2>4, <3>1, <3>2 DEF IntakeInv, InOrder, Awaited
  <2>5. AdmittedInOrder'
      BY <2>1, <2>3 DEF IntakeInv, InOrder, AdmittedInOrder
  <2>6. EngagedInOrder'
    <3> SUFFICES ASSUME NEW u \in Window, NEW v \in Window, NEW y \in Chats(u) \cap Chats(v),
                        u < v, turn'[y].window = v
                 PROVE  Heard(u)
        BY <2>3 DEF EngagedInOrder
    <3>1. CASE y = d
        BY <2>2, <2>4, <3>1
    <3>2. CASE y # d
      <4>1. turn[y].window = v
          BY <2>2, <3>2, OneHome
      <4> QED
          BY <4>1 DEF IntakeInv, InOrder, EngagedInOrder
    <3> QED
        BY <3>1, <3>2
  <2>7. Awaited'
    <3> SUFFICES ASSUME NEW v \in Window, NEW y \in Chats(v)
                 PROVE  Heard(v) \/ v \in todo' \/ turn'[y].window = v
        BY <2>3 DEF Awaited
    <3>1. CASE v = w
        BY <2>2, <3>1, OneHome
    <3>2. CASE v # w
      <4>1. turn[y].window = v => turn'[y].window = v
          BY <2>1, <2>2, OneHome, IntakeConstants DEF Idle
      <4>2. v \in todo => v \in todo'
          BY <2>1, <3>2
      <4> QED
          BY <2>1, <4>1, <4>2 DEF IntakeInv, InOrder, Awaited
    <3> QED
        BY <3>1, <3>2
  <2> QED
      BY <2>5, <2>6, <2>7 DEF InOrder
<1>9. ASSUME NEW c \in Chat, NEW e \in Event, TakeBacklog(c, e) PROVE InOrder'
  <2>1. /\ UNCHANGED <<windowOf, admitted, status, unsettled, turn, todo>>
        /\ mode' = mode \/ mode' \in {"booting", "stopped"}
      BY <1>9 DEF TakeBacklog, Record, rows, stream
  <2> QED
      BY <2>1, OrderKept DEF IntakeInv
<1>10. ASSUME NEW c \in Chat, TakeLive(c) PROVE InOrder'
  <2>1. /\ UNCHANGED <<windowOf, admitted, status, unsettled, turn, todo>>
        /\ mode' = mode \/ mode' \in {"booting", "stopped"}
      BY <1>10 DEF TakeLive, Record, rows, stream
  <2> QED
      BY <2>1, OrderKept DEF IntakeInv
<1>11. ASSUME NEW c \in Chat, NEW w \in Window, Cut(c, w) PROVE InOrder'
  <2>1. /\ UNCHANGED <<admitted, unsettled, mode, todo>> /\ mode = "streaming" /\ turn[c] = Idle
        /\ status[w] = "absent" /\ status' = [status EXCEPT ![w] = "pending"]
        /\ turn'[c].window = w /\ \A y \in Chat \ {c} : turn'[y] = turn[y]
      BY <1>11 DEF Cut, Fire, Running, Turn, stream, bounds, IntakeInv, IntakeTyped
  <2>2. /\ Range(buffer[c]) \subseteq Pending \cap Of(c) /\ Contents(w) = {} /\ admitted[w] = 0
        /\ \A f \in Event : windowOf'[f] = IF f \in Range(buffer[c]) THEN w ELSE windowOf[f]
      BY <1>11, CutWindows
  <2>3. ASSUME NEW v \in Window \ {w} PROVE Chats(v)' = Chats(v) /\ (Heard(v) => Heard(v)')
    <3>1. Contents(v)' = Contents(v)
        BY <2>2, <2>3, IntakeConstants DEF Contents, Pending
    <3>2. Heard(v) => Heard(v)'
        BY <2>1, <2>3 DEF Heard, IntakeInv, IntakeTyped
    <3> QED
        BY <3>1, <3>2 DEF Chats
  <2>4. Chats(w)' \subseteq {c}
      BY <2>2, IntakeConstants DEF Chats, Contents, Of
  <2>5. ASSUME NEW v \in Window, NEW y \in Chats(v) PROVE v < w /\ y \in Chat
    <3>1. status[v] # "absent" /\ y \in Chat
        BY <2>5, OneHome
    <3>2. v \in Nat /\ w \in Nat /\ v # w /\ ~ (w < v)
        BY <2>1, <3>1, IntakeConstants DEF IntakeInv, Rows, InTurn
    <3> QED
        BY <3>1, <3>2
  <2>6. ASSUME NEW v \in Window \ {w}, c \in Chats(v)' PROVE Heard(v)'
    <3>1. Heard(v)
        BY <2>1, <2>3, <2>6, AllHeard
    <3> QED
        BY <2>3, <2>6, <3>1
  <2>7. \A v \in Window : v < v => FALSE
      BY IntakeConstants
  <2>8. AdmittedInOrder'
    <3> SUFFICES ASSUME NEW u \in Window, NEW v \in Window, NEW y \in Chats(u)' \cap Chats(v)',
                        u < v, admitted[v] > 0
                 PROVE  Heard(u)'
        BY <2>1 DEF AdmittedInOrder
    <3>1. v # w
        BY <2>2, IntakeConstants
    <3>2. v < w /\ u # w
        BY <2>3, <2>5, <3>1, IntakeConstants
    <3> QED
        BY <2>3, <3>1, <3>2 DEF IntakeInv, InOrder, AdmittedInOrder
  <2>9. EngagedInOrder'
    <3> SUFFICES ASSUME NEW u \in Window, NEW v \in Window, NEW y \in Chats(u)' \cap Chats(v)',
                        u < v, turn'[y].window = v
                 PROVE  Heard(u)'
        BY DEF EngagedInOrder
    <3>1. u # w
      <4>1. CASE v = w
          BY <4>1, <2>7
      <4>2. CASE v # w
          BY <2>3, <2>5, <4>2, IntakeConstants
      <4> QED
          BY <4>1, <4>2
    <3>2. CASE y = c
        BY <2>6, <3>1, <3>2
    <3>3. CASE y # c
      <4>1. v # w /\ y \in Chats(u) \cap Chats(v)
          BY <2>3, <2>4, <3>1, <3>3
      <4>2. turn[y].window = v
          BY <2>1, <2>5, <3>3, <4>1
      <4>3. Heard(u)
          BY <4>1, <4>2 DEF IntakeInv, InOrder, EngagedInOrder
      <4> QED
          BY <2>3, <3>1, <4>3
    <3> QED
        BY <3>2, <3>3
  <2>10. Awaited'
    <3> SUFFICES ASSUME NEW v \in Window, NEW y \in Chats(v)'
                 PROVE  Heard(v)' \/ v \in todo' \/ turn'[y].window = v
        BY DEF Awaited
    <3>1. CASE v = w
        BY <2>1, <2>4, <3>1
    <3>2. CASE v # w /\ y = c
        BY <2>6, <3>2
    <3>3. CASE v # w /\ y # c
      <4>1. y \in Chats(v) /\ turn'[y] = turn[y]
          BY <2>1, <2>3, <2>5, <3>3
      <4>2. Heard(v) \/ v \in todo \/ turn[y].window = v
          BY <2>1, <4>1 DEF IntakeInv, InOrder, Awaited
      <4> QED
          BY <2>1, <2>3, <3>3, <4>1, <4>2
    <3> QED
        BY <3>1, <3>2, <3>3
  <2> QED
      BY <2>8, <2>9, <2>10 DEF InOrder
<1>12. ASSUME NEW c \in Chat, NEW w \in Window, CutAgain(c, w) PROVE InOrder'
  <2>1. /\ UNCHANGED <<windowOf, status, admitted, unsettled, mode, todo>>
        /\ mode = "streaming" /\ turn[c] = Idle
        /\ turn'[c].window = w /\ \A y \in Chat \ {c} : turn'[y] = turn[y]
      BY <1>12 DEF CutAgain, Fire, Running, Turn, rows, stream, IntakeInv, IntakeTyped
  <2>2. ASSUME NEW v \in Window PROVE Heard(v)' = Heard(v) /\ Chats(v)' = Chats(v)
      BY <2>1, ChatsKept DEF Heard
  <2>3. ASSUME NEW v \in Window, c \in Chats(v) PROVE Heard(v)
      BY <2>1, <2>3, AllHeard
  <2>4. AdmittedInOrder'
      BY <2>1, <2>2 DEF IntakeInv, InOrder, AdmittedInOrder
  <2>5. EngagedInOrder'
    <3> SUFFICES ASSUME NEW u \in Window, NEW v \in Window, NEW y \in Chats(u) \cap Chats(v),
                        u < v, turn'[y].window = v
                 PROVE  Heard(u)
        BY <2>2 DEF EngagedInOrder
    <3>1. CASE y = c
        BY <2>3, <3>1
    <3>2. CASE y # c
      <4>1. turn[y].window = v
          BY <2>1, <3>2, OneHome
      <4> QED
          BY <4>1 DEF IntakeInv, InOrder, EngagedInOrder
    <3> QED
        BY <3>1, <3>2
  <2>6. Awaited'
    <3> SUFFICES ASSUME NEW v \in Window, NEW y \in Chats(v)
                 PROVE  Heard(v) \/ v \in todo \/ turn'[y].window = v
        BY <2>1, <2>2 DEF Awaited
    <3>1. y = c \/ turn'[y] = turn[y]
        BY <2>1, OneHome
    <3> QED
        BY <2>1, <2>3, <3>1 DEF IntakeInv, InOrder, Awaited
  <2> QED
      BY <2>4, <2>5, <2>6 DEF InOrder
<1>13. ASSUME NEW c \in Chat, CutRefused(c) PROVE InOrder'
  <2>1. /\ UNCHANGED <<windowOf, admitted, status, unsettled, turn, todo>>
        /\ mode' = mode \/ mode' \in {"booting", "stopped"}
      BY <1>13 DEF CutRefused, Record, rows, stream
  <2> QED
      BY <2>1, OrderKept DEF IntakeInv
<1>14. ASSUME NEW c \in Chat, CutFails(c) PROVE InOrder'
  <2>1. /\ UNCHANGED <<windowOf, admitted, status, unsettled, turn, todo>>
        /\ mode' = mode \/ mode' \in {"booting", "stopped"}
      BY <1>14 DEF CutFails, Record, rows, stream
  <2> QED
      BY <2>1, OrderKept DEF IntakeInv
<1>15. ASSUME NEW c \in Chat, Admit(c) PROVE InOrder'
  <2> DEFINE w == turn[c].window
  <2>1. /\ UNCHANGED <<windowOf, status, unsettled, mode, todo>> /\ turn[c].at = "dispatching"
        /\ \E n \in {0, 1} : admitted' = [admitted EXCEPT ![w] = @ + n]
        /\ \A y \in Chat : turn'[y].window = turn[y].window
      BY <1>15 DEF Admit, At, Step, Turn, ledgerRest, rows, stream, IntakeInv, IntakeTyped,
         TurnState
  <2>2. w \in Window /\ Contents(w) # {} /\ Contents(w) \subseteq Of(c) /\ admitted \in [Window -> Nat]
      BY <2>1 DEF IntakeInv, IntakeTyped, Turns, Engaged, EngagedWell
  <2> HIDE DEF w
  <2>3. ASSUME NEW v \in Window
        PROVE  /\ Chats(v)' = Chats(v) /\ (Heard(v) => Heard(v)')
               /\ v # w => admitted'[v] = admitted[v]
    <3>1. v # w => admitted'[v] = admitted[v]
        BY <2>1, <2>2
    <3>2. admitted[v] > 0 => admitted'[v] > 0
        BY <2>1, <2>2
    <3> QED
        BY <2>1, <3>1, <3>2, ChatsKept DEF Heard
  <2>4. ASSUME NEW y \in Chats(w) PROVE y = c
      BY <2>2 DEF Chats, Of
  <2>5. AdmittedInOrder'
    <3> SUFFICES ASSUME NEW u \in Window, NEW v \in Window, NEW y \in Chats(u) \cap Chats(v),
                        u < v, admitted'[v] > 0
                 PROVE  Heard(u)
        BY <2>3 DEF AdmittedInOrder
    <3>1. CASE v = w
        BY <2>4, <3>1 DEF IntakeInv, InOrder, EngagedInOrder, w
    <3>2. CASE v # w
        BY <2>3, <3>2 DEF IntakeInv, InOrder, AdmittedInOrder
    <3> QED
        BY <3>1, <3>2
  <2>6. ASSUME NEW v \in Window, NEW y \in Chats(v)' PROVE turn'[y].window = turn[y].window
      BY <2>1, <2>3, <2>6, OneHome
  <2>7. EngagedInOrder'
      BY <2>3, <2>6 DEF IntakeInv, InOrder, EngagedInOrder
  <2>8. Awaited'
      BY <2>1, <2>3, <2>6 DEF IntakeInv, InOrder, Awaited
  <2> QED
      BY <2>5, <2>7, <2>8 DEF InOrder
<1>16. ASSUME NEW c \in Chat, DispatchThrows(c) PROVE InOrder'
  <2> DEFINE w == turn[c].window
  <2>1. /\ UNCHANGED <<windowOf, status, unsettled, mode, todo>> /\ turn[c].at = "dispatching"
        /\ \E n \in {0, 1} : admitted' = [admitted EXCEPT ![w] = @ + n]
        /\ \A y \in Chat : turn'[y].window = turn[y].window
      BY <1>16 DEF DispatchThrows, At, Step, Turn, ledgerRest, rows, stream, IntakeInv,
         IntakeTyped, TurnState
  <2>2. w \in Window /\ Contents(w) # {} /\ Contents(w) \subseteq Of(c) /\ admitted \in [Window -> Nat]
      BY <2>1 DEF IntakeInv, IntakeTyped, Turns, Engaged, EngagedWell
  <2> HIDE DEF w
  <2>3. ASSUME NEW v \in Window
        PROVE  /\ Chats(v)' = Chats(v) /\ (Heard(v) => Heard(v)')
               /\ v # w => admitted'[v] = admitted[v]
    <3>1. v # w => admitted'[v] = admitted[v]
        BY <2>1, <2>2
    <3>2. admitted[v] > 0 => admitted'[v] > 0
        BY <2>1, <2>2
    <3> QED
        BY <2>1, <3>1, <3>2, ChatsKept DEF Heard
  <2>4. ASSUME NEW y \in Chats(w) PROVE y = c
      BY <2>2 DEF Chats, Of
  <2>5. AdmittedInOrder'
    <3> SUFFICES ASSUME NEW u \in Window, NEW v \in Window, NEW y \in Chats(u) \cap Chats(v),
                        u < v, admitted'[v] > 0
                 PROVE  Heard(u)
        BY <2>3 DEF AdmittedInOrder
    <3>1. CASE v = w
        BY <2>4, <3>1 DEF IntakeInv, InOrder, EngagedInOrder, w
    <3>2. CASE v # w
        BY <2>3, <3>2 DEF IntakeInv, InOrder, AdmittedInOrder
    <3> QED
        BY <3>1, <3>2
  <2>6. ASSUME NEW v \in Window, NEW y \in Chats(v)' PROVE turn'[y].window = turn[y].window
      BY <2>1, <2>3, <2>6, OneHome
  <2>7. EngagedInOrder'
      BY <2>3, <2>6 DEF IntakeInv, InOrder, EngagedInOrder
  <2>8. Awaited'
      BY <2>1, <2>3, <2>6 DEF IntakeInv, InOrder, Awaited
  <2> QED
      BY <2>5, <2>7, <2>8 DEF InOrder
<1>17. ASSUME NEW c \in Chat, MarkDone(c) PROVE InOrder'
  <2>1. /\ UNCHANGED <<windowOf, admitted, mode, todo>> /\ turn[c].at # "idle"
        /\ turn'[c] = Idle /\ \A y \in Chat \ {c} : turn'[y] = turn[y]
      BY <1>17 DEF MarkDone, Settle, At, Step, ledgerRest, rows, stream, IntakeInv, IntakeTyped
  <2>2. PICK w \in Window : /\ w = turn[c].window /\ status[w] # "absent"
                           /\ Contents(w) \subseteq Of(c)
      BY <2>1 DEF IntakeInv, Rows, Filled, Turns, Engaged, EngagedWell
  <2>3. Heard(w)'
      BY <1>17, <2>2 DEF MarkDone, Settle, At, Heard, IntakeInv, Turns, Engaged, EngagedWell
  <2>4. ASSUME NEW v \in Window PROVE Chats(v)' = Chats(v) /\ (Heard(v) => Heard(v)')
    <3>1. (status[v] = "failed" => status'[v] = "failed") /\ unsettled \subseteq unsettled'
        BY <1>17, <2>2 DEF MarkDone, Settle, IntakeInv, IntakeTyped
    <3> QED
        BY <2>1, <3>1, ChatsKept DEF Heard
  <2>5. AdmittedInOrder'
      BY <2>1, <2>4 DEF IntakeInv, InOrder, AdmittedInOrder
  <2>6. ASSUME NEW v \in Window, NEW y \in Chats(v)'
        PROVE  /\ turn'[y].window = v => turn[y].window = v
               /\ turn[y].window = v => turn'[y].window = v \/ v = w
      BY <2>1, <2>2, <2>4, <2>6, OneHome, IntakeConstants DEF Idle
  <2>7. EngagedInOrder'
      BY <2>4, <2>6 DEF IntakeInv, InOrder, EngagedInOrder
  <2>8. Awaited'
    <3> SUFFICES ASSUME NEW v \in Window, NEW y \in Chats(v)'
                 PROVE  Heard(v)' \/ v \in todo' \/ turn'[y].window = v \/ mode' \in {"booting", "stopped"}
        BY DEF Awaited
    <3>1. Heard(v) \/ v \in todo \/ turn[y].window = v \/ mode \in {"booting", "stopped"}
        BY <2>4 DEF IntakeInv, InOrder, Awaited
    <3> QED
        BY <2>1, <2>3, <2>4, <2>6, <3>1
  <2> QED
      BY <2>5, <2>7, <2>8 DEF InOrder
<1>18. ASSUME NEW c \in Chat, MarkFailed(c) PROVE InOrder'
  <2>1. /\ UNCHANGED <<windowOf, admitted, mode, todo>> /\ turn[c].at # "idle"
        /\ turn'[c] = Idle /\ \A y \in Chat \ {c} : turn'[y] = turn[y]
      BY <1>18 DEF MarkFailed, Settle, At, Step, ledgerRest, rows, stream, IntakeInv, IntakeTyped
  <2>2. PICK w \in Window : /\ w = turn[c].window /\ status[w] # "absent"
                           /\ Contents(w) \subseteq Of(c)
      BY <2>1 DEF IntakeInv, Rows, Filled, Turns, Engaged, EngagedWell
  <2>3. Heard(w)'
      BY <1>18, <2>2 DEF MarkFailed, Settle, At, Heard, IntakeInv, IntakeTyped, Occasions,
         DoneWasHeard
  <2>4. ASSUME NEW v \in Window PROVE Chats(v)' = Chats(v) /\ (Heard(v) => Heard(v)')
    <3>1. (status[v] = "failed" => status'[v] = "failed") /\ unsettled \subseteq unsettled'
        BY <1>18, <2>2 DEF MarkFailed, Settle, IntakeInv, IntakeTyped
    <3> QED
        BY <2>1, <3>1, ChatsKept DEF Heard
  <2>5. AdmittedInOrder'
      BY <2>1, <2>4 DEF IntakeInv, InOrder, AdmittedInOrder
  <2>6. ASSUME NEW v \in Window, NEW y \in Chats(v)'
        PROVE  /\ turn'[y].window = v => turn[y].window = v
               /\ turn[y].window = v => turn'[y].window = v \/ v = w
      BY <2>1, <2>2, <2>4, <2>6, OneHome, IntakeConstants DEF Idle
  <2>7. EngagedInOrder'
      BY <2>4, <2>6 DEF IntakeInv, InOrder, EngagedInOrder
  <2>8. Awaited'
    <3> SUFFICES ASSUME NEW v \in Window, NEW y \in Chats(v)'
                 PROVE  Heard(v)' \/ v \in todo' \/ turn'[y].window = v \/ mode' \in {"booting", "stopped"}
        BY DEF Awaited
    <3>1. Heard(v) \/ v \in todo \/ turn[y].window = v \/ mode \in {"booting", "stopped"}
        BY <2>4 DEF IntakeInv, InOrder, Awaited
    <3> QED
        BY <2>1, <2>3, <2>4, <2>6, <3>1
  <2> QED
      BY <2>5, <2>7, <2>8 DEF InOrder
<1>19. ASSUME NEW c \in Chat, LedgerFails(c) PROVE InOrder'
  <2>1. /\ UNCHANGED <<windowOf, admitted, mode, todo>> /\ turn[c].at # "idle"
        /\ turn'[c] = Idle /\ \A y \in Chat \ {c} : turn'[y] = turn[y]
      BY <1>19 DEF LedgerFails, At, Step, ledgerRest, rows, stream, IntakeInv, IntakeTyped
  <2>2. PICK w \in Window : /\ w = turn[c].window /\ status[w] # "absent"
                           /\ Contents(w) \subseteq Of(c)
      BY <2>1 DEF IntakeInv, Rows, Filled, Turns, Engaged, EngagedWell
  <2>3. Heard(w)'
      BY <1>19, <2>2 DEF LedgerFails, Heard
  <2>4. ASSUME NEW v \in Window PROVE Chats(v)' = Chats(v) /\ (Heard(v) => Heard(v)')
    <3>1. (status[v] = "failed" => status'[v] = "failed") /\ unsettled \subseteq unsettled'
        BY <1>19, <2>2 DEF LedgerFails, IntakeInv, IntakeTyped
    <3> QED
        BY <2>1, <3>1, ChatsKept DEF Heard
  <2>5. AdmittedInOrder'
      BY <2>1, <2>4 DEF IntakeInv, InOrder, AdmittedInOrder
  <2>6. ASSUME NEW v \in Window, NEW y \in Chats(v)'
        PROVE  /\ turn'[y].window = v => turn[y].window = v
               /\ turn[y].window = v => turn'[y].window = v \/ v = w
      BY <2>1, <2>2, <2>4, <2>6, OneHome, IntakeConstants DEF Idle
  <2>7. EngagedInOrder'
      BY <2>4, <2>6 DEF IntakeInv, InOrder, EngagedInOrder
  <2>8. Awaited'
    <3> SUFFICES ASSUME NEW v \in Window, NEW y \in Chats(v)'
                 PROVE  Heard(v)' \/ v \in todo' \/ turn'[y].window = v \/ mode' \in {"booting", "stopped"}
        BY DEF Awaited
    <3>1. Heard(v) \/ v \in todo \/ turn[y].window = v \/ mode \in {"booting", "stopped"}
        BY <2>4 DEF IntakeInv, InOrder, Awaited
    <3> QED
        BY <2>1, <2>3, <2>4, <2>6, <3>1
  <2> QED
      BY <2>5, <2>7, <2>8 DEF InOrder
<1>20. CASE Crash
  <2>1. /\ UNCHANGED <<windowOf, admitted, status, unsettled>> /\ mode' = "booting"
        /\ \A y \in Chat : turn'[y] = Idle
      BY <1>20 DEF Crash, rows
  <2>2. ASSUME NEW v \in Window PROVE Heard(v)' = Heard(v) /\ Chats(v)' = Chats(v)
      BY <2>1, ChatsKept DEF Heard
  <2>3. ASSUME NEW v \in Window, NEW y \in Chats(v) PROVE turn'[y].window # v
      BY <2>1, OneHome, IntakeConstants DEF Idle
  <2>4. AdmittedInOrder'
      BY <2>1, <2>2 DEF IntakeInv, InOrder, AdmittedInOrder
  <2>5. EngagedInOrder'
      BY <2>2, <2>3 DEF EngagedInOrder
  <2>6. Awaited'
      BY <2>1 DEF Awaited
  <2> QED
      BY <2>4, <2>5, <2>6 DEF InOrder
<1>21. CASE UNCHANGED intakeVars
  <2>1. /\ UNCHANGED <<windowOf, admitted, status, unsettled, turn, todo>>
        /\ mode' = mode \/ mode' \in {"booting", "stopped"}
      BY <1>21 DEF intakeVars, bounds, rows, stream
  <2> QED
      BY <2>1, OrderKept DEF IntakeInv
<1> QED
    BY <1>1, <1>2, <1>3, <1>4, <1>5, <1>6, <1>7, <1>8, <1>9, <1>10, <1>11, <1>12, <1>13,
       <1>14, <1>15, <1>16, <1>17, <1>18, <1>19, <1>20, <1>21 DEF IntakeNext, ActorStep,
       RelayStep

LEMMA FreshKept ==
  ASSUME IntakeInv, IntakeTyped', Reasons <= Reasons',
         mode' = "booting" => mode = "booting" /\ UNCHANGED admitted
  PROVE  FreshBoot'
<1> SUFFICES ASSUME mode' = "booting", NEW w \in Window PROVE admitted'[w] <= Reasons'
    BY DEF FreshBoot
<1>1. admitted'[w] = admitted[w] /\ admitted[w] <= Reasons
    BY DEF IntakeInv, Occasions, FreshBoot
<1>2. admitted[w] \in Nat /\ Reasons \in Nat /\ Reasons' \in Nat
    BY AdmittedBound, ReasonsNext
<1> QED
    BY <1>1, <1>2

(* A new process has its own occasion left.                                *)
LEMMA FreshStep == IntakeInv /\ [IntakeNext]_intakeVars => FreshBoot'
<1> SUFFICES ASSUME IntakeInv, [IntakeNext]_intakeVars PROVE FreshBoot'
    OBVIOUS
<1>0. IntakeTyped'
    BY TypedStep
<1>1. ASSUME NEW e \in Event, Deliver(e) PROVE FreshBoot'
  <2>1. mode' = "booting" => mode = "booting" /\ UNCHANGED admitted
      BY <1>1 DEF Deliver, Record, rows, stream
  <2>2. Reasons <= Reasons'
      BY <1>1 DEF Deliver, Record, bounds, Reasons, IntakeInv, IntakeTyped
  <2> QED
      BY <1>0, <2>1, <2>2, FreshKept
<1>2. ASSUME NEW e \in Event, Redeliver(e) PROVE FreshBoot'
  <2>1. mode' = "booting" => mode = "booting" /\ UNCHANGED admitted
      BY <1>2 DEF Redeliver, rows, stream
  <2>2. Reasons <= Reasons'
      BY <1>2 DEF Redeliver, bounds, Reasons, IntakeInv, IntakeTyped
  <2> QED
      BY <1>0, <2>1, <2>2, FreshKept
<1>3. ASSUME NEW e \in Event, SendMutation(e) PROVE FreshBoot'
  <2>1. mode' = "booting" => mode = "booting" /\ UNCHANGED admitted
      BY <1>3 DEF SendMutation, Record, rows, stream
  <2>2. Reasons <= Reasons'
      BY <1>3 DEF SendMutation, Record, bounds, Reasons, IntakeInv, IntakeTyped
  <2> QED
      BY <1>0, <2>1, <2>2, FreshKept
<1>4. ASSUME NEW S \in SUBSET Chat, Reload(S) PROVE FreshBoot'
  <2>1. mode' = "booting" => mode = "booting" /\ UNCHANGED admitted
      BY <1>4 DEF Reload, rows, stream
  <2>2. Reasons <= Reasons'
      BY <1>4 DEF Reload, bounds, Reasons, IntakeInv, IntakeTyped
  <2> QED
      BY <1>0, <2>1, <2>2, FreshKept
<1>5. CASE Start
  <2>1. mode' = "booting" => mode = "booting" /\ UNCHANGED admitted
      BY <1>5 DEF Start, rows, stream
  <2>2. Reasons <= Reasons'
      BY <1>5 DEF Start, bounds, Reasons, IntakeInv, IntakeTyped
  <2> QED
      BY <1>0, <2>1, <2>2, FreshKept
<1>6. CASE StartFails
  <2>1. mode' = "booting" => mode = "booting" /\ UNCHANGED admitted
      BY <1>6 DEF StartFails, rows, stream
  <2>2. Reasons <= Reasons'
      BY <1>6 DEF StartFails, bounds, Reasons, IntakeInv, IntakeTyped
  <2> QED
      BY <1>0, <2>1, <2>2, FreshKept
<1>7. CASE Replayed
  <2>1. mode' = "booting" => mode = "booting" /\ UNCHANGED admitted
      BY <1>7 DEF Replayed, rows, stream
  <2>2. Reasons <= Reasons'
      BY <1>7 DEF Replayed, bounds, Reasons, IntakeInv, IntakeTyped
  <2> QED
      BY <1>0, <2>1, <2>2, FreshKept
<1>8. ASSUME NEW w \in Window, Replay(w) PROVE FreshBoot'
  <2>1. mode' = "booting" => mode = "booting" /\ UNCHANGED admitted
      BY <1>8 DEF Replay, rows, stream
  <2>2. Reasons <= Reasons'
      BY <1>8 DEF Replay, bounds, Reasons, IntakeInv, IntakeTyped
  <2> QED
      BY <1>0, <2>1, <2>2, FreshKept
<1>9. ASSUME NEW c \in Chat, NEW e \in Event, TakeBacklog(c, e) PROVE FreshBoot'
  <2>1. mode' = "booting" => mode = "booting" /\ UNCHANGED admitted
      BY <1>9 DEF TakeBacklog, rows, stream
  <2>2. Reasons <= Reasons'
      BY <1>9 DEF TakeBacklog, bounds, Reasons, IntakeInv, IntakeTyped
  <2> QED
      BY <1>0, <2>1, <2>2, FreshKept
<1>10. ASSUME NEW c \in Chat, TakeLive(c) PROVE FreshBoot'
  <2>1. mode' = "booting" => mode = "booting" /\ UNCHANGED admitted
      BY <1>10 DEF TakeLive, rows, stream
  <2>2. Reasons <= Reasons'
      BY <1>10 DEF TakeLive, bounds, Reasons, IntakeInv, IntakeTyped
  <2> QED
      BY <1>0, <2>1, <2>2, FreshKept
<1>11. ASSUME NEW c \in Chat, NEW w \in Window, Cut(c, w) PROVE FreshBoot'
  <2>1. mode' = "booting" => mode = "booting" /\ UNCHANGED admitted
      BY <1>11 DEF Cut, rows, stream
  <2>2. Reasons <= Reasons'
      BY <1>11 DEF Cut, bounds, Reasons, IntakeInv, IntakeTyped
  <2> QED
      BY <1>0, <2>1, <2>2, FreshKept
<1>12. ASSUME NEW c \in Chat, NEW w \in Window, CutAgain(c, w) PROVE FreshBoot'
  <2>1. mode' = "booting" => mode = "booting" /\ UNCHANGED admitted
      BY <1>12 DEF CutAgain, rows, stream
  <2>2. Reasons <= Reasons'
      BY <1>12 DEF CutAgain, bounds, Reasons, IntakeInv, IntakeTyped
  <2> QED
      BY <1>0, <2>1, <2>2, FreshKept
<1>13. ASSUME NEW c \in Chat, CutRefused(c) PROVE FreshBoot'
  <2>1. mode' = "booting" => mode = "booting" /\ UNCHANGED admitted
      BY <1>13 DEF CutRefused, rows, stream
  <2>2. Reasons <= Reasons'
      BY <1>13 DEF CutRefused, bounds, Reasons, IntakeInv, IntakeTyped
  <2> QED
      BY <1>0, <2>1, <2>2, FreshKept
<1>14. ASSUME NEW c \in Chat, CutFails(c) PROVE FreshBoot'
  <2>1. mode' = "booting" => mode = "booting" /\ UNCHANGED admitted
      BY <1>14 DEF CutFails, rows, stream
  <2>2. Reasons <= Reasons'
      BY <1>14 DEF CutFails, bounds, Reasons, IntakeInv, IntakeTyped
  <2> QED
      BY <1>0, <2>1, <2>2, FreshKept
<1>15. ASSUME NEW c \in Chat, Admit(c) PROVE FreshBoot'
  <2>1. mode' = "booting" => mode = "booting" /\ UNCHANGED admitted
      BY <1>15, BusyTurn DEF Admit, ledgerRest, At, rows, stream
  <2>2. Reasons <= Reasons'
      BY <1>15 DEF Admit, ledgerRest, At, bounds, Reasons, IntakeInv, IntakeTyped
  <2> QED
      BY <1>0, <2>1, <2>2, FreshKept
<1>16. ASSUME NEW c \in Chat, DispatchThrows(c) PROVE FreshBoot'
  <2>1. mode' = "booting" => mode = "booting" /\ UNCHANGED admitted
      BY <1>16, BusyTurn DEF DispatchThrows, ledgerRest, At, rows, stream
  <2>2. Reasons <= Reasons'
      BY <1>16 DEF DispatchThrows, ledgerRest, At, bounds, Reasons, IntakeInv, IntakeTyped
  <2> QED
      BY <1>0, <2>1, <2>2, FreshKept
<1>17. ASSUME NEW c \in Chat, MarkDone(c) PROVE FreshBoot'
  <2>1. mode' = "booting" => mode = "booting" /\ UNCHANGED admitted
      BY <1>17, BusyTurn DEF MarkDone, Settle, ledgerRest, At, rows, stream
  <2>2. Reasons <= Reasons'
      BY <1>17 DEF MarkDone, Settle, ledgerRest, At, bounds, Reasons, IntakeInv, IntakeTyped
  <2> QED
      BY <1>0, <2>1, <2>2, FreshKept
<1>18. ASSUME NEW c \in Chat, MarkFailed(c) PROVE FreshBoot'
  <2>1. mode' = "booting" => mode = "booting" /\ UNCHANGED admitted
      BY <1>18, BusyTurn DEF MarkFailed, Settle, ledgerRest, At, rows, stream
  <2>2. Reasons <= Reasons'
      BY <1>18 DEF MarkFailed, Settle, ledgerRest, At, bounds, Reasons, IntakeInv, IntakeTyped
  <2> QED
      BY <1>0, <2>1, <2>2, FreshKept
<1>19. ASSUME NEW c \in Chat, LedgerFails(c) PROVE FreshBoot'
  <2>1. mode' = "booting" => mode = "booting" /\ UNCHANGED admitted
      BY <1>19, BusyTurn DEF LedgerFails, ledgerRest, At, rows, stream
  <2>2. Reasons <= Reasons'
      BY <1>19 DEF LedgerFails, ledgerRest, At, bounds, Reasons, IntakeInv, IntakeTyped
  <2> QED
      BY <1>0, <2>1, <2>2, FreshKept
<1>20. CASE Crash
  <2>1. UNCHANGED <<admitted, faults, repeats>> /\ crashes' = crashes + 1
      BY <1>20 DEF Crash
  <2>2. crashes \in Nat /\ faults \in Nat /\ repeats \in Nat
      BY DEF IntakeInv, IntakeTyped
  <2>3. Reasons' = 1 + Reasons
      BY <2>1, <2>2 DEF Reasons
  <2> QED
      BY <2>1, <2>3, AdmittedBound DEF FreshBoot
<1>21. CASE UNCHANGED intakeVars
  <2>1. mode' = "booting" => mode = "booting" /\ UNCHANGED admitted
      BY <1>21 DEF intakeVars, bounds, rows, stream
  <2>2. Reasons <= Reasons'
      BY <1>21 DEF intakeVars, bounds, bounds, Reasons, IntakeInv, IntakeTyped
  <2> QED
      BY <1>0, <2>1, <2>2, FreshKept
<1> QED
    BY <1>1, <1>2, <1>3, <1>4, <1>5, <1>6, <1>7, <1>8, <1>9, <1>10, <1>11, <1>12, <1>13,
       <1>14, <1>15, <1>16, <1>17, <1>18, <1>19, <1>20, <1>21 DEF IntakeNext, ActorStep,
       RelayStep

(* A Window is done only after Flue admitted it.                           *)
LEMMA DoneStep == IntakeInv /\ [IntakeNext]_intakeVars => DoneWasHeard'
<1> SUFFICES ASSUME IntakeInv, [IntakeNext]_intakeVars PROVE DoneWasHeard'
    OBVIOUS
<1>1. ASSUME NEW e \in Event, Deliver(e) PROVE DoneWasHeard'
  <2>1. UNCHANGED <<status, admitted>>
      BY <1>1 DEF Deliver, Record, rows, stream
  <2> QED
      BY <2>1 DEF DoneWasHeard, IntakeInv, Occasions
<1>2. ASSUME NEW e \in Event, Redeliver(e) PROVE DoneWasHeard'
  <2>1. UNCHANGED <<status, admitted>>
      BY <1>2 DEF Redeliver, rows, stream
  <2> QED
      BY <2>1 DEF DoneWasHeard, IntakeInv, Occasions
<1>3. ASSUME NEW e \in Event, SendMutation(e) PROVE DoneWasHeard'
  <2>1. UNCHANGED <<status, admitted>>
      BY <1>3 DEF SendMutation, Record, rows, stream
  <2> QED
      BY <2>1 DEF DoneWasHeard, IntakeInv, Occasions
<1>4. ASSUME NEW S \in SUBSET Chat, Reload(S) PROVE DoneWasHeard'
  <2>1. UNCHANGED <<status, admitted>>
      BY <1>4 DEF Reload, rows, stream
  <2> QED
      BY <2>1 DEF DoneWasHeard, IntakeInv, Occasions
<1>5. CASE Start
  <2>1. UNCHANGED <<status, admitted>>
      BY <1>5 DEF Start, rows, stream
  <2> QED
      BY <2>1 DEF DoneWasHeard, IntakeInv, Occasions
<1>6. CASE StartFails
  <2>1. UNCHANGED <<status, admitted>>
      BY <1>6 DEF StartFails, rows, stream
  <2> QED
      BY <2>1 DEF DoneWasHeard, IntakeInv, Occasions
<1>7. CASE Replayed
  <2>1. UNCHANGED <<status, admitted>>
      BY <1>7 DEF Replayed, rows, stream
  <2> QED
      BY <2>1 DEF DoneWasHeard, IntakeInv, Occasions
<1>8. ASSUME NEW w \in Window, Replay(w) PROVE DoneWasHeard'
  <2>1. UNCHANGED <<status, admitted>>
      BY <1>8 DEF Replay, rows, stream
  <2> QED
      BY <2>1 DEF DoneWasHeard, IntakeInv, Occasions
<1>9. ASSUME NEW c \in Chat, NEW e \in Event, TakeBacklog(c, e) PROVE DoneWasHeard'
  <2>1. UNCHANGED <<status, admitted>>
      BY <1>9 DEF TakeBacklog, rows, stream
  <2> QED
      BY <2>1 DEF DoneWasHeard, IntakeInv, Occasions
<1>10. ASSUME NEW c \in Chat, TakeLive(c) PROVE DoneWasHeard'
  <2>1. UNCHANGED <<status, admitted>>
      BY <1>10 DEF TakeLive, rows, stream
  <2> QED
      BY <2>1 DEF DoneWasHeard, IntakeInv, Occasions
<1>11. ASSUME NEW c \in Chat, NEW w \in Window, Cut(c, w) PROVE DoneWasHeard'
  <2>1. UNCHANGED admitted /\ status' = [status EXCEPT ![w] = "pending"] /\ status \in [Window -> {"absent", "pending", "done", "failed"}]
      BY <1>11 DEF Cut, IntakeInv, IntakeTyped
  <2> QED
      BY <2>1 DEF DoneWasHeard, IntakeInv, Occasions
<1>12. ASSUME NEW c \in Chat, NEW w \in Window, CutAgain(c, w) PROVE DoneWasHeard'
  <2>1. UNCHANGED <<status, admitted>>
      BY <1>12 DEF CutAgain, rows, stream
  <2> QED
      BY <2>1 DEF DoneWasHeard, IntakeInv, Occasions
<1>13. ASSUME NEW c \in Chat, CutRefused(c) PROVE DoneWasHeard'
  <2>1. UNCHANGED <<status, admitted>>
      BY <1>13 DEF CutRefused, rows, stream
  <2> QED
      BY <2>1 DEF DoneWasHeard, IntakeInv, Occasions
<1>14. ASSUME NEW c \in Chat, CutFails(c) PROVE DoneWasHeard'
  <2>1. UNCHANGED <<status, admitted>>
      BY <1>14 DEF CutFails, rows, stream
  <2> QED
      BY <2>1 DEF DoneWasHeard, IntakeInv, Occasions
<1>15. ASSUME NEW c \in Chat, Admit(c) PROVE DoneWasHeard'
  <2>1. /\ UNCHANGED status /\ turn[c].window \in Window
        /\ \E n \in {0, 1} : admitted' = [admitted EXCEPT ![turn[c].window] = @ + n]
      BY <1>15, BusyTurn DEF Admit, At
  <2>2. \A v \in Window : admitted[v] \in Nat /\ (admitted[v] > 0 => admitted'[v] > 0)
      BY <2>1 DEF IntakeInv, IntakeTyped
  <2> QED
      BY <2>1, <2>2 DEF DoneWasHeard, IntakeInv, Occasions
<1>16. ASSUME NEW c \in Chat, DispatchThrows(c) PROVE DoneWasHeard'
  <2>1. /\ UNCHANGED status /\ turn[c].window \in Window
        /\ \E n \in {0, 1} : admitted' = [admitted EXCEPT ![turn[c].window] = @ + n]
      BY <1>16, BusyTurn DEF DispatchThrows, At
  <2>2. \A v \in Window : admitted[v] \in Nat /\ (admitted[v] > 0 => admitted'[v] > 0)
      BY <2>1 DEF IntakeInv, IntakeTyped
  <2> QED
      BY <2>1, <2>2 DEF DoneWasHeard, IntakeInv, Occasions
<1>17. ASSUME NEW c \in Chat, MarkDone(c) PROVE DoneWasHeard'
  <2>1. /\ UNCHANGED admitted /\ turn[c].at = "admitted"
        /\ status' \in {status, [status EXCEPT ![turn[c].window] = "done"]}
      BY <1>17 DEF MarkDone, Settle, At
  <2>2. /\ turn[c].at = "admitted" => admitted[turn[c].window] > 0
        /\ turn[c].window \in Window
      BY <2>1 DEF IntakeInv, Turns, Engaged, EngagedWell
  <2>3. ASSUME NEW v \in Window, status'[v] = "done"
        PROVE  status[v] = "done" \/ (v = turn[c].window /\ turn[c].at = "admitted")
      BY <2>1, <2>2, <2>3 DEF IntakeInv, IntakeTyped
  <2> QED
      BY <2>1, <2>2, <2>3 DEF DoneWasHeard, IntakeInv, Occasions
<1>18. ASSUME NEW c \in Chat, MarkFailed(c) PROVE DoneWasHeard'
  <2>1. /\ UNCHANGED admitted /\ turn[c].at = "failing"
        /\ status' \in {status, [status EXCEPT ![turn[c].window] = "failed"]}
      BY <1>18 DEF MarkFailed, Settle, At
  <2>2. /\ turn[c].at = "admitted" => admitted[turn[c].window] > 0
        /\ turn[c].window \in Window
      BY <2>1 DEF IntakeInv, Turns, Engaged, EngagedWell
  <2>3. ASSUME NEW v \in Window, status'[v] = "done"
        PROVE  status[v] = "done" \/ (v = turn[c].window /\ turn[c].at = "admitted")
      BY <2>1, <2>2, <2>3 DEF IntakeInv, IntakeTyped
  <2> QED
      BY <2>1, <2>2, <2>3 DEF DoneWasHeard, IntakeInv, Occasions
<1>19. ASSUME NEW c \in Chat, LedgerFails(c) PROVE DoneWasHeard'
  <2>1. UNCHANGED <<status, admitted>>
      BY <1>19 DEF LedgerFails, ledgerRest, rows, stream
  <2> QED
      BY <2>1 DEF DoneWasHeard, IntakeInv, Occasions
<1>20. CASE Crash
  <2>1. UNCHANGED <<status, admitted>>
      BY <1>20 DEF Crash, rows, stream
  <2> QED
      BY <2>1 DEF DoneWasHeard, IntakeInv, Occasions
<1>21. CASE UNCHANGED intakeVars
  <2>1. UNCHANGED <<status, admitted>>
      BY <1>21 DEF intakeVars, rows, stream
  <2> QED
      BY <2>1 DEF DoneWasHeard, IntakeInv, Occasions
<1> QED
    BY <1>1, <1>2, <1>3, <1>4, <1>5, <1>6, <1>7, <1>8, <1>9, <1>10, <1>11, <1>12, <1>13,
       <1>14, <1>15, <1>16, <1>17, <1>18, <1>19, <1>20, <1>21 DEF IntakeNext, ActorStep,
       RelayStep

(* The first state, and every step.                                        *)
LEMMA IntakeStarts == IntakeInit => IntakeInv
<1> SUFFICES ASSUME IntakeInit PROVE IntakeInv
    OBVIOUS
<1>1. IntakeTyped
    BY IntakeConstants DEF IntakeInit, IntakeTyped, TurnState, Idle
<1>2. \A w \in Window : Contents(w) = {} /\ Chats(w) = {}
    BY IntakeConstants DEF IntakeInit, Contents, Chats
<1>3. Pending = {} /\ \A c \in Chat : Range(queue[c]) = {} /\ Range(buffer[c]) = {}
    BY EmptyRange DEF IntakeInit, Pending
<1>4. Rows
    BY <1>2, IntakeConstants DEF IntakeInit, Rows, Numbered, NoTies, OneChat, Filled, InTurn
<1>5. Placed
    BY <1>3 DEF IntakeInit, Placed, InQueues, InBuffers, Quiet
<1>6. Turns
    BY DEF IntakeInit, Turns, Engaged, EngagedWell, AtRest, StillToDo, Idle
<1>7. OnItsWay
    BY DEF IntakeInit, OnItsWay
<1>8. Tidy
    BY <1>3 DEF IntakeInit, Tidy, TidyChat, Rising, Before
<1>9. Affordable
    BY DEF IntakeInit, Affordable, Afford
<1>10. Occasions
    BY <1>9 DEF IntakeInit, Occasions, FreshBoot, DoneWasHeard, Reasons
<1>11. InOrder
    BY <1>2 DEF InOrder, AdmittedInOrder, EngagedInOrder, Awaited
<1>12. FailStopHasCause
    BY DEF IntakeInit, FailStopHasCause
<1> QED
    BY <1>1, <1>4, <1>5, <1>6, <1>7, <1>8, <1>10, <1>11, <1>12 DEF IntakeInv

LEMMA IntakeKept == IntakeInv /\ [IntakeNext]_intakeVars => IntakeInv'
<1> SUFFICES ASSUME IntakeInv, [IntakeNext]_intakeVars PROVE IntakeInv'
    OBVIOUS
<1>1. IntakeTyped' /\ Rows' /\ Placed' /\ Turns' /\ OnItsWay' /\ Tidy'
    BY TypedStep, RowsStep, PlacedStep, TurnsStep, WayStep, TidyStep
<1>2. Affordable' /\ FreshBoot' /\ DoneWasHeard' /\ InOrder' /\ FailStopHasCause'
    BY AffordStep, FreshStep, DoneStep, OrderStep, CauseStep
<1>3. Occasions'
    BY <1>2 DEF Occasions
<1> QED
    BY <1>1, <1>2, <1>3 DEF IntakeInv

(* Every reachable state of the intake satisfies the inductive invariant:  *)
(* rows, queues, buffers, turns and ledger always agree on where each      *)
(* event is and how often it may still wake a Speaker.                     *)
THEOREM IntakeInvariant == IntakeSpec => []IntakeInv
<1>1. IntakeInit => IntakeInv
    BY IntakeStarts
<1>2. IntakeInv /\ [IntakeNext]_intakeVars => IntakeInv'
    BY IntakeKept
<1> QED
    BY <1>1, <1>2, PTL DEF IntakeSpec

(* What the invariant says of the rows and of the order.                   *)
LEMMA TypeHolds == IntakeInv => IntakeTypeOK
<1> SUFFICES ASSUME IntakeInv PROVE IntakeTypeOK
    OBVIOUS
<1>1. IntakeTyped /\ Rows /\ backlog \subseteq Pending
    BY DEF IntakeInv, Placed
<1>2. seqOf \in [Event -> 0..lastSeq]
    BY <1>1 DEF IntakeTyped, Rows, Numbered
<1> QED
    BY <1>1, <1>2 DEF IntakeTypeOK, IntakeTyped, Rows, Numbered, Filled, TurnState

LEMMA OrderHolds == IntakeInv => HeardInOrder
<1> SUFFICES ASSUME IntakeInv, NEW v \in Window, NEW w \in Window, v < w,
                    status[w] # "absent", WindowChat(v) = WindowChat(w),
                    admitted[w] > 0, admitted[v] = 0
             PROVE  status[v] = "failed" \/ v \in unsettled
    BY DEF HeardInOrder
<1>1. status[v] # "absent"
    BY DEF IntakeInv, Rows, InTurn
<1>2. PICK e \in Contents(v), f \in Contents(w) : TRUE
    BY <1>1 DEF IntakeInv, Rows, Filled
<1>3. ChatOf[e] = ChatOf[f]
    BY <1>2, HomeOf DEF IntakeInv
<1>4. ChatOf[e] \in Chats(v) \cap Chats(w)
    BY <1>2, <1>3 DEF Chats
<1>5. Heard(v)
    BY <1>4 DEF IntakeInv, InOrder, AdmittedInOrder
<1> QED
    BY <1>5 DEF Heard

(* The intake is lossless: the rows are of their types, every accepted     *)
(* event is on its way while its chat's actor lives, a chat is fail-       *)
(* stopped only for a cause, each Window is admitted by Flue at most once  *)
(* more than there were crashes, faults and repeated updates, and not at   *)
(* all unheard when it is done, and the Windows of a chat are heard in     *)
(* order.                                                                  *)
THEOREM IntakeLossless == IntakeSpec => []IntakeIsLossless
<1>1. IntakeInv => IntakeIsLossless
  <2> SUFFICES ASSUME IntakeInv PROVE IntakeIsLossless
      OBVIOUS
  <2>1. IntakeTypeOK /\ HeardInOrder /\ FailStopHasCause
      BY TypeHolds, OrderHolds DEF IntakeInv
  <2>2. NothingForgotten
      BY DEF IntakeInv, OnItsWay, OnWay, NothingForgotten
  <2>3. WakesAccounted
    <3>1. \A w \in Window : admitted[w] <= 1 + Reasons
        BY AdmittedBound
    <3>2. 1 + Reasons = 1 + crashes + faults + repeats
      <4>1. crashes \in Nat /\ faults \in Nat /\ repeats \in Nat
          BY DEF IntakeInv, IntakeTyped
      <4> QED
          BY <4>1 DEF Reasons
    <3> QED
        BY <3>1, <3>2 DEF WakesAccounted, IntakeInv, Occasions, DoneWasHeard
  <2> QED
      BY <2>1, <2>2, <2>3 DEF IntakeIsLossless
<1> QED
    BY <1>1, IntakeInvariant, PTL

(* Acceptance of an event is a step of the feed, so is the Cut of a Window *)
(* and its settlement; everything else leaves the feed as it is.           *)
Outcome == [w \in Window |-> IF status[w] \in {"done", "failed"} THEN status[w] ELSE "open"]
FeedStep == Feed!FeedNext \/ UNCHANGED <<seqOf, windowOf, Outcome>>

LEMMA FeedStarts == IntakeInit => Feed!FeedInit
<1> SUFFICES ASSUME IntakeInit PROVE Feed!FeedInit
    OBVIOUS
<1>1. Outcome = [w \in Window |-> "open"]
    BY DEF IntakeInit, Outcome
<1> QED
    BY <1>1 DEF IntakeInit, Feed!FeedInit, Outcome

LEMMA OutcomeKept == ASSUME UNCHANGED status PROVE Outcome' = Outcome
BY DEF Outcome

LEMMA FeedAccepts ==
  ASSUME IntakeInv, NEW e \in Event, Record(e), UNCHANGED status
  PROVE  FeedStep
<1>1. /\ windowOf' = windowOf /\ seqOf[e] = 0 /\ lastSeq \in Nat
      /\ \A f \in Event \ {e} : seqOf'[f] = seqOf[f]
      /\ seqOf \in [Event -> Nat] /\ seqOf' \in [Event -> Nat]
      /\ \A f \in Event : seqOf[f] <= lastSeq
      /\ seqOf' = seqOf \/ seqOf'[e] = lastSeq + 1
    BY Recorded DEF IntakeInv, IntakeTyped, Rows, Numbered
<1>2. Outcome' = Outcome
    BY OutcomeKept
<1>3. CASE seqOf' = seqOf
    BY <1>1, <1>2, <1>3 DEF FeedStep
<1>4. CASE seqOf'[e] = lastSeq + 1
  <2>1. \A f \in Event : seqOf[f] < seqOf'[e]
      BY <1>1, <1>4
  <2>2. seqOf' = [seqOf EXCEPT ![e] = seqOf'[e]]
      BY <1>1
  <2>3. Feed!Accept(e)
      BY <1>1, <1>2, <2>1, <2>2 DEF Feed!Accept, Outcome
  <2> QED
      BY <2>3 DEF FeedStep, Feed!FeedNext
<1> QED
    BY <1>1, <1>3, <1>4

LEMMA FeedReads ==
  ASSUME IntakeInv, NEW c \in Chat, NEW w \in Window, Cut(c, w)
  PROVE  FeedStep
<1> DEFINE S == Range(buffer[c])
<1>1. /\ S # {} /\ S \subseteq Pending \cap Of(c) /\ Contents(w) = {}
      /\ windowOf' = [e \in Event |-> IF e \in S THEN w ELSE windowOf[e]]
    BY CutWindows DEF Cut, Assign
<1>2. UNCHANGED seqOf /\ status' = [status EXCEPT ![w] = "pending"] /\ status[w] = "absent"
    BY DEF Cut
<1>3. Feed!Unread(c) = Pending \cap Of(c)
    BY DEF Feed!Unread, Pending, Of
<1>4. \A e \in S : \A f \in Feed!Unread(c) \ S : seqOf[e] < seqOf[f]
    BY <1>3 DEF Cut, Creates, Oldest
<1>5. \A e \in Event : windowOf[e] # w
    BY <1>1 DEF Contents
<1>6. Outcome' = Outcome
  <2>1. \A v \in Window : status'[v] = status[v] \/ (status'[v] = "pending" /\ status[v] = "absent")
      BY <1>2 DEF IntakeInv, IntakeTyped
  <2> QED
      BY <2>1 DEF Outcome
<1>7. S \in (SUBSET Feed!Unread(c)) \ {{}}
    BY <1>1, <1>3
<1> HIDE DEF S
<1>8. Feed!Read(c, w)
    BY <1>1, <1>2, <1>4, <1>5, <1>6, <1>7 DEF Feed!Read, Outcome
<1> QED
    BY <1>8 DEF FeedStep, Feed!FeedNext

LEMMA FeedSettles ==
  ASSUME IntakeInv, NEW c \in Chat, MarkDone(c) \/ MarkFailed(c)
  PROVE  FeedStep
<1>1. UNCHANGED <<seqOf, windowOf>> /\ turn[c].at # "idle"
    BY DEF MarkDone, MarkFailed, Settle, At, ledgerRest, rows
<1>2. PICK w \in Window : w = turn[c].window /\ Contents(w) # {}
    BY <1>1, BusyTurn
<1>3. PICK o \in {"done", "failed"} :
        status' = IF status[w] = "pending" THEN [status EXCEPT ![w] = o] ELSE status
    BY <1>2 DEF MarkDone, MarkFailed, Settle
<1>4. CASE status[w] # "pending"
  <2>1. Outcome' = Outcome
      BY <1>3, <1>4, OutcomeKept
  <2> QED
      BY <1>1, <2>1 DEF FeedStep
<1>5. CASE status[w] = "pending"
  <2>1. Outcome[w] = "open"
      BY <1>5 DEF Outcome
  <2>2. \A v \in Window : status'[v] = IF v = w THEN o ELSE status[v]
      BY <1>3, <1>5 DEF IntakeInv, IntakeTyped
  <2>3. Outcome' = [Outcome EXCEPT ![w] = o]
      BY <2>2 DEF Outcome
  <2>4. \E e \in Event : windowOf[e] = w
      BY <1>2 DEF Contents
  <2>5. Feed!Settle(w)
      BY <1>1, <2>1, <2>3, <2>4 DEF Feed!Settle, Outcome
  <2> QED
      BY <2>5 DEF FeedStep, Feed!FeedNext
<1> QED
    BY <1>4, <1>5

(* Every step of the intake is a step of the feed, or none.                *)
LEMMA FeedFollows == IntakeInv /\ [IntakeNext]_intakeVars => FeedStep
<1> SUFFICES ASSUME IntakeInv, [IntakeNext]_intakeVars PROVE FeedStep
    OBVIOUS
<1>1. ASSUME NEW e \in Event, Deliver(e) PROVE FeedStep
    BY <1>1, FeedAccepts DEF Deliver
<1>2. ASSUME NEW e \in Event, Redeliver(e) PROVE FeedStep
  <2>1. UNCHANGED <<seqOf, windowOf, status>>
      BY <1>2 DEF Redeliver, rows
  <2> QED
      BY <2>1, OutcomeKept DEF FeedStep
<1>3. ASSUME NEW e \in Event, SendMutation(e) PROVE FeedStep
    BY <1>3, FeedAccepts DEF SendMutation
<1>4. ASSUME NEW S \in SUBSET Chat, Reload(S) PROVE FeedStep
  <2>1. UNCHANGED <<seqOf, windowOf, status>>
      BY <1>4 DEF Reload, rows
  <2> QED
      BY <2>1, OutcomeKept DEF FeedStep
<1>5. CASE Start
  <2>1. UNCHANGED <<seqOf, windowOf, status>>
      BY <1>5 DEF Start, rows
  <2> QED
      BY <2>1, OutcomeKept DEF FeedStep
<1>6. CASE StartFails
  <2>1. UNCHANGED <<seqOf, windowOf, status>>
      BY <1>6 DEF StartFails, rows
  <2> QED
      BY <2>1, OutcomeKept DEF FeedStep
<1>7. CASE Replayed
  <2>1. UNCHANGED <<seqOf, windowOf, status>>
      BY <1>7 DEF Replayed, rows
  <2> QED
      BY <2>1, OutcomeKept DEF FeedStep
<1>8. ASSUME NEW w \in Window, Replay(w) PROVE FeedStep
  <2>1. UNCHANGED <<seqOf, windowOf, status>>
      BY <1>8 DEF Replay, rows
  <2> QED
      BY <2>1, OutcomeKept DEF FeedStep
<1>9. ASSUME NEW c \in Chat, NEW e \in Event, TakeBacklog(c, e) PROVE FeedStep
  <2>1. UNCHANGED <<seqOf, windowOf, status>>
      BY <1>9 DEF TakeBacklog, rows
  <2> QED
      BY <2>1, OutcomeKept DEF FeedStep
<1>10. ASSUME NEW c \in Chat, TakeLive(c) PROVE FeedStep
  <2>1. UNCHANGED <<seqOf, windowOf, status>>
      BY <1>10 DEF TakeLive, rows
  <2> QED
      BY <2>1, OutcomeKept DEF FeedStep
<1>11. ASSUME NEW c \in Chat, NEW w \in Window, Cut(c, w) PROVE FeedStep
    BY <1>11, FeedReads
<1>12. ASSUME NEW c \in Chat, NEW w \in Window, CutAgain(c, w) PROVE FeedStep
  <2>1. UNCHANGED <<seqOf, windowOf, status>>
      BY <1>12 DEF CutAgain, rows
  <2> QED
      BY <2>1, OutcomeKept DEF FeedStep
<1>13. ASSUME NEW c \in Chat, CutRefused(c) PROVE FeedStep
  <2>1. UNCHANGED <<seqOf, windowOf, status>>
      BY <1>13 DEF CutRefused, rows
  <2> QED
      BY <2>1, OutcomeKept DEF FeedStep
<1>14. ASSUME NEW c \in Chat, CutFails(c) PROVE FeedStep
  <2>1. UNCHANGED <<seqOf, windowOf, status>>
      BY <1>14 DEF CutFails, rows
  <2> QED
      BY <2>1, OutcomeKept DEF FeedStep
<1>15. ASSUME NEW c \in Chat, Admit(c) PROVE FeedStep
  <2>1. UNCHANGED <<seqOf, windowOf, status>>
      BY <1>15 DEF Admit, ledgerRest, rows
  <2> QED
      BY <2>1, OutcomeKept DEF FeedStep
<1>16. ASSUME NEW c \in Chat, DispatchThrows(c) PROVE FeedStep
  <2>1. UNCHANGED <<seqOf, windowOf, status>>
      BY <1>16 DEF DispatchThrows, ledgerRest, rows
  <2> QED
      BY <2>1, OutcomeKept DEF FeedStep
<1>17. ASSUME NEW c \in Chat, MarkDone(c) PROVE FeedStep
    BY <1>17, FeedSettles
<1>18. ASSUME NEW c \in Chat, MarkFailed(c) PROVE FeedStep
    BY <1>18, FeedSettles
<1>19. ASSUME NEW c \in Chat, LedgerFails(c) PROVE FeedStep
  <2>1. UNCHANGED <<seqOf, windowOf, status>>
      BY <1>19 DEF LedgerFails, ledgerRest, rows
  <2> QED
      BY <2>1, OutcomeKept DEF FeedStep
<1>20. CASE Crash
  <2>1. UNCHANGED <<seqOf, windowOf, status>>
      BY <1>20 DEF Crash, rows
  <2> QED
      BY <2>1, OutcomeKept DEF FeedStep
<1>21. CASE UNCHANGED intakeVars
  <2>1. UNCHANGED <<seqOf, windowOf, status>>
      BY <1>21 DEF intakeVars, rows
  <2> QED
      BY <2>1, OutcomeKept DEF FeedStep
<1> QED
    BY <1>1, <1>2, <1>3, <1>4, <1>5, <1>6, <1>7, <1>8, <1>9, <1>10, <1>11, <1>12, <1>13,
       <1>14, <1>15, <1>16, <1>17, <1>18, <1>19, <1>20, <1>21 DEF IntakeNext, ActorStep,
       RelayStep

(* The refinement: a chat is read in Windows of its oldest unread events,  *)
(* without gap, repetition or reordering, and each Window is settled once, *)
(* whatever the Coalescer's queues, restarts and retries do.               *)
THEOREM IntakeImplementsFeed == IntakeSpec => ImplementsFeed
<1>1. IntakeInv /\ [IntakeNext]_intakeVars => [Feed!FeedNext]_(Feed!feedVars)
    BY FeedFollows DEF FeedStep, Feed!feedVars, Outcome
<1> QED
    BY <1>1, FeedStarts, IntakeInvariant, PTL DEF IntakeSpec, ImplementsFeed, Feed!FeedSpec

-----------------------------------------------------------------------------
(* The debounce actor: the types of its state and of what it flushed.      *)
FlushState == [reason : {"none", "urgent", "capacity", "maxWait", "debounce"},
               counted : Nat, waited : Nat, quiet : Nat]
DebounceTyped ==
  /\ clock \in Nat /\ count \in Nat /\ burstStart \in Nat /\ wait \in Nat /\ lastTaken \in Nat
  /\ incoming \in Seq(Elements) /\ gathered \in Seq(Elements)
  /\ flushing \in {"none", "urgent", "capacity", "maxWait", "debounce"}
  /\ flushed \in FlushState
(* A burst under way: the wait began with its last element and ends within *)
(* the cap, and the clock has not passed it.                               *)
Bursting ==
  gathered # <<>> =>
    /\ flushing = "none"
    /\ burstStart <= lastTaken /\ lastTaken <= clock /\ clock <= wait
    /\ lastTaken <= burstStart + MaxWait
    /\ wait = lastTaken + Earlier(DebounceWindow, burstStart + MaxWait - lastTaken)
DebounceInv == DebounceTyped /\ Bursting /\ count < Cap /\ FlushesOnTime

LEMMA WaitEnds ==
  ASSUME NEW b \in Nat, NEW t \in Nat, t <= b + MaxWait
  PROVE  /\ t + Earlier(DebounceWindow, b + MaxWait - t) \in Nat
         /\ t <= t + Earlier(DebounceWindow, b + MaxWait - t)
         /\ t + Earlier(DebounceWindow, b + MaxWait - t) <= b + MaxWait
         /\ b + MaxWait - t <= DebounceWindow =>
              t + Earlier(DebounceWindow, b + MaxWait - t) = b + MaxWait
         /\ ~ (b + MaxWait - t <= DebounceWindow) =>
              /\ t + Earlier(DebounceWindow, b + MaxWait - t) = t + DebounceWindow
              /\ t + DebounceWindow < b + MaxWait
BY DebounceConstants DEF Earlier

(* The first element starts the burst; the wait that starts is no longer   *)
(* than what the cap leaves.                                               *)
LEMMA BurstWaits ==
  ASSUME DebounceInv, flushing = "none"
  PROVE  /\ BurstStart \in Nat /\ BurstStart <= clock /\ clock <= BurstStart + MaxWait
         /\ clock - BurstStart \in 0..MaxWait
         /\ (IF gathered = <<>> THEN 0 ELSE clock - lastTaken) \in Nat
<1>1. clock \in Nat /\ burstStart \in Nat /\ lastTaken \in Nat /\ MaxWait \in Nat
    BY DebounceConstants DEF DebounceInv, DebounceTyped
<1>2. CASE gathered = <<>>
    BY <1>1, <1>2 DEF BurstStart
<1>3. CASE gathered # <<>>
  <2>1. /\ burstStart <= lastTaken /\ lastTaken <= clock /\ clock <= wait
        /\ lastTaken <= burstStart + MaxWait
        /\ wait = lastTaken + Earlier(DebounceWindow, burstStart + MaxWait - lastTaken)
      BY <1>3 DEF DebounceInv, Bursting
  <2>2. wait <= burstStart + MaxWait /\ wait \in Nat
      BY <1>1, <2>1, WaitEnds
  <2> QED
      BY <1>1, <1>3, <2>1, <2>2 DEF BurstStart
<1> QED
    BY <1>2, <1>3

LEMMA WarmKeeps ==
  ASSUME DebounceInv, flushing = "none", NEW e \in Elements, NEW n \in Nat, n < Cap,
         Warm(e, n), UNCHANGED clock, incoming' \in Seq(Elements)
  PROVE  DebounceInv'
<1> DEFINE b == BurstStart
<1>1. b \in Nat /\ b <= clock /\ clock <= b + MaxWait /\ clock \in Nat
    BY BurstWaits DEF DebounceInv, DebounceTyped
<1>2. /\ gathered' = Append(gathered, e) /\ count' = n /\ burstStart' = b /\ lastTaken' = clock
      /\ wait' = clock + Earlier(DebounceWindow, b + MaxWait - clock)
      /\ flushing' = "none" /\ flushed' = flushed /\ clock' = clock
    BY DEF Warm, WaitUntil
<1> HIDE DEF b
<1>3. wait' \in Nat /\ clock' <= wait'
    BY <1>1, <1>2, WaitEnds
<1>4. DebounceTyped'
    BY <1>1, <1>2, <1>3 DEF DebounceInv, DebounceTyped
<1>5. Bursting'
    BY <1>1, <1>2, <1>3 DEF Bursting
<1>6. FlushesOnTime'
    BY <1>1, <1>2 DEF DebounceInv, FlushesOnTime, NeverStarved, ReasonIsTrue
<1> QED
    BY <1>2, <1>4, <1>5, <1>6 DEF DebounceInv

LEMMA FireKeeps ==
  ASSUME DebounceInv, flushing = "none", NEW n \in Nat, n <= Cap,
         NEW r \in {"urgent", "capacity", "maxWait", "debounce"},
         FireAndReset(r, n), UNCHANGED clock, incoming' \in Seq(Elements),
         r = "capacity" => n = Cap,
         r = "maxWait" => clock - BurstStart = MaxWait,
         r = "debounce" => /\ gathered # <<>> /\ clock - lastTaken = DebounceWindow
                           /\ clock - BurstStart < MaxWait
  PROVE  DebounceInv'
<1> DEFINE late == clock - BurstStart
           still == IF gathered = <<>> THEN 0 ELSE clock - lastTaken
<1>1. late \in Nat /\ late <= MaxWait /\ still \in Nat
    BY BurstWaits, DebounceConstants
<1>2. /\ flushing' = r /\ gathered' = <<>> /\ count' = 0 /\ clock' = clock
      /\ flushed' = [reason |-> r, counted |-> n, waited |-> late, quiet |-> still]
      /\ UNCHANGED <<burstStart, wait, lastTaken>>
    BY DEF FireAndReset
<1>3. r = "debounce" => still = DebounceWindow /\ late < MaxWait
    OBVIOUS
<1>4. r = "maxWait" => late = MaxWait
    OBVIOUS
<1> HIDE DEF late, still
<1>5. DebounceTyped'
    BY <1>1, <1>2 DEF DebounceInv, DebounceTyped, FlushState
<1>6. Bursting'
    BY <1>2 DEF Bursting
<1>7. FlushesOnTime'
    BY <1>1, <1>2, <1>3, <1>4, DebounceConstants DEF FlushesOnTime, NeverStarved, ReasonIsTrue
<1> QED
    BY <1>2, <1>5, <1>6, <1>7, DebounceConstants DEF DebounceInv

(* Every step of the actor keeps its invariant.                            *)
LEMMA DebounceKept == DebounceInv /\ [DebounceNext]_debounceVars => DebounceInv'
<1> SUFFICES ASSUME DebounceInv, [DebounceNext]_debounceVars PROVE DebounceInv'
    OBVIOUS
<1>1. ASSUME NEW e \in Elements, Offer(e) PROVE DebounceInv'
  <2>1. /\ UNCHANGED <<clock, gathered, count, burstStart, wait, lastTaken, flushing, flushed>>
        /\ incoming' \in Seq(Elements)
      BY <1>1, AppendProperties DEF Offer, DebounceInv, DebounceTyped
  <2> QED
      BY <2>1 DEF DebounceInv, DebounceTyped, Bursting, FlushesOnTime, NeverStarved, ReasonIsTrue
<1>2. CASE Take
  <2>1. /\ flushing = "none" /\ incoming \in Seq(Elements) /\ incoming # <<>> /\ UNCHANGED clock
        /\ count \in Nat /\ count < Cap
      BY <1>2 DEF Take, DebounceInv, DebounceTyped
  <2>2. PICK e \in Elements : e = Head(incoming)
      BY <2>1, HeadTailProperties
  <2>3. incoming' \in Seq(Elements)
      BY <1>2, <2>1, HeadTailProperties DEF Take
  <2>4. count + 1 \in Nat /\ count + 1 <= Cap
      BY <2>1, DebounceConstants
  <2>5. \/ Warm(e, count)
        \/ FireAndReset("urgent", count + 1)
        \/ count + 1 >= Cap /\ FireAndReset("capacity", count + 1)
        \/ count + 1 < Cap /\ Warm(e, count + 1)
      BY <1>2, <2>2 DEF Take
  <2>6. CASE Warm(e, count)
      BY <2>1, <2>3, <2>6, WarmKeeps
  <2>7. CASE FireAndReset("urgent", count + 1)
      BY <2>1, <2>3, <2>4, <2>7, FireKeeps
  <2>8. CASE count + 1 >= Cap /\ FireAndReset("capacity", count + 1)
    <3>1. count + 1 = Cap
        BY <2>4, <2>8, DebounceConstants
    <3> QED
        BY <2>1, <2>3, <2>4, <2>8, <3>1, FireKeeps
  <2>9. CASE count + 1 < Cap /\ Warm(e, count + 1)
      BY <2>1, <2>3, <2>4, <2>9, WarmKeeps
  <2> QED
      BY <2>5, <2>6, <2>7, <2>8, <2>9
<1>3. CASE TimeOut
  <2>1. /\ flushing = "none" /\ gathered # <<>> /\ clock = wait /\ UNCHANGED <<clock, incoming>>
        /\ FireAndReset(TimeOutReason, count)
      BY <1>3 DEF TimeOut
  <2>2. /\ clock \in Nat /\ burstStart \in Nat /\ lastTaken \in Nat /\ count \in Nat
        /\ count <= Cap /\ incoming' \in Seq(Elements) /\ BurstStart = burstStart
      BY <2>1, DebounceConstants DEF DebounceInv, DebounceTyped, BurstStart
  <2>3. /\ lastTaken <= burstStart + MaxWait
        /\ clock = lastTaken + Earlier(DebounceWindow, burstStart + MaxWait - lastTaken)
      BY <2>1 DEF DebounceInv, Bursting
  <2>4. CASE burstStart + MaxWait - lastTaken <= DebounceWindow
    <3>1. TimeOutReason = "maxWait"
        BY <2>4 DEF TimeOutReason
    <3>2. clock = burstStart + MaxWait
        BY <2>2, <2>3, <2>4, WaitEnds
    <3>3. clock - BurstStart = MaxWait
        BY <2>2, <3>2, DebounceConstants
    <3> QED
        BY <2>1, <2>2, <3>1, <3>3, FireKeeps
  <2>5. CASE ~ (burstStart + MaxWait - lastTaken <= DebounceWindow)
    <3>1. TimeOutReason = "debounce"
        BY <2>5 DEF TimeOutReason
    <3>2. clock = lastTaken + DebounceWindow /\ lastTaken + DebounceWindow < burstStart + MaxWait
        BY <2>2, <2>3, <2>5, WaitEnds
    <3>3. clock - lastTaken = DebounceWindow /\ clock - BurstStart < MaxWait
        BY <2>2, <3>2, DebounceConstants
    <3> QED
        BY <2>1, <2>2, <3>1, <3>3, FireKeeps
  <2> QED
      BY <2>4, <2>5
<1>4. CASE Flushed
  <2>1. /\ UNCHANGED <<clock, incoming, gathered, count, burstStart, wait, lastTaken, flushed>>
        /\ flushing # "none" /\ flushing' = "none"
      BY <1>4 DEF Flushed
  <2>2. gathered = <<>>
      BY <2>1 DEF DebounceInv, Bursting
  <2> QED
      BY <2>1, <2>2 DEF DebounceInv, DebounceTyped, Bursting, FlushesOnTime, NeverStarved,
         ReasonIsTrue
<1>5. CASE Tick
  <2>1. /\ UNCHANGED <<incoming, gathered, count, burstStart, wait, lastTaken, flushing, flushed>>
        /\ clock' = clock + 1
        /\ flushing = "none" => gathered = <<>> \/ clock < wait
      BY <1>5 DEF Tick
  <2>2. clock \in Nat /\ wait \in Nat /\ lastTaken \in Nat /\ burstStart \in Nat
      BY DEF DebounceInv, DebounceTyped
  <2>3. gathered # <<>> =>
          /\ flushing = "none" /\ clock < wait /\ lastTaken <= clock /\ wait <= burstStart + MaxWait
      BY <2>1, <2>2, WaitEnds DEF DebounceInv, Bursting
  <2>4. gathered # <<>> => clock + 1 <= wait /\ lastTaken <= clock + 1 /\ clock + 1 <= burstStart + MaxWait
      BY <2>2, <2>3, DebounceConstants
  <2>5. DebounceTyped'
      BY <2>1, <2>2 DEF DebounceInv, DebounceTyped
  <2>6. Bursting'
      BY <2>1, <2>4 DEF DebounceInv, Bursting
  <2>7. FlushesOnTime'
      BY <2>1, <2>4 DEF DebounceInv, FlushesOnTime, NeverStarved, ReasonIsTrue
  <2> QED
      BY <2>1, <2>5, <2>6, <2>7 DEF DebounceInv
<1>6. CASE UNCHANGED debounceVars
    BY <1>6 DEF debounceVars, DebounceInv, DebounceTyped, Bursting, FlushesOnTime,
       NeverStarved, ReasonIsTrue
<1> QED
    BY <1>1, <1>2, <1>3, <1>4, <1>5, <1>6 DEF DebounceNext

(* A debounce actor flushes on time for any debounce window, maxWait and   *)
(* capacity: no burst waits beyond maxWait, no Window is larger than the   *)
(* capacity, and the reason a flush reports is why it came.                *)
THEOREM DebounceOnTime == DebounceSpec => []FlushesOnTime
<1>1. DebounceInit => DebounceInv
    BY DebounceConstants DEF DebounceInit, DebounceInv, DebounceTyped, FlushState, NoFlush,
       Bursting,
       FlushesOnTime, NeverStarved, ReasonIsTrue
<1>2. DebounceInv => FlushesOnTime
    BY DEF DebounceInv
<1> QED
    BY <1>1, <1>2, DebounceKept, PTL DEF DebounceSpec

-----------------------------------------------------------------------------
(* The archive.                                                            *)

(* The rows of the archive: as many numbers as facts, each given once.     *)
Archived(row) == {f \in Fact : row[f] > 0}
RowsGiven(row) ==
  /\ row \in [Fact -> Nat]
  /\ IsFiniteSet(Archived(row))
  /\ \A f \in Archived(row) : row[f] <= Cardinality(Archived(row))
  /\ \A f, g \in Archived(row) : row[f] = row[g] => f = g

(* ProjectionFollowsTime, of one message and what is shown of it.          *)
Shows(m, row, shown) ==
  LET edits == {f \in FactsOf(m, row) : FactKind[f] = "edit"}
  IN IF Arrivals(m, row) = {} THEN shown = Blank
     ELSE /\ shown.revoked <=> \E f \in FactsOf(m, row) : FactKind[f] = "revocation"
          /\ IF edits = {} THEN shown.text \in Arrivals(m, row)
             ELSE /\ shown.text \in edits
                  /\ \A f \in edits :
                       IF FactTime[shown.text] = 0
                       THEN FactTime[f] = 0 => row[f] <= row[shown.text]
                       ELSE FactTime[f] \in 1..FactTime[shown.text]

ArchiveInv ==
  /\ RowsGiven(rowid)
  /\ projected = [m \in Message |-> projected[m]]
  /\ \A m \in Message : Shows(m, rowid, projected[m])

-----------------------------------------------------------------------------
(* A set of numbers has a least one.                                       *)
LEMMA LeastNumber ==
  ASSUME NEW T \in SUBSET Nat, T # {}
  PROVE  \E n \in T : \A m \in T : n <= m
<1> DEFINE R == OpToRel(<, Nat)
<1>1. IsWellFoundedOn(R, Nat) BY NatLessThanWellFounded
<1>2. \E n \in T : \A m \in T : ~(<<m, n>> \in R)
  <2> HIDE DEF R
  <2> QED BY <1>1, WFMin
<1>3. \A m, n \in T : m < n => <<m, n>> \in R BY DEF OpToRel
<1> HIDE DEF R
<1>4. PICK n \in T : \A m \in T : ~(<<m, n>> \in R) BY <1>2
<1>5. \A m \in T : ~(m < n) BY <1>3, <1>4
<1>6. \A m \in T : n <= m BY <1>5
<1> QED BY <1>6

(* Induction up to a number, with a set for the predicate.                 *)
LEMMA CountUp ==
  ASSUME NEW N \in Nat, NEW T, 0 \in T, \A n \in 0..(N - 1) : n \in T => n + 1 \in T
  PROVE  \A n \in 0..N : n \in T
<1> DEFINE B == {n \in 0..N : n \notin T}
<1> SUFFICES ASSUME B # {} PROVE FALSE
    OBVIOUS
<1>1. PICK n \in B : \A k \in B : n <= k
  <2>1. B \in SUBSET Nat
      OBVIOUS
  <2> HIDE DEF B
  <2> QED
      BY <2>1, LeastNumber
<1>2. n \in 1..N
    BY <1>1
<1>3. n - 1 \notin B
    BY <1>1, <1>2
<1>4. n - 1 \in 0..(N - 1) /\ n - 1 \in T /\ (n - 1) + 1 = n
    BY <1>2, <1>3
<1> QED
    BY <1>1, <1>4

(* In a finite set with a strict total order, the number of those before   *)
(* each is different, and every number up to the last is one of them.      *)
LEMMA Ranks ==
  ASSUME NEW S, IsFiniteSet(S), NEW R,
         \A f \in S : <<f, f>> \notin R,
         \A f, g, h \in S : <<f, g>> \in R /\ <<g, h>> \in R => <<f, h>> \in R,
         \A f, g \in S : f = g \/ <<f, g>> \in R \/ <<g, f>> \in R
  PROVE  LET rank(f) == Cardinality({g \in S : <<g, f>> \in R})
         IN  /\ Cardinality(S) \in Nat
             /\ \A f \in S : rank(f) \in 0..(Cardinality(S) - 1)
             /\ \A f, g \in S : <<f, g>> \in R <=> rank(f) < rank(g)
             /\ \A k \in 0..(Cardinality(S) - 1) : \E f \in S : rank(f) = k
<1> DEFINE B(f) == {g \in S : <<g, f>> \in R}
           n == Cardinality(S)
<1>0. n \in Nat
    BY FS_CardinalityType
<1>1. \A f \in S : f \notin B(f) /\ IsFiniteSet(B(f)) /\ Cardinality(B(f)) \in Nat
  <2>1. \A f \in S : B(f) \subseteq S
      OBVIOUS
  <2> QED
      BY <2>1, FS_Subset, FS_CardinalityType
<1>2. ASSUME NEW f \in S, NEW U \in SUBSET S, B(f) \subseteq U, f \in U
      PROVE  Cardinality(B(f)) + 1 <= Cardinality(U)
  <2>1. B(f) \cup {f} \subseteq U
      BY <1>2
  <2>2. IsFiniteSet(U)
      BY FS_Subset
  <2>3. Cardinality(B(f) \cup {f}) = Cardinality(B(f)) + 1
      BY <1>1, FS_AddElement
  <2>4. Cardinality(B(f) \cup {f}) <= Cardinality(U)
      BY <2>1, <2>2, FS_Subset
  <2> QED
      BY <2>3, <2>4
<1>3. \A f \in S : Cardinality(B(f)) \in 0..(n - 1)
  <2> SUFFICES ASSUME NEW f \in S PROVE Cardinality(B(f)) \in 0..(n - 1)
      OBVIOUS
  <2>1. Cardinality(B(f)) + 1 <= n
      BY <1>2
  <2>2. Cardinality(B(f)) \in Nat
      BY <1>1
  <2> HIDE DEF B, n
  <2> QED
      BY <2>1, <2>2, <1>0
<1>4. ASSUME NEW f \in S, NEW g \in S, <<f, g>> \in R
      PROVE  Cardinality(B(f)) < Cardinality(B(g))
  <2>1. B(f) \subseteq B(g) /\ f \in B(g) /\ B(g) \in SUBSET S
      BY <1>4
  <2>2. Cardinality(B(f)) + 1 <= Cardinality(B(g))
      BY <2>1, <1>2
  <2>3. Cardinality(B(f)) \in Nat /\ Cardinality(B(g)) \in Nat
      BY <1>1
  <2> HIDE DEF B
  <2> QED
      BY <2>2, <2>3
<1>5. \A f, g \in S : <<f, g>> \in R <=> Cardinality(B(f)) < Cardinality(B(g))
  <2> SUFFICES ASSUME NEW f \in S, NEW g \in S
               PROVE  <<f, g>> \in R <=> Cardinality(B(f)) < Cardinality(B(g))
      OBVIOUS
  <2>1. Cardinality(B(f)) \in Nat /\ Cardinality(B(g)) \in Nat
      BY <1>1
  <2>2. <<f, g>> \in R => Cardinality(B(f)) < Cardinality(B(g))
      BY <1>4
  <2>3. <<g, f>> \in R => Cardinality(B(g)) < Cardinality(B(f))
      BY <1>4
  <2>4. f = g \/ <<f, g>> \in R \/ <<g, f>> \in R
      OBVIOUS
  <2>5. f = g => Cardinality(B(f)) = Cardinality(B(g))
      OBVIOUS
  <2> HIDE DEF B
  <2> QED
      BY <2>1, <2>2, <2>3, <2>4, <2>5
<1>6. \A k \in 0..(n - 1) : \E f \in S : Cardinality(B(f)) = k
  <2> DEFINE T == 0..(n - 1)
             r == [f \in S |-> Cardinality(B(f))]
  <2>1. r \in [S -> T]
      BY <1>3
  <2>2. \A f, g \in S : r[f] = r[g] => f = g
    <3> SUFFICES ASSUME NEW f \in S, NEW g \in S, r[f] = r[g] PROVE f = g
        OBVIOUS
    <3>1. Cardinality(B(f)) = Cardinality(B(g)) /\ Cardinality(B(f)) \in Nat
        BY <1>1
    <3>2. ~(<<f, g>> \in R) /\ ~(<<g, f>> \in R)
      <4> HIDE DEF B
      <4> QED
          BY <3>1, <1>5
    <3> QED
        BY <3>2
  <2>3. r \in Injection(S, T)
      BY <2>1, <2>2 DEF Injection, IsInjective
  <2>4. IsFiniteSet(T) /\ Cardinality(T) = n
    <3>1. 0 \in Int /\ n - 1 \in Int
        BY <1>0
    <3>2. IsFiniteSet(T) /\ Cardinality(T) = IF 0 > n - 1 THEN 0 ELSE (n - 1) - 0 + 1
        BY <3>1, FS_Interval
    <3> QED
        BY <3>2, <1>0
  <2>5. r \in Surjection(S, T)
    <3> HIDE DEF r, T, n
    <3> QED
        BY <2>3, <2>4, FS_Injection DEF n
  <2> QED
      BY <2>5 DEF Surjection
<1> QED
    BY <1>0, <1>3, <1>5, <1>6

(* The order of the facts of the archive is one.                           *)
LEMMA LaterIsAnOrder ==
  ASSUME NEW row, RowsGiven(row), NEW f \in Archived(row), NEW g \in Archived(row), NEW h \in Archived(row)
  PROVE  /\ ~Later(f, f, row)
         /\ Later(f, g, row) /\ Later(g, h, row) => Later(f, h, row)
         /\ f = g \/ Later(f, g, row) \/ Later(g, f, row)
<1>1. /\ FactTime[f] \in Nat /\ FactTime[g] \in Nat /\ FactTime[h] \in Nat
      /\ row[f] \in Nat /\ row[g] \in Nat /\ row[h] \in Nat
      /\ row[f] = row[g] => f = g
    BY ArchiveConstants DEF RowsGiven, Archived
<1> QED
    BY <1>1 DEF Later

LEMMA RankedIs ==
  ASSUME NEW row, RowsGiven(row), NEW S \in SUBSET Archived(row)
  PROVE  /\ Cardinality(S) \in Nat
         /\ \A k \in 1..Cardinality(S) : Ranked(S, row)[k] \in S
         /\ \A f \in S : \E k \in 1..Cardinality(S) : Ranked(S, row)[k] = f
         /\ \A k, l \in 1..Cardinality(S) : k < l => Later(Ranked(S, row)[k], Ranked(S, row)[l], row)
<1> DEFINE R == {p \in S \X S : Later(p[1], p[2], row)}
           rank(f) == Cardinality({g \in S : <<g, f>> \in R})
           n == Cardinality(S)
<1>1. \A f, g \in S : <<f, g>> \in R <=> Later(f, g, row)
    OBVIOUS
<1>2. IsFiniteSet(S)
    BY FS_Subset DEF RowsGiven
<1>3. /\ \A f \in S : <<f, f>> \notin R
      /\ \A f, g, h \in S : <<f, g>> \in R /\ <<g, h>> \in R => <<f, h>> \in R
      /\ \A f, g \in S : f = g \/ <<f, g>> \in R \/ <<g, f>> \in R
  <2>1. \A f, g, h \in S : f \in Archived(row) /\ g \in Archived(row) /\ h \in Archived(row)
      OBVIOUS
  <2> HIDE DEF R
  <2> QED
      BY <1>1, <2>1, LaterIsAnOrder
<1> HIDE DEF R
<1>4. /\ n \in Nat
      /\ \A f \in S : rank(f) \in 0..(n - 1)
      /\ \A f, g \in S : <<f, g>> \in R <=> rank(f) < rank(g)
      /\ \A k \in 0..(n - 1) : \E f \in S : rank(f) = k
    BY <1>2, <1>3, Ranks
<1>5. \A f \in S : {g \in S : Later(g, f, row)} = {g \in S : <<g, f>> \in R}
    BY <1>1
<1>6. \A k \in 1..n : Ranked(S, row)[k] \in S /\ rank(Ranked(S, row)[k]) = k - 1
  <2> SUFFICES ASSUME NEW k \in 1..n PROVE Ranked(S, row)[k] \in S /\ rank(Ranked(S, row)[k]) = k - 1
      OBVIOUS
  <2>1. Ranked(S, row)[k] = CHOOSE f \in S : Cardinality({g \in S : Later(g, f, row)}) = k - 1
      BY DEF Ranked
  <2>2. k - 1 \in 0..(n - 1)
      BY <1>4
  <2>3. PICK f \in S : rank(f) = k - 1
      BY <2>2, <1>4
  <2>4. \E e \in S : Cardinality({g \in S : Later(g, e, row)}) = k - 1
      BY <2>3, <1>5
  <2>5. /\ Ranked(S, row)[k] \in S
        /\ Cardinality({g \in S : Later(g, Ranked(S, row)[k], row)}) = k - 1
      BY <2>1, <2>4
  <2> QED
      BY <2>5, <1>5
<1> HIDE DEF rank, n
<1>7. ASSUME NEW f \in S PROVE \E k \in 1..n : Ranked(S, row)[k] = f
  <2>1. rank(f) \in 0..(n - 1) /\ n \in Nat
      BY <1>4
  <2>2. PICK k \in 1..n : k = rank(f) + 1
      BY <2>1
  <2>3. Ranked(S, row)[k] \in S /\ rank(Ranked(S, row)[k]) = rank(f)
      BY <2>1, <2>2, <1>6
  <2>4. ~(rank(f) < rank(f))
      BY <2>1
  <2>5. <<f, Ranked(S, row)[k]>> \notin R /\ <<Ranked(S, row)[k], f>> \notin R
      BY <2>3, <2>4, <1>4
  <2> QED
      BY <2>3, <2>5, <1>3
<1>8. ASSUME NEW k \in 1..n, NEW l \in 1..n, k < l
      PROVE  Later(Ranked(S, row)[k], Ranked(S, row)[l], row)
  <2>1. /\ Ranked(S, row)[k] \in S /\ rank(Ranked(S, row)[k]) = k - 1
        /\ Ranked(S, row)[l] \in S /\ rank(Ranked(S, row)[l]) = l - 1
      BY <1>6
  <2>2. k - 1 < l - 1
      BY <1>4, <1>8
  <2>3. <<Ranked(S, row)[k], Ranked(S, row)[l]>> \in R
      BY <2>1, <2>2, <1>4
  <2> QED
      BY <2>1, <2>3, <1>1
<1> QED
    BY <1>4, <1>6, <1>7, <1>8 DEF n

-----------------------------------------------------------------------------
(* What the updates of a message do to it, applied in order.               *)
Shown == [text : Fact, revoked : BOOLEAN]

LEMMA UpdateIs ==
  ASSUME NEW s \in Shown, NEW f \in Fact
  PROVE  /\ ProjectUpdate(s, f) \in Shown
         /\ ProjectUpdate(s, f).text = IF FactKind[f] = "edit" THEN f ELSE s.text
         /\ ProjectUpdate(s, f).revoked <=> s.revoked \/ FactKind[f] = "revocation"
<1>1. CASE FactKind[f] = "edit"
  <2>1. ProjectUpdate(s, f) = [s EXCEPT !.text = f]
      BY <1>1 DEF ProjectUpdate
  <2>2. [s EXCEPT !.text = f] \in Shown /\ [s EXCEPT !.text = f].text = f
        /\ [s EXCEPT !.text = f].revoked = s.revoked
      BY DEF Shown
  <2> QED
      BY <2>1, <2>2, <1>1
<1>2. CASE FactKind[f] = "revocation"
  <2>1. ProjectUpdate(s, f) = [s EXCEPT !.revoked = TRUE]
      BY <1>2 DEF ProjectUpdate
  <2>2. [s EXCEPT !.revoked = TRUE] \in Shown /\ [s EXCEPT !.revoked = TRUE].text = s.text
        /\ [s EXCEPT !.revoked = TRUE].revoked = TRUE
      BY DEF Shown
  <2> QED
      BY <2>1, <2>2, <1>2
<1>3. CASE FactKind[f] # "edit" /\ FactKind[f] # "revocation"
  <2>1. ProjectUpdate(s, f) = s
      BY <1>3 DEF ProjectUpdate
  <2> QED
      BY <2>1, <1>3
<1> QED
    BY <1>1, <1>2, <1>3

(* The messages after each of the first n updates of a sequence.           *)
Steps(s, u, n) == {a \in [0..n -> Shown] :
                     \A k \in 0..n : a[k] = IF k = 0 THEN s ELSE ProjectUpdate(a[k - 1], u[k])}

LEMMA StepsExist ==
  ASSUME NEW s \in Shown, NEW N \in Nat, NEW u, \A k \in 1..N : u[k] \in Fact
  PROVE  Steps(s, u, N) # {}
<1> DEFINE T == {n \in 0..N : Steps(s, u, n) # {}}
<1>1. 0 \in T
  <2> DEFINE a == [k \in 0..0 |-> s]
  <2>1. a \in [0..0 -> Shown] /\ \A k \in 0..0 : a[k] = IF k = 0 THEN s ELSE ProjectUpdate(a[k - 1], u[k])
      OBVIOUS
  <2>2. a \in Steps(s, u, 0)
    <3> HIDE DEF a
    <3> QED
        BY <2>1 DEF Steps
  <2> QED
      BY <2>2
<1>2. ASSUME NEW n \in 0..(N - 1), n \in T PROVE n + 1 \in T
  <2>0. n \in Nat /\ n + 1 \in 1..N /\ n + 1 \in 0..N /\ u[n + 1] \in Fact
      OBVIOUS
  <2>1. PICK a : a \in Steps(s, u, n)
      BY <1>2
  <2>2. /\ a \in [0..n -> Shown]
        /\ \A k \in 0..n : a[k] = IF k = 0 THEN s ELSE ProjectUpdate(a[k - 1], u[k])
      BY <2>1 DEF Steps
  <2> DEFINE b == [k \in 0..(n + 1) |-> IF k = n + 1 THEN ProjectUpdate(a[n], u[n + 1]) ELSE a[k]]
  <2>3. ProjectUpdate(a[n], u[n + 1]) \in Shown
      BY <2>0, <2>2, UpdateIs
  <2>4. b \in [0..(n + 1) -> Shown]
    <3>1. \A k \in 0..(n + 1) : k # n + 1 => k \in 0..n
        BY <2>0
    <3> QED
        BY <2>2, <2>3, <3>1
  <2>5. \A k \in 0..(n + 1) : b[k] = IF k = 0 THEN s ELSE ProjectUpdate(b[k - 1], u[k])
    <3> SUFFICES ASSUME NEW k \in 0..(n + 1)
                 PROVE  b[k] = IF k = 0 THEN s ELSE ProjectUpdate(b[k - 1], u[k])
        OBVIOUS
    <3>1. CASE k = n + 1
      <4>1. k # 0 /\ k - 1 = n /\ n \in 0..(n + 1) /\ n # n + 1
          BY <3>1, <2>0
      <4>2. b[k] = ProjectUpdate(a[n], u[n + 1]) /\ b[n] = a[n]
          BY <3>1, <4>1
      <4> QED
          BY <3>1, <4>1, <4>2
    <3>2. CASE k # n + 1
      <4>1. k \in 0..n /\ b[k] = a[k]
          BY <3>2, <2>0
      <4>2. k # 0 => k - 1 \in 0..(n + 1) /\ k - 1 # n + 1
          BY <4>1, <2>0
      <4>3. k # 0 => b[k - 1] = a[k - 1]
          BY <4>2
      <4> QED
          BY <4>1, <4>3, <2>2
    <3> QED
        BY <3>1, <3>2
  <2>6. b \in Steps(s, u, n + 1)
    <3> HIDE DEF b
    <3> QED
        BY <2>4, <2>5 DEF Steps
  <2> QED
      BY <2>0, <2>6
<1>3. \A n \in 0..N : n \in T
  <2> HIDE DEF T
  <2> QED
      BY <1>1, <1>2, CountUp
<1>4. N \in 0..N
    OBVIOUS
<1> QED
    BY <1>3, <1>4

(* The message after all of them: revoked if one of them is a revocation;  *)
(* with the text of the last edit.                                         *)
LEMMA AppliedIs ==
  ASSUME NEW row, RowsGiven(row), NEW S \in SUBSET Archived(row), NEW s \in Shown
  PROVE  /\ Applied(s, S, row) \in Shown
         /\ Applied(s, S, row).revoked <=> s.revoked \/ \E f \in S : FactKind[f] = "revocation"
         /\ (\A f \in S : FactKind[f] # "edit") => Applied(s, S, row).text = s.text
         /\ (\E f \in S : FactKind[f] = "edit") =>
              LET t == Applied(s, S, row).text
              IN  /\ t \in S /\ FactKind[t] = "edit"
                  /\ \A f \in S : FactKind[f] = "edit" => f = t \/ Later(f, t, row)
<1> DEFINE n == Cardinality(S)
           u == Ranked(S, row)
           F(g) == [k \in 0..n |-> IF k = 0 THEN s ELSE ProjectUpdate(g[k - 1], u[k])]
           a == CHOOSE g : g = F(g)
<1>1. /\ n \in Nat
      /\ \A k \in 1..n : u[k] \in S
      /\ \A f \in S : \E k \in 1..n : u[k] = f
      /\ \A k, l \in 1..n : k < l => Later(u[k], u[l], row)
    BY RankedIs
<1>2. \A k \in 1..n : u[k] \in Fact
    BY <1>1 DEF Archived
<1>3. Applied(s, S, row) = a[n]
    BY Zenon DEF Applied
<1> HIDE DEF n, u
<1>4. \E g : g = F(g)
  <2>1. PICK g : g \in Steps(s, u, n)
      BY <1>1, <1>2, StepsExist
  <2>2. /\ g \in [0..n -> Shown]
        /\ \A k \in 0..n : g[k] = IF k = 0 THEN s ELSE ProjectUpdate(g[k - 1], u[k])
      BY <2>1 DEF Steps
  <2>3. g = F(g)
      BY <2>2
  <2> QED
      BY <2>3
<1>5. a = F(a)
  <2> HIDE DEF F
  <2> QED
      BY <1>4, Zenon
<1> HIDE DEF a
<1>6. \A k \in 0..n : a[k] = IF k = 0 THEN s ELSE ProjectUpdate(a[k - 1], u[k])
    BY <1>5
<1> DEFINE Edit(k) == FactKind[u[k]] = "edit"
           Good(k) ==
             /\ a[k] \in Shown
             /\ a[k].revoked <=> s.revoked \/ \E j \in 1..k : FactKind[u[j]] = "revocation"
             /\ \/ a[k].text = s.text /\ \A j \in 1..k : ~Edit(j)
                \/ \E i \in 1..k : Edit(i) /\ a[k].text = u[i] /\ \A j \in 1..k : Edit(j) => j <= i
           T == {k \in 0..n : Good(k)}
<1> HIDE DEF F
<1>7. 0 \in T
  <2>1. a[0] = s /\ 0 \in 0..n
      BY <1>1, <1>6
  <2> QED
      BY <2>1
<1>8. ASSUME NEW k \in 0..(n - 1), k \in T PROVE k + 1 \in T
  <2>0. k \in Nat /\ k + 1 \in 1..n /\ k + 1 \in 0..n /\ (k + 1) - 1 = k /\ k + 1 # 0
      BY <1>1
  <2>1. Good(k)
      BY <1>8
  <2>2. a[k + 1] = ProjectUpdate(a[k], u[k + 1]) /\ u[k + 1] \in Fact
      BY <2>0, <1>6, <1>2
  <2>3. /\ a[k + 1] \in Shown
        /\ a[k + 1].text = IF Edit(k + 1) THEN u[k + 1] ELSE a[k].text
        /\ a[k + 1].revoked <=> a[k].revoked \/ FactKind[u[k + 1]] = "revocation"
      BY <2>1, <2>2, UpdateIs
  <2>4. \A j \in 1..(k + 1) : j \in 1..k \/ j = k + 1
      BY <2>0
  <2>5. \A j \in 1..k : j \in 1..(k + 1) /\ j <= k + 1
      BY <2>0
  <2>6. k + 1 \in 1..(k + 1) /\ k + 1 <= k + 1
      BY <2>0
  <2>7. a[k + 1].revoked <=> s.revoked \/ \E j \in 1..(k + 1) : FactKind[u[j]] = "revocation"
      BY <2>1, <2>3, <2>4, <2>5, <2>6
  <2>8. \/ a[k + 1].text = s.text /\ \A j \in 1..(k + 1) : ~Edit(j)
        \/ \E i \in 1..(k + 1) : Edit(i) /\ a[k + 1].text = u[i] /\ \A j \in 1..(k + 1) : Edit(j) => j <= i
    <3> HIDE DEF Edit
    <3>1. CASE Edit(k + 1)
      <4>1. a[k + 1].text = u[k + 1]
          BY <3>1, <2>3
      <4>2. \A j \in 1..(k + 1) : j <= k + 1
          BY <2>4, <2>5, <2>6
      <4> QED
          BY <3>1, <4>1, <4>2, <2>6
    <3>2. CASE ~Edit(k + 1)
      <4>1. a[k + 1].text = a[k].text
          BY <3>2, <2>3
      <4>2. CASE a[k].text = s.text /\ \A j \in 1..k : ~Edit(j)
          BY <4>1, <4>2, <3>2, <2>4
      <4>3. CASE \E i \in 1..k : Edit(i) /\ a[k].text = u[i] /\ \A j \in 1..k : Edit(j) => j <= i
          BY <4>1, <4>3, <3>2, <2>4, <2>5
      <4> QED
          BY <4>2, <4>3, <2>1
    <3> QED
        BY <3>1, <3>2
  <2>9. Good(k + 1)
      BY <2>3, <2>7, <2>8
  <2> HIDE DEF Good
  <2> QED
      BY <2>0, <2>9
<1>9. \A k \in 0..n : k \in T
  <2> HIDE DEF T
  <2> QED
      BY <1>1, <1>7, <1>8, CountUp
<1>10. Good(n)
  <2>1. n \in 0..n
      BY <1>1
  <2> HIDE DEF Good
  <2> QED
      BY <2>1, <1>9
<1> DEFINE t == a[n].text
<1>11. a[n] \in Shown
    BY <1>10
<1>12. a[n].revoked <=> s.revoked \/ \E f \in S : FactKind[f] = "revocation"
    BY <1>10, <1>1
<1>13. (\A f \in S : FactKind[f] # "edit") => t = s.text
    BY <1>10, <1>1
<1>14. ASSUME NEW e \in S, FactKind[e] = "edit"
       PROVE  t \in S /\ FactKind[t] = "edit" /\ \A f \in S : FactKind[f] = "edit" => f = t \/ Later(f, t, row)
  <2>1. PICK x \in 1..n : u[x] = e
      BY <1>1
  <2>2. PICK i \in 1..n : Edit(i) /\ t = u[i] /\ \A j \in 1..n : Edit(j) => j <= i
      BY <1>10, <1>14, <2>1
  <2>3. ASSUME NEW f \in S, FactKind[f] = "edit" PROVE f = t \/ Later(f, t, row)
    <3>1. PICK j \in 1..n : u[j] = f
        BY <1>1
    <3>2. j <= i /\ i \in Nat /\ j \in Nat
        BY <3>1, <2>2, <2>3, <1>1
    <3>3. j = i \/ j < i
        BY <3>2
    <3> HIDE DEF t, Edit
    <3> QED
        BY <3>1, <3>3, <2>2, <1>1
  <2> QED
      BY <2>2, <2>3, <1>1
<1> QED
    BY <1>3, <1>11, <1>12, <1>13, <1>14

LEMMA RebuildShows ==
  ASSUME NEW row, RowsGiven(row), NEW m
  PROVE  Shows(m, row, Rebuild(m, row))
<1>1. CASE Arrivals(m, row) = {}
    BY <1>1 DEF Rebuild, Shows
<1>2. CASE Arrivals(m, row) # {}
  <2> DEFINE first == CHOOSE f \in Arrivals(m, row) : TRUE
             s == [text |-> first, revoked |-> FALSE]
             S == FactsOf(m, row) \ Arrivals(m, row)
             shown == Rebuild(m, row)
             edits == {f \in FactsOf(m, row) : FactKind[f] = "edit"}
  <2>1. first \in Arrivals(m, row)
      BY <1>2
  <2>2. first \in Fact /\ S \in SUBSET Archived(row)
      BY <2>1 DEF Arrivals, FactsOf, Archived
  <2>3. s \in Shown /\ s.text = first /\ s.revoked = FALSE
      BY <2>2 DEF Shown
  <2>4. shown = Applied(s, S, row)
      BY <1>2 DEF Rebuild
  <2>5. \A f \in FactsOf(m, row) : f \in S <=> FactKind[f] # "arrival"
      BY DEF Arrivals
  <2>6. \A f \in S : f \in FactsOf(m, row)
      OBVIOUS
  <2> HIDE DEF s, S, shown, first
  <2>7. /\ shown.revoked <=> \E f \in S : FactKind[f] = "revocation"
        /\ (\A f \in S : FactKind[f] # "edit") => shown.text = first
        /\ (\E f \in S : FactKind[f] = "edit") =>
              /\ shown.text \in S /\ FactKind[shown.text] = "edit"
              /\ \A f \in S : FactKind[f] = "edit" => f = shown.text \/ Later(f, shown.text, row)
      BY <2>2, <2>3, <2>4, AppliedIs
  <2>8. shown.revoked <=> \E f \in FactsOf(m, row) : FactKind[f] = "revocation"
      BY <2>5, <2>6, <2>7
  <2>9. edits = {} => shown.text \in Arrivals(m, row)
      BY <2>1, <2>6, <2>7
  <2>10. edits # {} => /\ shown.text \in edits
                       /\ \A f \in edits : f = shown.text \/ Later(f, shown.text, row)
      BY <2>5, <2>6, <2>7
  <2>11. ASSUME NEW f \in edits, edits # {}
         PROVE  IF FactTime[shown.text] = 0
                THEN FactTime[f] = 0 => row[f] <= row[shown.text]
                ELSE FactTime[f] \in 1..FactTime[shown.text]
    <3>1. shown.text \in Fact /\ f \in Fact /\ (f = shown.text \/ Later(f, shown.text, row))
        BY <2>10, <2>11 DEF FactsOf
    <3>2. /\ FactTime[f] \in Nat /\ FactTime[shown.text] \in Nat
          /\ row[f] \in Nat /\ row[shown.text] \in Nat
        BY <3>1, ArchiveConstants DEF RowsGiven
    <3> QED
        BY <3>1, <3>2 DEF Later
  <2> QED
      BY <1>2, <2>8, <2>9, <2>10, <2>11 DEF Shows, shown
<1> QED
    BY <1>1, <1>2

-----------------------------------------------------------------------------
LEMMA RowIsNew ==
  ASSUME NEW row, RowsGiven(row), NEW f \in Fact, row[f] = 0
  PROVE  RowsGiven([row EXCEPT ![f] = 1 + Cardinality(Archived(row))])
<1> DEFINE n == Cardinality(Archived(row))
           new == [row EXCEPT ![f] = 1 + n]
<1>1. /\ row \in [Fact -> Nat] /\ IsFiniteSet(Archived(row)) /\ n \in Nat
      /\ \A g \in Archived(row) : row[g] <= n /\ row[g] \in Nat
      /\ \A g, h \in Archived(row) : row[g] = row[h] => g = h
    BY FS_CardinalityType DEF RowsGiven, Archived
<1>2. f \notin Archived(row)
    BY DEF Archived
<1> HIDE DEF n
<1>3. new \in [Fact -> Nat] /\ new[f] = 1 + n /\ \A g \in Fact \ {f} : new[g] = row[g]
    BY <1>1
<1> HIDE DEF new
<1>4. Archived(new) = Archived(row) \cup {f}
    BY <1>1, <1>2, <1>3 DEF Archived
<1>5. IsFiniteSet(Archived(new)) /\ Cardinality(Archived(new)) = n + 1
    BY <1>1, <1>2, <1>4, FS_AddElement DEF n
<1>6. \A g \in Archived(row) : g \in Fact /\ g # f /\ new[g] = row[g]
    BY <1>2, <1>3 DEF Archived
<1>7. \A g \in Archived(new) : new[g] <= n + 1
    BY <1>1, <1>3, <1>4, <1>6
<1>8. \A g, h \in Archived(new) : new[g] = new[h] => g = h
    BY <1>1, <1>3, <1>4, <1>6
<1> QED
    BY <1>3, <1>5, <1>7, <1>8 DEF RowsGiven, new, n

LEMMA InitArchiveInv == ArchiveInit => ArchiveInv
<1> SUFFICES ASSUME ArchiveInit PROVE ArchiveInv
    OBVIOUS
<1>1. rowid = [f \in Fact |-> 0] /\ projected = [m \in Message |-> Blank]
    BY DEF ArchiveInit
<1>2. Archived(rowid) = {}
    BY <1>1 DEF Archived
<1>3. RowsGiven(rowid)
    BY <1>1, <1>2, FS_EmptySet DEF RowsGiven
<1>4. \A m \in Message : Arrivals(m, rowid) = {}
    BY <1>1 DEF Arrivals, FactsOf
<1> QED
    BY <1>1, <1>3, <1>4 DEF ArchiveInv, Shows

LEMMA NextArchiveInv == ArchiveInv /\ [ArchiveNext]_archiveVars => ArchiveInv'
<1> SUFFICES ASSUME ArchiveInv, [ArchiveNext]_archiveVars PROVE ArchiveInv'
    OBVIOUS
<1>1. CASE UNCHANGED archiveVars
  <2>1. rowid' = rowid /\ projected' = projected
      BY <1>1 DEF archiveVars
  <2> QED
      BY <2>1 DEF ArchiveInv, Shows, Arrivals, FactsOf, RowsGiven, Archived
<1>2. ASSUME NEW f \in Fact, AppendFact(f) PROVE ArchiveInv'
  <2>1. PICK row : row = [rowid EXCEPT ![f] = 1 + Cardinality(Archived(rowid))]
      OBVIOUS
  <2>2. rowid' = row /\ projected' = [projected EXCEPT ![About[f]] = Rebuild(About[f], row)]
    <3>1. /\ rowid[f] = 0
          /\ rowid' = [rowid EXCEPT ![f] = 1 + Cardinality({g \in Fact : rowid[g] > 0})]
          /\ projected' = [projected EXCEPT ![About[f]] = Rebuild(About[f], rowid')]
        BY <1>2 DEF AppendFact
    <3>2. rowid' = row
        BY <3>1, <2>1 DEF Archived
    <3> QED
        BY <3>1, <3>2
  <2>3. RowsGiven(row) /\ rowid \in [Fact -> Nat] /\ row \in [Fact -> Nat]
    <3>1. rowid[f] = 0 /\ RowsGiven(rowid)
        BY <1>2 DEF AppendFact, ArchiveInv
    <3>2. RowsGiven(row)
        BY <3>1, <2>1, RowIsNew
    <3> QED
        BY <3>1, <3>2 DEF RowsGiven
  <2>4. ASSUME NEW m \in Message PROVE Shows(m, row, projected'[m])
    <3>1. CASE m = About[f]
      <4>1. projected'[m] = Rebuild(m, row)
          BY <3>1, <2>2 DEF ArchiveInv
      <4> QED
          BY <4>1, <2>3, RebuildShows
    <3>2. CASE m # About[f]
      <4>1. projected'[m] = projected[m]
          BY <3>2, <2>2 DEF ArchiveInv
      <4>2. \A g \in Fact : About[g] = m => row[g] = rowid[g]
          BY <3>2, <2>1, <2>3
      <4>3. FactsOf(m, row) = FactsOf(m, rowid) /\ \A g \in FactsOf(m, row) : row[g] = rowid[g]
          BY <4>2 DEF FactsOf
      <4>4. Arrivals(m, row) = Arrivals(m, rowid)
          BY <4>3 DEF Arrivals
      <4>5. Shows(m, rowid, projected[m])
          BY DEF ArchiveInv
      <4> QED
          BY <4>1, <4>3, <4>4, <4>5 DEF Shows
    <3> QED
        BY <3>1, <3>2
  <2>5. projected' = [m \in Message |-> projected'[m]]
      BY <2>2 DEF ArchiveInv
  <2>6. RowsGiven(rowid)' /\ \A m \in Message : Shows(m, rowid, projected[m])'
    <3>1. RowsGiven(rowid)' <=> RowsGiven(row)
        BY <2>2 DEF RowsGiven, Archived
    <3>2. \A m : Shows(m, rowid, projected[m])' <=> Shows(m, row, projected'[m])
        BY <2>2 DEF Shows, Arrivals, FactsOf
    <3> QED
        BY <3>1, <3>2, <2>3, <2>4
  <2> QED
      BY <2>5, <2>6 DEF ArchiveInv
<1> QED
    BY <1>1, <1>2 DEF ArchiveNext

(* The archive's rows are numbered once each, and what it shows of every   *)
(* message is what its facts say, in the order of their times.             *)
THEOREM ArchiveInvariant == ArchiveSpec => []ArchiveInv
<1> QED
    BY InitArchiveInv, NextArchiveInv, PTL DEF ArchiveSpec

(* For any facts, however many and in whatever order they are archived: a  *)
(* message shows its latest edit, and is gone once revoked                 *)
(* (conversation-archive.ts, rebuildProjection).                           *)
THEOREM ProjectionFollowsTimeAlways == ArchiveSpec => []ProjectionFollowsTime
<1>1. ArchiveInv => ProjectionFollowsTime
    BY DEF ArchiveInv, ProjectionFollowsTime, Shows
<1> QED
    BY <1>1, ArchiveInvariant, PTL
=============================================================================
