----------------------------- MODULE TurnTracking -----------------------------
(***************************************************************************)
(* What the operator hears of the Speaker's turns. Flue reports a turn by  *)
(* its dispatch id alone, in observations that may come before dispatch    *)
(* has returned the id, and after a restart before the process knows any   *)
(* turn; the correlator matches them with the Window they answer, in maps  *)
(* that keep the MaxTracked newest entries; the activity reporter turns    *)
(* the matched events into what it tells its subscribers: dispatched,      *)
(* spoke, silent, failed ("done" stands for a turn that completed after    *)
(* it spoke); and the live smoke canary waits for the turn that answers    *)
(* its own message.                                                        *)
(*                                                                         *)
(* A chat has one Flue instance, which runs its turns one after another.   *)
(* A turn is a Window's or, outside forWindow, a Directive's, which this  *)
(* correlator ignores. A tracker is the record of the correlator's         *)
(* and the reporter's state; the operators on it are the functions of the  *)
(* code, applied within one observation or call. The age limit of one day  *)
(* and the limit of four buffered observations of one turn are not         *)
(* reached. ReplayNone is a faulty variant that nothing uses.              *)
(***************************************************************************)
EXTENDS Naturals, Sequences

CONSTANTS
  Dispatch,      \* Flue's dispatch ids
  TurnChat,      \* the chat of each
  MaxTracked,    \* MAX_TRACKED_DISPATCHES
  MaxMishaps,   \* bounds crashes, lost receipts and failed ledger writes together
  NoDispatch

ASSUME TurnConstants ==
  /\ MaxTracked \in Nat \ {0} /\ MaxMishaps \in Nat
  /\ NoDispatch \notin Dispatch
  /\ DOMAIN TurnChat = Dispatch

TurnChats == {TurnChat[t] : t \in Dispatch}

VARIABLES
  forWindow, \* the turns that answer a Window
  receipt,   \* of each turn: none, coming, told, done or unwritten (its row), lost
  turns,      \* the turns each chat's instance still has to finish
  running,   \* those in progress
  cut,       \* those a crash interrupted
  closed,    \* turns that ended in this process
  resolver,  \* the recovery lookup is installed
  tracker,
  canary, canaryTurn, \* the live smoke canary and the turn that will answer it
  \* history and bounds
  said,      \* turns that spoke in this process
  unheard,   \* those that did so before their receipt, or after their eviction
  troubles

Troubled == troubles < MaxMishaps /\ troubles' = troubles + 1

canaryVars == <<canary, canaryTurn>>
runVars == <<forWindow, receipt, turns, running, cut, closed>>
turnVars == <<runVars, resolver, tracker, canaryVars, said, unheard, troubles>>

Fresh ==
  [active |-> <<>>, early |-> <<>>, buffered |-> [t \in Dispatch |-> <<>>],
   settled |-> <<>>, ignored |-> <<>>, announced |-> {}, byKey |-> [c \in TurnChats |-> NoDispatch],
   spoken |-> {}, told |-> [t \in Dispatch |-> <<>>],
   evicted |-> {}, missed |-> {}]  \* history: entries the maps had no room for

TurnInit ==
  /\ forWindow \in SUBSET Dispatch
  /\ receipt = [t \in Dispatch |-> "none"]
  /\ turns = [c \in TurnChats |-> <<>>]
  /\ running = {} /\ cut = {} /\ closed = {} /\ said = {} /\ unheard = {}
  /\ resolver = FALSE
  /\ tracker = Fresh
  /\ canary = "idle" /\ canaryTurn = NoDispatch
  /\ troubles = 0

-----------------------------------------------------------------------------
(* The correlator.                                                         *)

Has(s, t) == \E i \in DOMAIN s : s[i] = t

(* The keys of a Map are a sequence without repetition, oldest first.      *)
Without(s, t) ==
  LET at == CHOOSE i \in DOMAIN s : s[i] = t
  IN  IF Has(s, t) THEN [i \in 1..(Len(s) - 1) |-> s[IF i < at THEN i ELSE i + 1]] ELSE s
Full(s) == Len(s) >= MaxTracked
Trim(s) == IF Full(s) THEN Tail(s) ELSE s

Tells(k, t, what) == [k EXCEPT !.told[t] = Append(@, what)]

Announce(k, t) ==
  IF t \in k.announced THEN k
  ELSE [Tells(k, t, "dispatched") EXCEPT !.announced = @ \cup {t}]

Forget(k, t) ==
  [k EXCEPT !.active = Without(@, t),
            !.announced = @ \ {t},
            !.byKey = [c \in TurnChats |-> IF @[c] = t /\ Has(k.active, t) THEN NoDispatch ELSE @[c]]]

MarkSettled(k, t) == [Forget(k, t) EXCEPT !.settled = Append(Trim(@), t)]

Remember(k, t) ==
  LET room == IF Full(k.active)
              THEN [Forget(k, Head(k.active)) EXCEPT !.evicted = @ \cup {Head(k.active)}] ELSE k
  IN [room EXCEPT !.active = IF Has(@, t) THEN @ ELSE Append(@, t)]

(* The reporter's listener: what a verdict of the correlator is told as.   *)
Verdict(k, t, ok) ==
  [Tells(k, t, IF ~ok THEN "failed" ELSE IF t \in k.spoken THEN "done" ELSE "silent")
     EXCEPT !.spoken = @ \ {t}]

Report(k, t, event) ==
  CASE event = "start" -> [Announce(k, t) EXCEPT !.byKey[TurnChat[t]] = t]
    [] event \in {"settled", "aborted"} -> MarkSettled(Verdict(Announce(k, t), t, event = "settled"), t)
    [] event \in {"ended", "errored"} -> MarkSettled(Verdict(k, t, event = "ended"), t)

Drop(k, t) == [k EXCEPT !.early = Without(@, t), !.buffered[t] = <<>>]

ReplayNone(k, t) == Drop(k, t)

(* A buffered event is reported unless one before it has settled the turn. *)
Replayed(k, t, event) == IF Has(k.settled, t) THEN k ELSE Report(k, t, event)

ReplayEarly(k, t) ==
  LET events == k.buffered[t]
      replay[n \in 0..Len(events)] ==
        IF n = 0 THEN Drop(k, t) ELSE Replayed(replay[n - 1], t, events[n])
  IN  replay[Len(events)]

Buffer(k, t, event) ==
  LET oldest == Head(k.early)
      room == IF Has(k.early, t) \/ ~Full(k.early) THEN k
              ELSE [Drop(k, oldest) EXCEPT !.missed = @ \cup {oldest}]
  IN [room EXCEPT !.early = IF Has(@, t) THEN @ ELSE Append(@, t),
                  !.buffered[t] = Append(@, event),
                  !.missed = IF t \in k.evicted THEN @ \cup {t} ELSE @]

(* windowForDispatch: only a settled admission knows its dispatch.         *)
Resolves(t) == resolver /\ receipt[t] = "done"

Ingest(k, t, event) ==
  IF Has(k.settled, t) \/ Has(k.ignored, t) THEN k
  ELSE IF Has(k.active, t) THEN Report(k, t, event)
  ELSE IF Resolves(t) THEN Report(Remember(k, t), t, event)
  ELSE Buffer(k, t, event)

AcceptTurn(k, t) ==
  IF t \notin forWindow THEN [Drop(k, t) EXCEPT !.ignored = Append(Trim(@), t)]
  ELSE IF Has(k.settled, t) THEN k
  ELSE ReplayEarly(Announce(Remember(k, t), t), t)

Recovered(k, t) == IF receipt[t] = "done" THEN ReplayEarly(Remember(k, t), t) ELSE k

RecoverWith(k) ==
  LET recovered[n \in 0..Len(k.early)] ==
        IF n = 0 THEN k ELSE Recovered(recovered[n - 1], k.early[n])
  IN  recovered[Len(k.early)]

-----------------------------------------------------------------------------
(* The canary's lifecycle: its dispatch is the one announced for the       *)
(* Window that holds its message, its result that dispatch's last one.     *)
Verdicts == {"spoke", "silent", "failed"}

Results(told) == {i \in DOMAIN told : told[i] \in Verdicts}

Judged(now, told) ==
  LET heard == told[canaryTurn]
  IN  IF now # "waiting" \/ ~Has(heard, "dispatched") \/ Results(heard) = {} THEN now
      ELSE IF \E i \in Results(heard) : heard[i] = "silent" /\ \A j \in Results(heard) : j <= i
      THEN "passed" ELSE "failed"

Track(k) ==
  /\ tracker' = k
  /\ canary' = Judged(canary, k.told)

StartCanary(t) ==
  /\ resolver /\ canary = "idle" /\ t \in forWindow /\ receipt[t] = "none"
  /\ canary' = "sending" /\ canaryTurn' = t
  /\ UNCHANGED <<runVars, resolver, tracker, said, unheard, troubles>>

CanarySent ==
  /\ canary = "sending"
  /\ canary' = Judged("waiting", tracker.told)
  /\ UNCHANGED <<runVars, resolver, tracker, canaryTurn, said, unheard, troubles>>

CanaryFails ==
  /\ canary \in {"sending", "waiting"}
  /\ canary' = "failed"
  /\ UNCHANGED <<runVars, resolver, tracker, canaryTurn, said, unheard, troubles>>

-----------------------------------------------------------------------------
(* Dispatching a turn.                                                     *)

(* A chat's Windows are dispatched one at a time, after the runtime stands.*)
DispatchTurn(t) ==
  /\ resolver /\ receipt[t] = "none"
  /\ t \in forWindow => \A u \in forWindow : TurnChat[u] = TurnChat[t] => receipt[u] \notin {"coming", "told"}
  /\ receipt' = [receipt EXCEPT ![t] = "coming"]
  /\ turns' = [turns EXCEPT ![TurnChat[t]] = Append(@, t)]
  /\ UNCHANGED <<forWindow, running, cut, closed, resolver, tracker, canaryVars, said, unheard, troubles>>

(* The receipt arrives; accepted follows at once.                          *)
Receive(t) ==
  /\ receipt[t] = "coming"
  /\ receipt' = [receipt EXCEPT ![t] = "told"]
  /\ Track(AcceptTurn(tracker, t))
  /\ UNCHANGED <<forWindow, turns, running, cut, closed, resolver, canaryTurn, said, unheard, troubles>>

(* markDone, or its failure; a Directive's ledger is another one.          *)
SettleTurn(t) ==
  /\ receipt[t] = "told"
  /\ \/ receipt' = [receipt EXCEPT ![t] = "done"] /\ t \in forWindow /\ UNCHANGED troubles
     \/ receipt' = [receipt EXCEPT ![t] = "unwritten"] /\ Troubled
  /\ UNCHANGED <<forWindow, turns, running, cut, closed, resolver, tracker, canaryVars, said, unheard>>

(* Flue has taken the turn, yet dispatch throws.                           *)
LoseReceipt(t) ==
  /\ receipt[t] = "coming" /\ Troubled
  /\ receipt' = [receipt EXCEPT ![t] = "lost"]
  /\ UNCHANGED <<forWindow, turns, running, cut, closed, resolver, tracker, canaryVars, said, unheard>>

-----------------------------------------------------------------------------
(* Flue runs the turn.                                                     *)

AtHead(t) == turns[TurnChat[t]] # <<>> /\ Head(turns[TurnChat[t]]) = t

BeginTurn(t) ==
  /\ AtHead(t) /\ t \notin running
  /\ running' = running \cup {t} /\ cut' = cut \ {t}
  /\ Track(Ingest(tracker, t, "start"))
  /\ UNCHANGED <<forWindow, receipt, turns, closed, resolver, canaryTurn, said, unheard, troubles>>

Known(t) == receipt[t] \in {"told", "done", "unwritten"}

(* say: spokeForChat finds the turn by its chat, when it can.              *)
Say(t) ==
  /\ t \in running \ said /\ resolver
  /\ LET whose == tracker.byKey[TurnChat[t]]
     IN IF whose # NoDispatch /\ Has(tracker.active, whose)
        THEN Track(Tells([tracker EXCEPT !.spoken = @ \cup {whose}], whose, "spoke"))
        ELSE Track(tracker)
  /\ said' = said \cup {t}
  /\ unheard' = IF Known(t) /\ t \notin tracker.evicted \cup tracker.missed THEN unheard ELSE unheard \cup {t}
  /\ UNCHANGED <<runVars, resolver, canaryTurn, troubles>>

FinishTurn(t, event) ==
  /\ turns' = [turns EXCEPT ![TurnChat[t]] = Tail(@)]
  /\ running' = running \ {t} /\ cut' = cut \ {t} /\ closed' = closed \cup {t}
  /\ Track(Ingest(tracker, t, event))
  /\ UNCHANGED <<forWindow, receipt, resolver, canaryTurn, said, unheard, troubles>>

EndTurn(t) == t \in running /\ \E event \in {"ended", "errored"} : FinishTurn(t, event)

(* Flue's recovery settles what a crash interrupted, unless it runs again. *)
SettleInterrupted(t) == t \in cut /\ AtHead(t) /\ \E event \in {"settled", "aborted"} : FinishTurn(t, event)

CrashProcess ==
  /\ Troubled
  /\ tracker' = Fresh
  /\ resolver' = FALSE
  /\ running' = {} /\ cut' = cut \cup running /\ closed' = {}
  /\ said' = {} /\ unheard' = {}
  /\ receipt' = [t \in Dispatch |-> IF receipt[t] \in {"coming", "told", "unwritten"} THEN "lost" ELSE receipt[t]]
  /\ canary' = "failed" /\ canaryTurn' = NoDispatch
  /\ UNCHANGED <<forWindow, turns>>

(* The runtime stands up and installs the lookup.                          *)
InstallResolver ==
  /\ ~resolver
  /\ resolver' = TRUE
  /\ Track(RecoverWith(tracker))
  /\ UNCHANGED <<runVars, canaryTurn, said, unheard, troubles>>

TurnNext ==
  \/ CanarySent \/ CanaryFails \/ CrashProcess \/ InstallResolver
  \/ \E t \in Dispatch :
       \/ StartCanary(t) \/ DispatchTurn(t) \/ Receive(t) \/ SettleTurn(t) \/ LoseReceipt(t)
       \/ BeginTurn(t) \/ Say(t) \/ EndTurn(t) \/ SettleInterrupted(t)

-----------------------------------------------------------------------------
TurnSpec == TurnInit /\ [][TurnNext]_turnVars

-----------------------------------------------------------------------------
Told(t, what) == Has(tracker.told[t], what)
Closing == {"silent", "done", "failed"}
Closed(t) == \E what \in Closing : Told(t, what)
AtMostOnce(t, kinds) ==
  \A i, j \in DOMAIN tracker.told[t] :
    {tracker.told[t][i], tracker.told[t][j]} \subseteq kinds => i = j

(* A turn is announced before its verdict, and, unless its entry was       *)
(* evicted, once: also when its observations came first, and when a        *)
(* restart brings them back before the process knows the turn.             *)
AnnouncedOnce ==
  \A t \in Dispatch :
    /\ Closed(t) /\ t \notin tracker.missed => Told(t, "dispatched")
    /\ t \notin tracker.evicted => AtMostOnce(t, {"dispatched"})

(* The verdict of a turn is told once, and it is never lost for a turn the *)
(* process was told of or can look up, however many turns are tracked, as  *)
(* long as the observations did not have to be buffered beyond the limit   *)
(* (or evicted from it before its admission's row was settled).            *)
VerdictOnce ==
  \A t \in Dispatch :
    /\ AtMostOnce(t, Closing)
    /\ t \in closed \cap forWindow /\ t \notin tracker.missed /\ resolver /\ Known(t) => Closed(t)

(* Nobody is told that a turn was silent which spoke after its receipt,    *)
(* nor that it spoke when another one did; a Directive's turn is never     *)
(* told.                                                                   *)
SilentIsTrue ==
  \A t \in Dispatch :
    /\ Told(t, "silent") => t \notin said \ unheard
    /\ Told(t, "spoke") => t \in said
    /\ tracker.told[t] # <<>> => t \in forWindow

(* The canary passes only when the turn that answered it was told silent   *)
(* and was so, and never waits for a turn whose verdict has been told,     *)
(* also when it came before the message's own receipt.                     *)
CanaryTrue ==
  /\ canary = "passed" => Told(canaryTurn, "silent") /\ canaryTurn \notin said \ unheard
  /\ canary = "waiting" => Results(tracker.told[canaryTurn]) = {}

TurnsAreTold == AnnouncedOnce /\ VerdictOnce /\ SilentIsTrue /\ CanaryTrue
=============================================================================
