-------------------------- MODULE DirectiveDelivery --------------------------
(***************************************************************************)
(* What becomes of a Directive the Brain sends to a Speaker: its dispatch  *)
(* to the Speaker's Flue lane, the one attempt to say it                   *)
(* (engine/src/surfaces/delivery.ts, directive-delivery/runtime.ts), the   *)
(* send through WhatsApp and its archive event, and the durable Directive  *)
(* Outcome, which the tool writes or the settlement of the turn            *)
(* (dispatch-correlator.ts, activity-reporter.ts, whatsapp-runtime.ts).    *)
(*                                                                         *)
(* Three parties keep state: the application database and Flue's lane are  *)
(* durable and separate, WhatsApp is outside, and everything else, the     *)
(* correlator above all, dies with the process. Flue resumes its lane      *)
(* before startWhatsAppRuntime is called.                                  *)
(*                                                                         *)
(* One Speaker, whose lane all Directives of the instance share. Its model *)
(* may say a Directive any number of times or not at all, which also       *)
(* covers a say_directive that throws because the Surface lost its         *)
(* binding. The correlator never reaches its bounds of 100 entries and 24  *)
(* hours. SettleOverDelivery, FailOverOutcome and AcceptedWithoutReplay    *)
(* are faulty variants that nothing uses.                                  *)
(***************************************************************************)
EXTENDS Naturals, Sequences

CONSTANTS
  Directive,  \* prompt_speaker Effects
  MaxSubs,    \* bounds the dispatches of one Directive
  MaxCrashes, \* bounds the crashes of the process
  Fallible,   \* whether the fiber of the runtime may fail
  None        \* no value

Submission == Directive \X (1..MaxSubs)   \* one dispatch, under Flue's own dispatch id
Of(s)      == s[1]                        \* the Directive in its input

Verdicts == {"delivered", "failed", "uncertain", "settled_without_say"}

ASSUME DirectiveConstants ==
  /\ MaxSubs \in Nat
  /\ MaxCrashes \in Nat
  /\ Fallible \in BOOLEAN
  /\ None \notin Submission
  /\ None \notin {"called", "acknowledged", "sent", "unknown", "failed", "completed"}

VARIABLES
  \* the application database
  status,     \* status of the Effect: absent, pending or accepted
  dispatchOf, \* its dispatch_id
  delivery,   \* status of the surface_deliveries row
  outcome,    \* status of the directive_outcomes row
  archived,   \* Directives whose outbound message is in the archive
  \* Flue
  lane,       \* durable: submissions of the Speaker, in order
  turn,       \* the head of the lane: idle, running, or ended and not yet settled
  \* the process
  phase,      \* how far the runtime has come
  snapshot,   \* prompts recoverPendingPrompts has still to deliver
  call,       \* progress of each deliverPrompt call
  sending,    \* progress of each Directive's say, None when there is none
  active,     \* correlator: submissions whose context it holds
  early,      \* correlator: terminal events it buffers
  seen,       \* correlator: submissions it has settled
  \* history
  sends,      \* how often WhatsApp sent the Directive's message
  lost,       \* Directives the terminal event of whose recorded dispatch nobody heard
  crashes

effects   == <<status, dispatchOf>>
ledger    == <<delivery, outcome>>
provider  == <<archived, sends>>
flue      == <<lane, turn>>
boot      == <<phase, snapshot>>
correlator == <<active, early, seen>>
vars == <<effects, ledger, provider, flue, boot, call, sending, correlator, lost, crashes>>

InitAt(stage) ==
  /\ status = [d \in Directive |-> "absent"]
  /\ dispatchOf = [d \in Directive |-> None]
  /\ delivery = [d \in Directive |-> "absent"]
  /\ outcome = [d \in Directive |-> "none"]
  /\ archived = {}
  /\ lane = <<>>
  /\ turn = "idle"
  /\ phase = stage
  /\ snapshot = {}
  /\ call = [s \in Submission |-> "none"]
  /\ sending = [d \in Directive |-> None]
  /\ active = {}
  /\ early = [s \in Submission |-> None]
  /\ seen = {}
  /\ sends = [d \in Directive |-> 0]
  /\ lost = {}
  /\ crashes = 0
Init == InitAt("starting")

-----------------------------------------------------------------------------
(* The delivery ledger.                                                    *)

(* The store is open and the say_directive tool is configured.             *)
LedgerOpen == phase \in {"subscribed", "configured", "online"}

(* settleNoDelivery: the first Outcome stands, and an attempt makes the    *)
(* Directive uncertain rather than unsaid.                                 *)
SettleOverDelivery(d, verdict) ==
  /\ outcome' = [outcome EXCEPT ![d] = IF @ = "none" THEN verdict ELSE @]
  /\ UNCHANGED delivery
FailOverOutcome(d, verdict) ==
  /\ outcome' = [outcome EXCEPT ![d] = IF delivery[d] = "absent" THEN verdict ELSE "uncertain"]
  /\ delivery' = [delivery EXCEPT ![d] = IF @ = "absent" THEN @ ELSE "uncertain"]
SettleNoDelivery(d, verdict) ==
  IF outcome[d] # "none" THEN UNCHANGED ledger
  ELSE IF delivery[d] = "absent"
  THEN /\ outcome' = [outcome EXCEPT ![d] = verdict]
       /\ UNCHANGED delivery
  ELSE /\ outcome' = [outcome EXCEPT ![d] = "uncertain"]
       /\ delivery' = [delivery EXCEPT ![d] = "uncertain"]

(* The subscriber of the terminal events: settleWithoutSay for a turn that *)
(* completed, failWithoutSay for one that failed. Once the fiber failed it *)
(* has unsubscribed, and nobody hears the event.                           *)
VerdictOf(event) == IF event = "completed" THEN "settled_without_say" ELSE "failed"
Lose(unheard) == lost' = lost \cup {Of(s) : s \in {x \in unheard : dispatchOf[Of(x)] = x}}
Hear(s, event) ==
  IF LedgerOpen THEN SettleNoDelivery(Of(s), VerdictOf(event)) /\ UNCHANGED lost
                ELSE Lose({s}) /\ UNCHANGED ledger

-----------------------------------------------------------------------------
(* From the Brain to the lane.                                             *)

ToolsUp == phase \in {"configured", "online"}

(* prompt_speaker, as far as the durable row.                              *)
RecordPrompt(d) ==
  /\ ToolsUp
  /\ status[d] = "absent"
  /\ status' = [status EXCEPT ![d] = "pending"]
  /\ UNCHANGED <<dispatchOf, ledger, provider, flue, boot, call, sending, correlator, lost, crashes>>

NextSub(d) == {s \in Submission : /\ Of(s) = d
                                  /\ call[s] = "none"
                                  /\ \A n \in 1..s[2] - 1 : call[<<d, n>>] # "none"}

(* deliverPromptEffect in a turn of the Brain, for a pending Effect; and   *)
(* recoverPendingPrompts for every Effect that was pending when it looked. *)
BeginDelivery(s) ==
  /\ ToolsUp
  /\ s \in NextSub(Of(s))
  /\ \/ status[Of(s)] = "pending" /\ UNCHANGED snapshot
     \/ Of(s) \in snapshot /\ snapshot' = snapshot \ {Of(s)}
  /\ call' = [call EXCEPT ![s] = "calling"]
  /\ UNCHANGED <<effects, ledger, provider, flue, phase, sending, correlator, lost, crashes>>

FlueAdmits(s) ==
  /\ call[s] = "calling"
  /\ call' = [call EXCEPT ![s] = "admitted"]
  /\ lane' = Append(lane, s)
  /\ UNCHANGED <<effects, ledger, provider, turn, boot, sending, correlator, lost, crashes>>

(* The dispatch throws; the Effect stays pending.                          *)
DispatchThrows(s) ==
  /\ call[s] \in {"calling", "admitted"}
  /\ call' = [call EXCEPT ![s] = "over"]
  /\ UNCHANGED <<effects, ledger, provider, flue, boot, sending, correlator, lost, crashes>>

(* dispatchSpeaker has its receipt and tells the correlator the context,   *)
(* which replays a terminal event that came before.                        *)
AcceptedWithoutReplay(s) ==
  /\ call[s] = "admitted"
  /\ call' = [call EXCEPT ![s] = "accepted"]
  /\ active' = IF s \in seen THEN active ELSE active \cup {s}
  /\ UNCHANGED <<effects, ledger, provider, flue, boot, sending, early, seen, lost, crashes>>
Accepted(s) ==
  /\ call[s] = "admitted"
  /\ call' = [call EXCEPT ![s] = "accepted"]
  /\ IF s \in seen THEN UNCHANGED <<ledger, correlator, lost>>
     ELSE IF early[s] = None
     THEN active' = active \cup {s} /\ UNCHANGED <<ledger, early, seen, lost>>
     ELSE /\ Hear(s, early[s])
          /\ early' = [early EXCEPT ![s] = None]
          /\ seen' = seen \cup {s}
          /\ UNCHANGED active
  /\ UNCHANGED <<effects, provider, flue, boot, sending, crashes>>

(* markPromptAccepted: the first receipt stands.                           *)
MarkAccepted(s) ==
  /\ call[s] = "accepted"
  /\ call' = [call EXCEPT ![s] = "over"]
  /\ IF phase # "failed" /\ status[Of(s)] = "pending"
     THEN /\ status' = [status EXCEPT ![Of(s)] = "accepted"]
          /\ dispatchOf' = [dispatchOf EXCEPT ![Of(s)] = s]
     ELSE UNCHANGED effects
  /\ UNCHANGED <<ledger, provider, flue, boot, sending, correlator, lost, crashes>>

-----------------------------------------------------------------------------
(* The Speaker's turn.                                                     *)

Running == turn = "running"
This    == Head(lane)

TurnStarts ==
  /\ turn = "idle"
  /\ lane # <<>>
  /\ turn' = "running"
  /\ UNCHANGED <<effects, ledger, provider, lane, boot, call, sending, correlator, lost, crashes>>

(* say_directive claims the attempt. A Directive with an Outcome is left   *)
(* alone; one that was attempted before, by this turn, by a duplicate or   *)
(* before a crash, is not attempted again.                                 *)
Claim(d) ==
  /\ outcome[d] = "none"
  /\ IF delivery[d] = "absent"
     THEN /\ delivery' = [delivery EXCEPT ![d] = "attempting"]
          /\ sending' = [sending EXCEPT ![d] = "called"]
          /\ UNCHANGED outcome
     ELSE /\ delivery' = [delivery EXCEPT ![d] = "uncertain"]
          /\ outcome' = [outcome EXCEPT ![d] = "uncertain"]
          /\ UNCHANGED sending
SayDirective ==
  /\ Running
  /\ LedgerOpen
  /\ Claim(Of(This))
  /\ UNCHANGED <<effects, provider, flue, boot, call, correlator, lost, crashes>>

(* The send of the WhatsApp session. The participation port exists only    *)
(* once the session is online; without it the say throws, which is unknown.*)
ProviderSends(d, answer) ==
  /\ phase = "online"
  /\ sending[d] = "called"
  /\ sending' = [sending EXCEPT ![d] = answer]
  /\ sends' = [sends EXCEPT ![d] = @ + 1]
  /\ UNCHANGED <<effects, ledger, archived, flue, boot, call, correlator, lost, crashes>>
ProviderSendsNothing(d, answer) ==
  /\ answer = "failed" => phase = "online"     \* "not online", a known rejection
  /\ sending[d] = "called"
  /\ sending' = [sending EXCEPT ![d] = answer]
  /\ UNCHANGED <<effects, ledger, provider, flue, boot, call, correlator, lost, crashes>>

(* The wrapper of send appends the outbound event; when that throws, so    *)
(* does the send, and what happened is unknown.                            *)
ArchiveAppends(d) ==
  /\ sending[d] = "acknowledged"
  /\ \/ /\ phase # "failed"
        /\ archived' = archived \cup {d}
        /\ sending' = [sending EXCEPT ![d] = "sent"]
     \/ /\ sending' = [sending EXCEPT ![d] = "unknown"]
        /\ UNCHANGED archived
  /\ UNCHANGED <<effects, ledger, sends, flue, boot, call, correlator, lost, crashes>>

(* settle, with the result of say. Only a delivered Outcome stands.        *)
SettledAs(d, result) ==
  CASE result = "sent"   -> IF d \in archived THEN "delivered" ELSE "uncertain"
    [] result = "failed" -> "failed"
    [] OTHER             -> "uncertain"
RowStatus(verdict) == IF verdict = "delivered" THEN "sent" ELSE verdict
Settle(d) ==
  /\ sending[d] \in {"sent", "unknown", "failed"}
  /\ sending' = [sending EXCEPT ![d] = None]
  /\ IF LedgerOpen /\ outcome[d] # "delivered"
     THEN LET verdict == SettledAs(d, sending[d])
          IN  /\ outcome' = [outcome EXCEPT ![d] = verdict]
              /\ delivery' = [delivery EXCEPT ![d] = RowStatus(verdict)]
     ELSE UNCHANGED ledger
  /\ UNCHANGED <<effects, provider, flue, boot, call, correlator, lost, crashes>>

(* The terminal event of the turn reaches the correlator: ingest. It finds *)
(* the context in memory, or through directiveForDispatch once the lookup  *)
(* is installed and while the store is open, or buffers the event.         *)
Known(s) == s \in active \/ (LedgerOpen /\ dispatchOf[Of(s)] = s)
Ingest(s, event) ==
  IF s \in seen THEN UNCHANGED <<ledger, correlator, lost>>
  ELSE IF Known(s)
  THEN /\ Hear(s, event)
       /\ seen' = seen \cup {s}
       /\ active' = active \ {s}
       /\ UNCHANGED early
  ELSE /\ early' = [early EXCEPT ![s] = event]
       /\ IF phase = "failed" THEN Lose({s}) ELSE UNCHANGED lost
       /\ UNCHANGED <<ledger, active, seen>>

(* A turn fails even in the middle of a say: Flue gives it one hour.       *)
TurnEnds(event) ==
  /\ Running
  /\ event = "completed" => sending[Of(This)] = None
  /\ turn' = "ended"
  /\ Ingest(This, event)
  /\ UNCHANGED <<effects, provider, lane, boot, call, sending, crashes>>

(* Flue settles the submission after its event. A crash in between repeats *)
(* the event.                                                              *)
FlueSettles ==
  /\ turn = "ended"
  /\ turn' = "idle"
  /\ lane' = Tail(lane)
  /\ UNCHANGED <<effects, ledger, provider, boot, call, sending, correlator, lost, crashes>>

-----------------------------------------------------------------------------
(* The process.                                                            *)

(* The synchronous part of startWhatsAppRuntime: the ledger is opened, the *)
(* correlator gets its lookup and replays what it can place, and only then *)
(* the subscriber that records Outcomes is added.                          *)
StartRuntime ==
  LET placed == {s \in Submission : early[s] # None /\ dispatchOf[Of(s)] = s}
  IN  /\ phase = "starting"
      /\ phase' = "subscribed"
      /\ Lose(placed)
      /\ seen' = seen \cup placed
      /\ early' = [s \in Submission |-> IF s \in placed THEN None ELSE early[s]]
      /\ UNCHANGED <<effects, ledger, provider, flue, snapshot, call, sending, active, crashes>>

Configure ==
  /\ phase = "subscribed"
  /\ phase' = "configured"
  /\ UNCHANGED <<effects, ledger, provider, flue, snapshot, call, sending, correlator, lost, crashes>>

(* The session runs: the participation port is configured, and             *)
(* recoverPendingPrompts reads the pending prompts.                        *)
GoOnline ==
  /\ phase = "configured"
  /\ phase' = "online"
  /\ snapshot' = {d \in Directive : status[d] = "pending"}
  /\ UNCHANGED <<effects, ledger, provider, flue, call, sending, correlator, lost, crashes>>

(* The fiber fails: its finalizers unsubscribe and close the stores. Flue  *)
(* and the process go on.                                                  *)
FailRuntime ==
  /\ Fallible
  /\ ToolsUp
  /\ phase' = "failed"
  /\ snapshot' = {}
  /\ UNCHANGED <<effects, ledger, provider, flue, call, sending, correlator, lost, crashes>>

(* Everything volatile goes, with it the events the correlator buffers for *)
(* submissions Flue has settled and will not report again.                 *)
Crash ==
  /\ crashes < MaxCrashes
  /\ crashes' = crashes + 1
  /\ phase' = "starting"
  /\ snapshot' = {}
  /\ call' = [s \in Submission |-> IF call[s] = "none" THEN "none" ELSE "over"]
  /\ sending' = [d \in Directive |-> None]
  /\ active' = {}
  /\ early' = [s \in Submission |-> None]
  /\ seen' = {}
  /\ turn' = "idle"
  /\ Lose({s \in Submission : early[s] # None /\ \A k \in DOMAIN lane : lane[k] # s})
  /\ UNCHANGED <<effects, ledger, provider, lane>>

Dispatching ==
  \E s \in Submission :
    BeginDelivery(s) \/ FlueAdmits(s) \/ DispatchThrows(s) \/ Accepted(s) \/ MarkAccepted(s)

Sending ==
  \E d \in Directive :
    \/ \E answer \in {"acknowledged", "unknown"} : ProviderSends(d, answer)
    \/ \E answer \in {"failed", "unknown"} : ProviderSendsNothing(d, answer)
    \/ ArchiveAppends(d)
    \/ Settle(d)

TurnStep ==
  \/ TurnStarts
  \/ SayDirective
  \/ \E event \in {"completed", "failed"} : TurnEnds(event)
  \/ FlueSettles

BootStep == StartRuntime \/ Configure \/ GoOnline

Next ==
  \/ \E d \in Directive : RecordPrompt(d)
  \/ Dispatching
  \/ Sending
  \/ TurnStep
  \/ BootStep
  \/ FailRuntime
  \/ Crash

(* What the event loop runs and Flue claims comes about; a send answers or *)
(* the turn times out; a Directive need not be recorded.                   *)
Fairness ==
  /\ WF_vars(Dispatching)
  /\ WF_vars(Sending)
  /\ WF_vars(TurnStep)
  /\ WF_vars(BootStep)

Spec == Init /\ [][Next]_vars /\ Fairness

-----------------------------------------------------------------------------
(* Properties.                                                             *)

(* Every row has a status its kind has, and the attempt in memory has its  *)
(* row: whatever is being sent was claimed.                                *)
TypeOK ==
  /\ status \in [Directive -> {"absent", "pending", "accepted"}]
  /\ dispatchOf \in [Directive -> Submission \cup {None}]
  /\ delivery \in [Directive -> {"absent", "attempting", "sent", "failed", "uncertain"}]
  /\ outcome \in [Directive -> Verdicts \cup {"none"}]
  /\ archived \subseteq Directive
  /\ lane \in Seq(Submission)
  /\ turn \in {"idle", "running", "ended"}
  /\ turn # "idle" => lane # <<>>
  /\ phase \in {"starting", "subscribed", "configured", "online", "failed"}
  /\ snapshot \subseteq Directive
  /\ call \in [Submission -> {"none", "calling", "admitted", "accepted", "over"}]
  /\ sending \in [Directive -> {None, "called", "acknowledged", "sent", "unknown", "failed"}]
  /\ active \subseteq Submission
  /\ early \in [Submission -> {None, "completed", "failed"}]
  /\ seen \subseteq Submission
  /\ sends \in [Directive -> Nat]
  /\ \A d \in Directive : sending[d] # None => delivery[d] # "absent"
  /\ lost \subseteq Directive
  /\ crashes \in Nat

(* A Directive is said once at most, whatever turns repeat it: duplicate   *)
(* dispatches, resumed turns, a model that calls the tool again.           *)
AtMostOneSend == \A d \in Directive : sends[d] <= 1

(* The Outcome never claims what did not happen: delivered means sent and  *)
(* archived, failed and settled_without_say mean that nothing was sent and *)
(* nothing is being sent.                                                  *)
HonestOutcome ==
  \A d \in Directive :
    /\ outcome[d] = "delivered" => sends[d] = 1 /\ d \in archived
    /\ outcome[d] \in {"failed", "settled_without_say"} => sends[d] = 0 /\ sending[d] = None

(* An Outcome is final, except that proof of what an uncertain one was may *)
(* still arrive.                                                           *)
OutcomeFinality ==
  [][\A d \in Directive :
       outcome'[d] # outcome[d] =>
         \/ outcome[d] = "none"
         \/ outcome[d] = "uncertain" /\ outcome'[d] \in {"delivered", "failed"}]_vars

(* Every accepted Directive gets its Outcome, whenever its turn ends and   *)
(* wherever the process crashes, unless the terminal event was lost.       *)
DirectiveResolved ==
  \A d \in Directive : status[d] = "accepted" ~> outcome[d] # "none" \/ d \in lost

(* Both together: what the chat heard is what the ledger says it heard.    *)
DeliveryIsHonest == AtMostOneSend /\ HonestOutcome
=============================================================================
