----------------------------- MODULE WorkProofs ------------------------------
(***************************************************************************)
(* The work the Brain hands out: Directives to Speakers, Specialist runs.  *)
(*                                                                         *)
(* The safety properties of DirectiveDelivery for any number of Directives *)
(* and dispatches, any number of crashes, and a runtime that may fail.     *)
(* That a send happens once and that its Outcome is honest follows from    *)
(* where the say is (Attempt): what is known of sends at each stage of it. *)
(*                                                                         *)
(* The safety properties of SpecialistDelegation for any number of Works,  *)
(* runs, crashes and exceptions. Bookkeeping says what the process and the *)
(* boot sequence may rely on about Flue's records: live runs are active,   *)
(* what a caller found belongs to its Work, what reconciliation read is    *)
(* still so. OneCaller is what the reservation leaves to luck: as long as  *)
(* callers do not overlap, a search that found nothing stays true.         *)
(*                                                                         *)
(* The safety properties of GraphStore for any Entities, types, Relations  *)
(* and evidence, and logs of any length. GraphInv says that the index in   *)
(* memory is the fold of the log and the rows are what that index amounts  *)
(* to. It is kept because a claim of an Entity or of an edge changes no    *)
(* ruling and no merge, joins one group of claims and leaves what is       *)
(* believed of every other as it was. The rest is true of the fold itself: *)
(* the pieces of support are the chains of claims that share evidence      *)
(* (PiecesCount), and the candidate chosen has the greatest authority      *)
(* (ChosenIs).                                                             *)
(***************************************************************************)
EXTENDS DirectiveDelivery, SpecialistDelegation, GraphStore,
        FiniteSetTheorems, WellFoundedInduction, TLAPS

(* Before the attempt is claimed nothing was sent, and each stage of the   *)
(* say knows what it has done so far.                                      *)
Attempt ==
  \A d \in Directive :
    /\ delivery[d] = "absent" => sends[d] = 0
    /\ sending[d] \in {"called", "failed"} => sends[d] = 0
    /\ sending[d] \in {"acknowledged", "sent"} => sends[d] = 1
    /\ sending[d] = "sent" => d \in archived

DeliveryInv == TypeOK /\ Attempt /\ AtMostOneSend /\ HonestOutcome

-----------------------------------------------------------------------------
(* Type correctness.                                                       *)

LEMMA OfSubmission == \A s \in Submission : Of(s) \in Directive
  BY DEF Submission, Of

LEMMA InitTypeOK == Init => TypeOK
  BY DirectiveConstants DEF Init, InitAt, TypeOK

(* Hearing a terminal event keeps the ledger well typed; it never takes    *)
(* the row of an attempt away.                                             *)
LEMMA HearTypes ==
  ASSUME TypeOK, NEW s \in Submission, NEW event \in {"completed", "failed"}, Hear(s, event)
  PROVE  /\ delivery' \in [Directive -> {"absent", "attempting", "sent", "failed", "uncertain"}]
         /\ outcome' \in [Directive -> Verdicts \cup {"none"}]
         /\ lost' \subseteq Directive
         /\ \A d \in Directive : delivery[d] # "absent" => delivery'[d] # "absent"
<1>1. Of(s) \in Directive
    BY OfSubmission
<1>2. CASE LedgerOpen
    BY <1>1, <1>2 DEF Hear, SettleNoDelivery, VerdictOf, Verdicts, TypeOK, ledger
<1>3. CASE ~ LedgerOpen
    BY <1>1, <1>3 DEF Hear, Lose, TypeOK, ledger
<1> QED
    BY <1>2, <1>3

LEMMA DispatchingTypeOK == TypeOK /\ Dispatching => TypeOK'
<1> SUFFICES ASSUME TypeOK, NEW s \in Submission,
                    \/ BeginDelivery(s) \/ FlueAdmits(s) \/ DispatchThrows(s)
                    \/ Accepted(s) \/ MarkAccepted(s)
             PROVE  TypeOK'
    BY DEF Dispatching
<1> USE DEF effects, ledger, provider, flue, boot, correlator
<1>1. CASE BeginDelivery(s)
    BY <1>1 DEF BeginDelivery, TypeOK
<1>2. CASE FlueAdmits(s)
    BY <1>2 DEF FlueAdmits, TypeOK
<1>3. CASE DispatchThrows(s)
    BY <1>3 DEF DispatchThrows, TypeOK
<1>4. CASE Accepted(s)
  <2> USE <1>4 DEF Accepted
  <2>1. CASE s \in seen
      BY <2>1 DEF TypeOK
  <2>2. CASE s \notin seen /\ early[s] = None
      BY <2>2 DEF TypeOK
  <2>3. CASE s \notin seen /\ early[s] # None
    <3>1. early[s] \in {"completed", "failed"} /\ Hear(s, early[s])
        BY <2>3 DEF TypeOK
    <3> QED
        BY <2>3, <3>1, HearTypes DEF TypeOK
  <2> QED
      BY <2>1, <2>2, <2>3
<1>5. CASE MarkAccepted(s)
    BY <1>5, OfSubmission DEF MarkAccepted, TypeOK
<1> QED
    BY <1>1, <1>2, <1>3, <1>4, <1>5

LEMMA SendingTypeOK == TypeOK /\ Sending => TypeOK'
<1> SUFFICES ASSUME TypeOK, NEW d \in Directive,
                    \/ \E answer \in {"acknowledged", "unknown"} : ProviderSends(d, answer)
                    \/ \E answer \in {"failed", "unknown"} : ProviderSendsNothing(d, answer)
                    \/ ArchiveAppends(d)
                    \/ Settle(d)
             PROVE  TypeOK'
    BY Zenon DEF Sending
<1> USE DEF effects, ledger, provider, flue, boot, correlator
<1>1. ASSUME NEW answer \in {"acknowledged", "unknown"}, ProviderSends(d, answer)
      PROVE  TypeOK'
  <2>1. sending[d] # None
      BY <1>1, DirectiveConstants DEF ProviderSends
  <2>2. sends' \in [Directive -> Nat]
      BY <1>1 DEF ProviderSends, TypeOK
  <2>3. \A c \in Directive : sending'[c] # None => sending[c] # None
      BY <1>1, <2>1 DEF ProviderSends, TypeOK
  <2> QED
      BY <1>1, <2>2, <2>3 DEF ProviderSends, TypeOK
<1>2. ASSUME NEW answer \in {"failed", "unknown"}, ProviderSendsNothing(d, answer)
      PROVE  TypeOK'
  <2>1. sending[d] # None
      BY <1>2, DirectiveConstants DEF ProviderSendsNothing
  <2>2. \A c \in Directive : sending'[c] # None => sending[c] # None
      BY <1>2, <2>1 DEF ProviderSendsNothing, TypeOK
  <2> QED
      BY <1>2, <2>2 DEF ProviderSendsNothing, TypeOK
<1>3. CASE ArchiveAppends(d)
  <2>1. sending[d] # None
      BY <1>3, DirectiveConstants DEF ArchiveAppends
  <2>2. /\ \A c \in Directive : sending'[c] # None => sending[c] # None
        /\ archived' \subseteq Directive
        /\ sending' \in [Directive -> {None, "called", "acknowledged", "sent", "unknown", "failed"}]
      BY <1>3, <2>1 DEF ArchiveAppends, TypeOK
  <2> QED
      BY <1>3, <2>2 DEF ArchiveAppends, TypeOK
<1>4. CASE Settle(d)
  <2>1. SettledAs(d, sending[d]) \in {"delivered", "failed", "uncertain"}
      BY DEF SettledAs
  <2>2. sending' = [sending EXCEPT ![d] = None]
      BY <1>4 DEF Settle
  <2>3. CASE UNCHANGED ledger
      BY <1>4, <2>2, <2>3 DEF Settle, TypeOK
  <2>4. ASSUME NEW verdict \in {"delivered", "failed", "uncertain"},
               outcome' = [outcome EXCEPT ![d] = verdict],
               delivery' = [delivery EXCEPT ![d] = RowStatus(verdict)]
        PROVE  TypeOK'
    <3>1. RowStatus(verdict) \in {"sent", "failed", "uncertain"}
        BY DEF RowStatus
    <3> QED
        BY <1>4, <2>2, <2>4, <3>1 DEF Settle, Verdicts, TypeOK
  <2> QED
      BY <1>4, <2>1, <2>3, <2>4 DEF Settle
<1> QED
    BY <1>1, <1>2, <1>3, <1>4

LEMMA TurnTypeOK == TypeOK /\ TurnStep => TypeOK'
<1> SUFFICES ASSUME TypeOK, TurnStep PROVE TypeOK'
    OBVIOUS
<1> USE DEF effects, ledger, provider, flue, boot, correlator
<1>0. turn # "idle" => Head(lane) \in Submission /\ Of(Head(lane)) \in Directive
    BY OfSubmission DEF TypeOK
<1>1. CASE TurnStarts
    BY <1>1 DEF TurnStarts, TypeOK
<1>2. CASE SayDirective
  <2>1. PICK d \in Directive : Claim(d)
      BY <1>0, <1>2 DEF SayDirective, Running, This
  <2>2. CASE delivery[d] = "absent"
    <3>1. /\ delivery' = [delivery EXCEPT ![d] = "attempting"]
          /\ sending' = [sending EXCEPT ![d] = "called"]
          /\ outcome' = outcome
        BY <2>1, <2>2 DEF Claim
    <3> QED
        BY <1>2, <3>1 DEF SayDirective, TypeOK
  <2>3. CASE delivery[d] # "absent"
    <3>1. /\ delivery' = [delivery EXCEPT ![d] = "uncertain"]
          /\ outcome' = [outcome EXCEPT ![d] = "uncertain"]
          /\ sending' = sending
        BY <2>1, <2>3 DEF Claim
    <3> QED
        BY <1>2, <3>1 DEF SayDirective, Verdicts, TypeOK
  <2> QED
      BY <2>2, <2>3
<1>3. ASSUME NEW event \in {"completed", "failed"}, TurnEnds(event)
      PROVE  TypeOK'
  <2> DEFINE s == Head(lane)
  <2>0. s \in Submission /\ Ingest(s, event)
      BY <1>0, <1>3 DEF TurnEnds, Running, This
  <2>1. CASE s \in seen
      BY <1>3, <2>0, <2>1 DEF TurnEnds, Running, Ingest, TypeOK
  <2>2. CASE s \notin seen /\ Known(s)
      BY <1>3, <2>0, <2>2, HearTypes DEF TurnEnds, Running, Ingest, TypeOK
  <2>3. CASE s \notin seen /\ ~ Known(s)
    <3>1. UNCHANGED <<ledger, active, seen>> /\ early' = [early EXCEPT ![s] = event]
        BY <2>0, <2>3 DEF Ingest
    <3>2. lost' \subseteq Directive
        BY <2>0, <2>3, OfSubmission DEF Ingest, Lose, TypeOK
    <3> QED
        BY <1>3, <2>0, <3>1, <3>2 DEF TurnEnds, Running, TypeOK
  <2> QED
      BY <2>1, <2>2, <2>3
<1>4. CASE FlueSettles
    BY <1>4 DEF FlueSettles, TypeOK
<1> QED
    BY <1>1, <1>2, <1>3, <1>4 DEF TurnStep

LEMMA ProcessTypeOK == TypeOK /\ (BootStep \/ FailRuntime \/ Crash) => TypeOK'
<1> SUFFICES ASSUME TypeOK, BootStep \/ FailRuntime \/ Crash PROVE TypeOK'
    OBVIOUS
<1> USE DirectiveConstants, OfSubmission DEF effects, ledger, provider, flue, boot, correlator
<1>1. CASE StartRuntime
    BY <1>1 DEF StartRuntime, Lose, TypeOK
<1>2. CASE Configure
    BY <1>2 DEF Configure, TypeOK
<1>3. CASE GoOnline
    BY <1>3 DEF GoOnline, TypeOK
<1>4. CASE FailRuntime
    BY <1>4 DEF FailRuntime, TypeOK
<1>5. CASE Crash
    BY <1>5 DEF Crash, Lose, TypeOK
<1> QED
    BY <1>1, <1>2, <1>3, <1>4, <1>5 DEF BootStep

LEMMA NextTypeOK == TypeOK /\ [Next]_vars => TypeOK'
<1> SUFFICES ASSUME TypeOK, [Next]_vars PROVE TypeOK'
    OBVIOUS
<1>1. CASE \E d \in Directive : RecordPrompt(d)
    BY <1>1 DEF RecordPrompt, TypeOK, ledger, provider, flue, boot, correlator
<1>2. CASE UNCHANGED vars
    BY <1>2 DEF vars, TypeOK, effects, ledger, provider, flue, boot, correlator
<1> QED
    BY <1>1, <1>2, DispatchingTypeOK, SendingTypeOK, TurnTypeOK, ProcessTypeOK DEF Next

(* Every row keeps a status of its kind, and an attempt in memory always   *)
(* has its row, over every crash and every failure of the runtime.         *)
THEOREM TypeCorrect == Spec => []TypeOK
<1> QED
    BY InitTypeOK, NextTypeOK, PTL DEF Spec

-----------------------------------------------------------------------------
(* The invariant.                                                          *)

LEMMA InitInv == Init => DeliveryInv
<1> SUFFICES ASSUME Init PROVE DeliveryInv
    OBVIOUS
<1>1. \A d \in Directive : sends[d] = 0 /\ sending[d] = None /\ outcome[d] = "none"
    BY DEF Init, InitAt
<1> QED
    BY <1>1, InitTypeOK, DirectiveConstants DEF DeliveryInv, Attempt, AtMostOneSend, HonestOutcome

(* Nothing the invariant speaks of.                                        *)
LEMMA Untouched ==
  ASSUME DeliveryInv, UNCHANGED <<ledger, provider, sending>>
  PROVE  (Attempt /\ AtMostOneSend /\ HonestOutcome)'
  BY DEF DeliveryInv, Attempt, AtMostOneSend, HonestOutcome, ledger, provider

(* The settlement of a turn concludes failed or settled_without_say only   *)
(* where there is no row, so where nothing was sent or is being sent.      *)
LEMMA HearInv ==
  ASSUME DeliveryInv, NEW s \in Submission, NEW event \in {"completed", "failed"},
         Hear(s, event), UNCHANGED <<provider, sending>>
  PROVE  (Attempt /\ AtMostOneSend /\ HonestOutcome)'
<1> USE DEF DeliveryInv, ledger, provider
<1>0. PICK d \in Directive : d = Of(s)
    BY OfSubmission
<1>1. CASE UNCHANGED ledger
    BY <1>1, Untouched
<1>2. CASE LedgerOpen /\ outcome[d] = "none" /\ delivery[d] = "absent"
  <2>1. delivery' = delivery /\ outcome' = [outcome EXCEPT ![d] = VerdictOf(event)]
      BY <1>0, <1>2 DEF Hear, SettleNoDelivery
  <2>2. sends[d] = 0 /\ sending[d] = None
      BY <1>2 DEF Attempt, TypeOK
  <2>3. VerdictOf(event) # "delivered"
      BY DEF VerdictOf
  <2> QED
      BY <2>1, <2>2, <2>3 DEF Attempt, AtMostOneSend, HonestOutcome, TypeOK
<1>3. CASE LedgerOpen /\ outcome[d] = "none" /\ delivery[d] # "absent"
  <2>1. /\ delivery' = [delivery EXCEPT ![d] = "uncertain"]
        /\ outcome' = [outcome EXCEPT ![d] = "uncertain"]
      BY <1>0, <1>3 DEF Hear, SettleNoDelivery
  <2> QED
      BY <2>1 DEF Attempt, AtMostOneSend, HonestOutcome, TypeOK
<1> QED
    BY <1>0, <1>1, <1>2, <1>3 DEF Hear, SettleNoDelivery

LEMMA DispatchingInv == DeliveryInv /\ Dispatching => (Attempt /\ AtMostOneSend /\ HonestOutcome)'
<1> SUFFICES ASSUME DeliveryInv, NEW s \in Submission,
                    \/ BeginDelivery(s) \/ FlueAdmits(s) \/ DispatchThrows(s)
                    \/ Accepted(s) \/ MarkAccepted(s)
             PROVE  (Attempt /\ AtMostOneSend /\ HonestOutcome)'
    BY DEF Dispatching
<1>1. CASE UNCHANGED <<ledger, provider, sending>>
    BY <1>1, Untouched
<1>2. CASE Accepted(s) /\ s \notin seen /\ early[s] # None
  <2>1. early[s] \in {"completed", "failed"} /\ Hear(s, early[s]) /\ UNCHANGED <<provider, sending>>
      BY <1>2 DEF Accepted, DeliveryInv, TypeOK
  <2> QED
      BY <2>1, HearInv
<1> QED
    BY <1>1, <1>2 DEF BeginDelivery, FlueAdmits, DispatchThrows, Accepted, MarkAccepted

LEMMA SendingInv == DeliveryInv /\ Sending => (Attempt /\ AtMostOneSend /\ HonestOutcome)'
<1> SUFFICES ASSUME DeliveryInv, NEW d \in Directive,
                    \/ \E answer \in {"acknowledged", "unknown"} : ProviderSends(d, answer)
                    \/ \E answer \in {"failed", "unknown"} : ProviderSendsNothing(d, answer)
                    \/ ArchiveAppends(d)
                    \/ Settle(d)
             PROVE  (Attempt /\ AtMostOneSend /\ HonestOutcome)'
    BY Zenon DEF Sending
<1> USE DirectiveConstants DEF DeliveryInv, ledger, provider
<1>1. ASSUME NEW answer \in {"acknowledged", "unknown"}, ProviderSends(d, answer)
      PROVE  (Attempt /\ AtMostOneSend /\ HonestOutcome)'
  <2>1. sends[d] = 0 /\ delivery[d] # "absent" /\ outcome[d] \notin {"failed", "settled_without_say", "delivered"}
      BY <1>1 DEF ProviderSends, Attempt, HonestOutcome, TypeOK
  <2>2. /\ sends' = [sends EXCEPT ![d] = 1]
        /\ sending' = [sending EXCEPT ![d] = answer]
        /\ UNCHANGED <<ledger, archived>>
      BY <1>1, <2>1 DEF ProviderSends
  <2> QED
      BY <2>1, <2>2 DEF Attempt, AtMostOneSend, HonestOutcome, TypeOK
<1>2. ASSUME NEW answer \in {"failed", "unknown"}, ProviderSendsNothing(d, answer)
      PROVE  (Attempt /\ AtMostOneSend /\ HonestOutcome)'
  <2>1. sends[d] = 0 /\ outcome[d] \notin {"failed", "settled_without_say"}
      BY <1>2 DEF ProviderSendsNothing, Attempt, HonestOutcome, TypeOK
  <2>2. sending' = [sending EXCEPT ![d] = answer] /\ UNCHANGED <<ledger, provider>>
      BY <1>2 DEF ProviderSendsNothing
  <2> QED
      BY <2>1, <2>2 DEF Attempt, AtMostOneSend, HonestOutcome, TypeOK
<1>3. CASE ArchiveAppends(d)
  <2>1. sends[d] = 1 /\ outcome[d] \notin {"failed", "settled_without_say"}
      BY <1>3 DEF ArchiveAppends, Attempt, HonestOutcome, TypeOK
  <2>2. CASE archived' = archived \cup {d} /\ sending' = [sending EXCEPT ![d] = "sent"]
      BY <1>3, <2>1, <2>2 DEF ArchiveAppends, Attempt, AtMostOneSend, HonestOutcome, TypeOK
  <2>3. CASE archived' = archived /\ sending' = [sending EXCEPT ![d] = "unknown"]
      BY <1>3, <2>1, <2>3 DEF ArchiveAppends, Attempt, AtMostOneSend, HonestOutcome, TypeOK
  <2> QED
      BY <1>3, <2>2, <2>3 DEF ArchiveAppends
<1>4. CASE Settle(d)
  <2>1. /\ sending' = [sending EXCEPT ![d] = None]
        /\ UNCHANGED provider
        /\ outcome[d] \notin {"failed", "settled_without_say"}
        /\ delivery[d] # "absent"
      BY <1>4 DEF Settle, HonestOutcome, TypeOK
  <2>2. CASE UNCHANGED ledger
      BY <2>1, <2>2 DEF Attempt, AtMostOneSend, HonestOutcome, TypeOK
  <2>3. CASE /\ outcome' = [outcome EXCEPT ![d] = SettledAs(d, sending[d])]
             /\ delivery' = [delivery EXCEPT ![d] = RowStatus(SettledAs(d, sending[d]))]
    <3>1. /\ RowStatus(SettledAs(d, sending[d])) # "absent"
          /\ SettledAs(d, sending[d]) # "settled_without_say"
          /\ SettledAs(d, sending[d]) = "delivered" => sends[d] = 1 /\ d \in archived
          /\ SettledAs(d, sending[d]) = "failed" => sends[d] = 0
        BY <1>4 DEF Settle, SettledAs, RowStatus, Attempt
    <3> QED
        BY <2>1, <2>3, <3>1 DEF Attempt, AtMostOneSend, HonestOutcome, TypeOK
  <2> QED
      BY <1>4, <2>2, <2>3 DEF Settle
<1> QED
    BY <1>1, <1>2, <1>3, <1>4

LEMMA TurnInv == DeliveryInv /\ TurnStep => (Attempt /\ AtMostOneSend /\ HonestOutcome)'
<1> SUFFICES ASSUME DeliveryInv, TurnStep PROVE (Attempt /\ AtMostOneSend /\ HonestOutcome)'
    OBVIOUS
<1> USE DEF DeliveryInv
<1>0. turn # "idle" => Head(lane) \in Submission /\ Of(Head(lane)) \in Directive
    BY OfSubmission DEF TypeOK
<1>1. CASE UNCHANGED <<ledger, provider, sending>>
    BY <1>1, Untouched
<1>2. CASE SayDirective
  <2>1. PICK d \in Directive : Claim(d)
      BY <1>0, <1>2 DEF SayDirective, Running, This
  <2>2. UNCHANGED provider
      BY <1>2 DEF SayDirective
  <2>3. CASE delivery[d] = "absent"
    <3>1. /\ delivery' = [delivery EXCEPT ![d] = "attempting"]
          /\ sending' = [sending EXCEPT ![d] = "called"]
          /\ outcome' = outcome
          /\ outcome[d] = "none" /\ sends[d] = 0
        BY <2>1, <2>3 DEF Claim, Attempt
    <3> QED
        BY <2>2, <3>1 DEF provider, Attempt, AtMostOneSend, HonestOutcome, TypeOK
  <2>4. CASE delivery[d] # "absent"
    <3>1. /\ delivery' = [delivery EXCEPT ![d] = "uncertain"]
          /\ outcome' = [outcome EXCEPT ![d] = "uncertain"]
          /\ sending' = sending
        BY <2>1, <2>4 DEF Claim
    <3> QED
        BY <2>2, <3>1 DEF provider, Attempt, AtMostOneSend, HonestOutcome, TypeOK
  <2> QED
      BY <2>3, <2>4
<1>3. ASSUME NEW event \in {"completed", "failed"}, TurnEnds(event), ~ UNCHANGED ledger
      PROVE  (Attempt /\ AtMostOneSend /\ HonestOutcome)'
  <2>1. Head(lane) \in Submission /\ Hear(Head(lane), event) /\ UNCHANGED <<provider, sending>>
      BY <1>0, <1>3 DEF TurnEnds, Running, This, Ingest, ledger
  <2> QED
      BY <2>1, HearInv
<1> QED
    BY <1>1, <1>2, <1>3 DEF TurnStep, TurnStarts, TurnEnds, FlueSettles

LEMMA NextInv == DeliveryInv /\ [Next]_vars => DeliveryInv'
<1> SUFFICES ASSUME DeliveryInv, [Next]_vars PROVE (Attempt /\ AtMostOneSend /\ HonestOutcome)'
    BY NextTypeOK DEF DeliveryInv
<1>1. CASE UNCHANGED <<ledger, provider, sending>>
    BY <1>1, Untouched
<1>2. CASE Crash
  <2>1. UNCHANGED <<ledger, provider>> /\ sending' = [d \in Directive |-> None]
      BY <1>2 DEF Crash
  <2> QED
      BY <2>1, DirectiveConstants
      DEF DeliveryInv, Attempt, AtMostOneSend, HonestOutcome, ledger, provider
<1> QED
    BY <1>1, <1>2, DispatchingInv, SendingInv, TurnInv
    DEF Next, RecordPrompt, BootStep, StartRuntime, Configure, GoOnline, FailRuntime, vars

(* The inductive invariant: the ledger, the say in memory and what         *)
(* WhatsApp really sent agree at every stage.                              *)
THEOREM DeliveryInvariant == Spec => []DeliveryInv
<1> QED
    BY InitInv, NextInv, PTL DEF Spec

(* Whatever repeats a Directive, WhatsApp sends its message once at most,  *)
(* and no recorded Outcome ever claims what did not happen.                *)
THEOREM DeliveryIsHonestAlways == Spec => []DeliveryIsHonest
<1>1. DeliveryInv => DeliveryIsHonest
    BY DEF DeliveryInv, DeliveryIsHonest
<1> QED
    BY <1>1, DeliveryInvariant, PTL

Final ==
  \A d \in Directive :
    outcome'[d] # outcome[d] =>
      \/ outcome[d] = "none"
      \/ outcome[d] = "uncertain" /\ outcome'[d] \in {"delivered", "failed"}

LEMMA FinalStep == DeliveryInv /\ [Next]_vars => Final
<1> SUFFICES ASSUME DeliveryInv, [Next]_vars PROVE Final
    OBVIOUS
<1> USE DEF Final
<1>1. CASE outcome' = outcome
    BY <1>1
<1>2. ASSUME NEW s \in Submission, NEW event \in {"completed", "failed"}, Hear(s, event)
      PROVE  Final
    BY <1>2, OfSubmission DEF Hear, SettleNoDelivery, ledger, DeliveryInv, TypeOK
<1>3. ASSUME NEW d \in Directive, Settle(d)
      PROVE  Final
  <2>1. outcome[d] \notin {"failed", "settled_without_say"}
      BY <1>3, DirectiveConstants DEF Settle, DeliveryInv, HonestOutcome
  <2>2. \/ outcome' = outcome
        \/ outcome[d] # "delivered" /\ outcome' = [outcome EXCEPT ![d] = SettledAs(d, sending[d])]
      BY <1>3 DEF Settle, ledger
  <2>3. SettledAs(d, sending[d]) \in {"delivered", "failed", "uncertain"}
      BY DEF SettledAs
  <2>4. outcome \in [Directive -> Verdicts \cup {"none"}]
      BY DEF DeliveryInv, TypeOK
  <2>5. CASE outcome' = [outcome EXCEPT ![d] = SettledAs(d, sending[d])]
    <3>1. \A c \in Directive \ {d} : outcome'[c] = outcome[c]
        BY <2>4, <2>5
    <3>2. outcome'[d] \in {"delivered", "failed", "uncertain"}
        BY <2>3, <2>4, <2>5
    <3>3. outcome[d] \in {"none", "uncertain"} \/ outcome[d] = "delivered"
        BY <2>1, <2>4 DEF Verdicts
    <3> QED
        BY <2>2, <2>5, <3>1, <3>2, <3>3
  <2> QED
      BY <2>2, <2>5
<1>4. CASE SayDirective
  <2>1. turn # "idle" => Of(Head(lane)) \in Directive
      BY OfSubmission DEF DeliveryInv, TypeOK
  <2>2. PICK d \in Directive : Claim(d)
      BY <1>4, <2>1 DEF SayDirective, Running, This
  <2> QED
      BY <2>2 DEF Claim, DeliveryInv, TypeOK
<1>5. CASE \E s \in Submission : Accepted(s)
  <2>1. PICK s \in Submission : Accepted(s)
      BY <1>5
  <2>2. outcome' = outcome \/ (early[s] \in {"completed", "failed"} /\ Hear(s, early[s]))
      BY <2>1 DEF Accepted, ledger, DeliveryInv, TypeOK
  <2> QED
      BY <1>1, <1>2, <2>2
<1>6. CASE \E event \in {"completed", "failed"} : TurnEnds(event)
  <2>1. PICK event \in {"completed", "failed"} : TurnEnds(event)
      BY <1>6
  <2>2. turn # "idle" => Head(lane) \in Submission
      BY DEF DeliveryInv, TypeOK
  <2>3. outcome' = outcome \/ Hear(Head(lane), event)
      BY <2>1 DEF TurnEnds, Ingest, This, ledger
  <2> QED
      BY <1>1, <1>2, <2>1, <2>2, <2>3 DEF TurnEnds, Running
<1>7. outcome' = outcome \/ SayDirective
        \/ (\E s \in Submission : Accepted(s))
        \/ (\E d \in Directive : Settle(d))
        \/ (\E event \in {"completed", "failed"} : TurnEnds(event))
    BY DEF Next, Dispatching, Sending, TurnStep, BootStep, RecordPrompt, BeginDelivery, FlueAdmits,
           DispatchThrows, MarkAccepted, ProviderSends, ProviderSendsNothing, ArchiveAppends,
           TurnStarts, FlueSettles, StartRuntime, Configure, GoOnline, FailRuntime, Crash,
           ledger, vars
<1> QED
    BY <1>1, <1>3, <1>4, <1>5, <1>6, <1>7

(* Outcomes are final but for the proof of what an uncertain one was: a    *)
(* settlement finds no attempt under way behind failed or                  *)
(* settled_without_say, which is what HonestOutcome says.                  *)
THEOREM OutcomesAreFinal == Spec => OutcomeFinality
<1>1. DeliveryInv /\ [Next]_vars => [Final]_vars
    BY FinalStep
<1> QED
    BY <1>1, DeliveryInvariant, PTL DEF Spec, OutcomeFinality, Final

-----------------------------------------------------------------------------
Bookkeeping ==
  /\ \A r \in Run : record[r] = "absent" <=> workOf[r] = Nothing
  /\ \A r \in live : record[r] = "active"
  /\ \A w \in Work, c \in Caller :
       calls[<<w, c>>].at = "found" => calls[<<w, c>>].run \in RunsOf(w)
  /\ \A w \in reconciling : runOf[w] # Nothing
  /\ readRun.work # Nothing =>
       /\ runOf[readRun.work] # Nothing
       /\ readRun.status = "completed" => record[runOf[readRun.work]] = "completed"

OneCaller ==
  \A w \in Work \ raced :
    /\ calls[<<w, "tool">>] = Idle \/ calls[<<w, "boot">>] = Idle
    /\ \A c \in Caller : calls[<<w, c>>].at = "invoking" => RunsOf(w) = {}

DelegationInv == DelegationTypeOK /\ Bookkeeping /\ HonestResult /\ OneCaller /\ OneRunPerLaunch

-----------------------------------------------------------------------------
(* Type correctness, with the bookkeeping it rests on.                     *)

LEMMA InitDelegation == DelegationInit => DelegationInv
<1> SUFFICES ASSUME DelegationInit PROVE DelegationInv
    OBVIOUS
<1>1. DelegationTypeOK
    BY DEF DelegationInit, DelegationInitAt, DelegationTypeOK, Idle
<1>2. Bookkeeping
    BY DEF DelegationInit, DelegationInitAt, Bookkeeping, Idle
<1>3. HonestResult /\ OneCaller /\ OneRunPerLaunch
    BY DelegationConstants DEF DelegationInit, DelegationInitAt, HonestResult, OneCaller, OneRunPerLaunch, RunsOf, Caller, Idle
<1> QED
    BY <1>1, <1>2, <1>3 DEF DelegationInv

(* What the calls of acceptSpecialistLaunch write.                         *)
LEMMA CallTyped ==
  ASSUME DelegationTypeOK, NEW w \in Work, NEW c \in Caller,
         NEW stage \in {"idle", "searching", "invoking", "found"}, NEW r \in Run \cup {Nothing},
         calls' = [calls EXCEPT ![<<w, c>>] = At(stage, r)]
  PROVE  /\ calls' \in [Work \X Caller ->
                         [at : {"idle", "searching", "invoking", "found"}, run : Run \cup {Nothing}]]
         /\ calls'[<<w, c>>].at = stage
         /\ calls'[<<w, c>>].run = r
         /\ \A k \in Work \X Caller : k # <<w, c>> => calls'[k] = calls[k]
<1>1. <<w, c>> \in Work \X Caller
    OBVIOUS
<1>2. At(stage, r) \in [at : {"idle", "searching", "invoking", "found"}, run : Run \cup {Nothing}]
    BY DEF At
<1> QED
    BY <1>1, <1>2 DEF DelegationTypeOK, At

LEMMA RaiseTyped ==
  ASSUME DelegationTypeOK, NEW c \in Caller, Raise(c)
  PROVE  /\ bootPhase' \in {"starting", "configured", "reconciling", "recovering", "ready", "failed"}
         /\ reconciling' \subseteq Work
         /\ readRun' \in [work : Work \cup {Nothing}, status : {Nothing, "active", "completed", "errored"}]
         /\ recovering' \subseteq Work
         /\ reconciling' \subseteq reconciling
         /\ readRun'.work # Nothing => readRun' = readRun
  BY DEF Raise, DelegationTypeOK, bootVars

LEMMA CallsTypeOK ==
  ASSUME DelegationTypeOK, Bookkeeping, NEW w \in Work, NEW c \in Caller,
         \/ LaunchTool(w) \/ Search(w, c) \/ InvokeThrows(w, c) \/ Accept(w, c)
         \/ \E r \in Run : Invoke(w, c, r)
  PROVE  DelegationTypeOK'
<1> USE DEF rows, runs, bootVars, history, bounds
<1>0. Idle = At("idle", Nothing)
    BY DEF Idle, At
<1>1. CASE LaunchTool(w)
  <2>1. "tool" \in Caller
      BY DEF Caller
  <2>2. launch' \in [Work -> {"absent", "pending", "accepted"}]
      BY <1>1 DEF LaunchTool, DelegationTypeOK
  <2>3. \A v \in Work : launch'[v] = "accepted" <=> launch[v] = "accepted"
      BY <1>1 DEF LaunchTool, DelegationTypeOK
  <2>4. calls' \in [Work \X Caller ->
                   [at : {"idle", "searching", "invoking", "found"}, run : Run \cup {Nothing}]]
      BY <1>1, <2>1, CallTyped DEF LaunchTool
  <2> QED
      BY <1>1, <2>2, <2>3, <2>4 DEF LaunchTool, DelegationTypeOK
<1>2. CASE Search(w, c)
  <2>1. PICK stage \in {"invoking", "found"}, r \in Run \cup {Nothing} :
          calls' = [calls EXCEPT ![<<w, c>>] = At(stage, r)]
      BY <1>2 DEF Search, Found, RunsOf
  <2>2. calls' \in [Work \X Caller ->
                   [at : {"idle", "searching", "invoking", "found"}, run : Run \cup {Nothing}]]
      BY <2>1, CallTyped
  <2>3. UNCHANGED <<rows, runs, bootVars, live, delivering, history, bounds>>
      BY <1>2 DEF Search, Found
  <2> QED
      BY <2>2, <2>3 DEF DelegationTypeOK
<1>3. ASSUME NEW r \in Run, Invoke(w, c, r)
      PROVE  DelegationTypeOK'
  <2>1. workOf[r] = Nothing
      BY <1>3 DEF Invoke, Bookkeeping
  <2>2. \A v \in Work : runOf[v] # Nothing => runOf[v] # r
      BY <2>1, DelegationConstants DEF DelegationTypeOK
  <2>3. /\ record' \in [Run -> {"absent", "active", "completed", "errored"}]
        /\ workOf' \in [Run -> Work \cup {Nothing}]
        /\ \A v \in Work : runOf[v] # Nothing => workOf'[runOf[v]] = v
      BY <1>3, <2>2 DEF Invoke, DelegationTypeOK
  <2>4. calls' \in [Work \X Caller ->
                   [at : {"idle", "searching", "invoking", "found"}, run : Run \cup {Nothing}]]
      BY <1>3, CallTyped DEF Invoke
  <2> QED
      BY <1>3, <2>3, <2>4 DEF Invoke, DelegationTypeOK
<1>4. CASE InvokeThrows(w, c)
  <2>1. calls' \in [Work \X Caller ->
                   [at : {"idle", "searching", "invoking", "found"}, run : Run \cup {Nothing}]]
      BY <1>0, <1>4, CallTyped DEF InvokeThrows
  <2>2. Raise(c) /\ UNCHANGED <<rows, runs, live, delivering>>
      BY <1>4 DEF InvokeThrows
  <2> QED
      BY <2>1, <2>2, RaiseTyped DEF DelegationTypeOK
<1>5. CASE Accept(w, c)
  <2> DEFINE r == calls[<<w, c>>].run
  <2>1. /\ calls[<<w, c>>].at = "found"
        /\ calls' = [calls EXCEPT ![<<w, c>>] = At("idle", Nothing)]
        /\ UNCHANGED <<result, runs, live, delivering, raced, bounds>>
      BY <1>0, <1>5 DEF Accept
  <2>2. r \in Run /\ workOf[r] = w /\ r # Nothing
      BY <2>1, DelegationConstants DEF Bookkeeping, RunsOf
  <2>3. CASE bootPhase # "failed" /\ runOf[w] \in {Nothing, r}
    <3>1. /\ launch' = [launch EXCEPT ![w] = "accepted"]
          /\ runOf' = [runOf EXCEPT ![w] = r]
          /\ UNCHANGED bootVars
        BY <1>5, <2>3 DEF Accept
    <3>2. /\ launch' \in [Work -> {"absent", "pending", "accepted"}]
          /\ runOf' \in [Work -> Run \cup {Nothing}]
          /\ \A v \in Work : launch'[v] = "accepted" <=> runOf'[v] # Nothing
          /\ \A v \in Work : runOf'[v] # Nothing => workOf[runOf'[v]] = v
          /\ \A v \in Work : launch[v] = "accepted" => launch'[v] = "accepted"
        BY <2>2, <3>1 DEF DelegationTypeOK
    <3>3. calls' \in [Work \X Caller ->
                     [at : {"idle", "searching", "invoking", "found"}, run : Run \cup {Nothing}]]
        BY <2>1, CallTyped
    <3> QED
        BY <2>1, <3>1, <3>2, <3>3 DEF DelegationTypeOK
  <2>4. CASE ~ (bootPhase # "failed" /\ runOf[w] \in {Nothing, r})
    <3>1. UNCHANGED <<launch, runOf>> /\ Raise(c)
        BY <1>5, <2>4 DEF Accept
    <3> QED
      <4>1. calls' \in [Work \X Caller ->
                       [at : {"idle", "searching", "invoking", "found"}, run : Run \cup {Nothing}]]
          BY <2>1, CallTyped
      <4> QED
          BY <2>1, <3>1, <4>1, RaiseTyped DEF DelegationTypeOK
  <2> QED
      BY <2>3, <2>4
<1> QED
    BY <1>1, <1>2, <1>3, <1>4, <1>5

LEMMA ResultsTypeOK == DelegationTypeOK /\ Results => DelegationTypeOK'
<1> SUFFICES ASSUME DelegationTypeOK, NEW r \in Run,
                    \/ \E ending \in {"completed", "errored"} : RunEnds(r, ending)
                    \/ DeliverTerminalResult(r)
             PROVE  DelegationTypeOK'
    BY DEF Results
<1> USE DEF rows, runs, bootVars, history, bounds
<1>1. CASE \E ending \in {"completed", "errored"} : RunEnds(r, ending)
    BY <1>1 DEF RunEnds, DelegationTypeOK
<1>2. CASE DeliverTerminalResult(r)
  <2>1. PICK w \in Work :
          /\ runOf[w] = r
          /\ IF bootPhase = "failed" THEN UNCHANGED result
             ELSE AdmitRunResult(w, IF record[r] = "completed" THEN "ok" ELSE "interrupted")
      BY <1>2 DEF DeliverTerminalResult
  <2>2. launch[w] = "accepted"
      BY <2>1, DelegationConstants DEF DelegationTypeOK
  <2> QED
      BY <1>2, <2>1, <2>2 DEF DeliverTerminalResult, AdmitRunResult, DelegationTypeOK
<1> QED
    BY <1>1, <1>2

LEMMA BootTypeOK == DelegationTypeOK /\ Bookkeeping /\ (Boot \/ BootThrows \/ DelegationCrash) => DelegationTypeOK'
<1> SUFFICES ASSUME DelegationTypeOK, Bookkeeping, Boot \/ BootThrows \/ DelegationCrash PROVE DelegationTypeOK'
    OBVIOUS
<1> USE DEF rows, runs, history, bounds
<1>1. CASE ConfigureDelegation
    BY <1>1 DEF ConfigureDelegation, DelegationTypeOK
<1>2. CASE BeginReconcile
    BY <1>2 DEF BeginReconcile, DelegationTypeOK
<1>3. ASSUME NEW w \in Work, ReadRunRecord(w)
      PROVE  DelegationTypeOK'
  <2>1. runOf[w] \in Run
      BY <1>3 DEF ReadRunRecord, Bookkeeping, DelegationTypeOK
  <2>2. record[runOf[w]] # "absent"
      BY <2>1, DelegationConstants DEF Bookkeeping, DelegationTypeOK
  <2> QED
      BY <1>3, <2>1, <2>2 DEF ReadRunRecord, DelegationTypeOK
<1>4. ASSUME NEW w \in Work, RecoverLaunch(w)
      PROVE  DelegationTypeOK'
  <2>1. "boot" \in Caller
      BY DEF Caller
  <2>2. calls' \in [Work \X Caller ->
                   [at : {"idle", "searching", "invoking", "found"}, run : Run \cup {Nothing}]]
      BY <1>4, <2>1, CallTyped DEF RecoverLaunch
  <2> QED
      BY <1>4, <2>1, <2>2 DEF RecoverLaunch, DelegationTypeOK
<1>5. CASE AdmitReconciled
  <2>1. readRun.work \in Work /\ launch[readRun.work] = "accepted"
      BY <1>5 DEF AdmitReconciled, Bookkeeping, DelegationTypeOK
  <2> QED
      BY <1>5, <2>1 DEF AdmitReconciled, AdmitRunResult, DelegationTypeOK
<1>6. CASE BeginRecover
    BY <1>6 DEF BeginRecover, DelegationTypeOK
<1>7. CASE Ready
    BY <1>7 DEF Ready, DelegationTypeOK
<1>8. CASE BootThrows
    BY <1>8 DEF BootThrows, Raise, Caller, DelegationTypeOK
<1>9. CASE DelegationCrash
    BY <1>9 DEF DelegationCrash, Idle, DelegationTypeOK
<1> QED
    BY <1>1, <1>2, <1>3, <1>4, <1>5, <1>6, <1>7, <1>8, <1>9 DEF Boot

-----------------------------------------------------------------------------
(* The invariant, one lemma per group of actions.                          *)

Kept == Bookkeeping /\ HonestResult /\ OneCaller /\ OneRunPerLaunch

(* A caller that goes on alone: it reserved the Work, or it searched.      *)
LEMMA LaunchKeeps ==
  ASSUME DelegationInv, NEW w \in Work, LaunchTool(w) \/ RecoverLaunch(w)
  PROVE  Kept'
<1> USE DEF DelegationInv, rows, runs, bounds
<1>1. PICK c \in Caller :
        /\ calls' = [calls EXCEPT ![<<w, c>>] = At("searching", Nothing)]
        /\ calls[<<w, c>>] = Idle
        /\ raced' = IF Calling(w) THEN raced \cup {w} ELSE raced
    BY DEF LaunchTool, RecoverLaunch, Caller
<1>2. /\ calls'[<<w, c>>].at = "searching"
      /\ \A k \in Work \X Caller : k # <<w, c>> => calls'[k] = calls[k]
    BY <1>1, CallTyped
<1>3. /\ UNCHANGED <<runOf, result, record, workOf, live, readRun>>
      /\ reconciling' \subseteq reconciling
    BY DEF LaunchTool, RecoverLaunch, bootVars
<1>4. Bookkeeping'
    BY <1>2, <1>3 DEF Bookkeeping, RunsOf
<1>5. ASSUME NEW v \in Work \ raced'
      PROVE  /\ v \notin raced
             /\ calls'[<<v, "tool">>] = Idle \/ calls'[<<v, "boot">>] = Idle
             /\ \A d \in Caller : calls'[<<v, d>>].at = "invoking" => calls[<<v, d>>].at = "invoking"
  <2>1. CASE v = w
      BY <1>1, <1>2, <2>1 DEF Calling, Caller
  <2>2. CASE v # w
      BY <1>1, <1>2, <2>2 DEF OneCaller, Caller
  <2> QED
      BY <2>1, <2>2
<1>6. OneCaller' /\ OneRunPerLaunch'
  <2>1. \A v \in Work : RunsOf(v)' = RunsOf(v)
      BY <1>3 DEF RunsOf
  <2>2. OneCaller'
      BY <1>5, <2>1 DEF OneCaller
  <2> QED
      BY <1>5, <2>1, <2>2 DEF OneRunPerLaunch
<1>7. HonestResult'
    BY <1>3 DEF HonestResult
<1> QED
    BY <1>4, <1>6, <1>7 DEF Kept

LEMMA SearchKeeps ==
  ASSUME DelegationInv, NEW w \in Work, NEW c \in Caller, Search(w, c)
  PROVE  Kept'
<1> USE DEF DelegationInv, rows, runs, bootVars, history
<1>0. PICK stage \in {"invoking", "found"}, r \in Run \cup {Nothing} :
        /\ calls' = [calls EXCEPT ![<<w, c>>] = At(stage, r)]
        /\ stage = "found" => r \in RunsOf(w)
        /\ stage = "invoking" => RunsOf(w) = {}
    BY DEF Search, Found, RunsOf
<1>1. UNCHANGED <<runOf, result, record, workOf, live, readRun, reconciling, raced>>
    BY DEF Search, Found
<1>2. calls[<<w, c>>] # Idle
    BY DEF Search, Found, Idle
<1>3. /\ calls'[<<w, c>>].at = stage
      /\ calls'[<<w, c>>].run = r
      /\ \A k \in Work \X Caller : k # <<w, c>> => calls'[k] = calls[k]
    BY <1>0 DEF At, DelegationTypeOK
<1>4. Bookkeeping'
    BY <1>0, <1>1, <1>3 DEF Bookkeeping, RunsOf
<1>5. OneCaller'
  <2> SUFFICES ASSUME NEW v \in Work \ raced
               PROVE  /\ calls'[<<v, "tool">>] = Idle \/ calls'[<<v, "boot">>] = Idle
                      /\ \A d \in Caller : calls'[<<v, d>>].at = "invoking" => RunsOf(v) = {}
      BY <1>1 DEF OneCaller, RunsOf
  <2>1. CASE v # w
      BY <1>3, <2>1 DEF OneCaller, Caller
  <2>2. CASE v = w
    <3>1. \A d \in Caller : d # c => calls'[<<v, d>>] = calls[<<v, d>>]
        BY <1>3
    <3> QED
        BY <1>0, <1>2, <1>3, <2>2, <3>1 DEF OneCaller, Caller
  <2> QED
      BY <2>1, <2>2
<1> QED
    BY <1>1, <1>4, <1>5 DEF Kept, HonestResult, OneRunPerLaunch, RunsOf

(* A Work whose callers did not overlap has no run when one is admitted    *)
(* for it, and nobody else is about to admit another.                      *)
LEMMA InvokeKeeps ==
  ASSUME DelegationInv, NEW w \in Work, NEW c \in Caller, NEW r \in Run, Invoke(w, c, r)
  PROVE  Kept'
<1> USE DEF DelegationInv, rows, bootVars, history
<1>1. /\ UNCHANGED <<runOf, result, readRun, reconciling, raced>>
      /\ record' = [record EXCEPT ![r] = "active"]
      /\ workOf' = [workOf EXCEPT ![r] = w]
      /\ live' = live \cup {r}
      /\ record[r] = "absent" /\ workOf[r] = Nothing
      /\ calls[<<w, c>>].at = "invoking" /\ calls[<<w, c>>] # Idle
    BY DEF Invoke, Bookkeeping, Idle
<1>2. /\ calls'[<<w, c>>].at = "found"
      /\ calls'[<<w, c>>].run = r
      /\ \A k \in Work \X Caller : k # <<w, c>> => calls'[k] = calls[k]
    BY CallTyped DEF Invoke
<1>3. \A v \in Work : runOf[v] # Nothing => runOf[v] # r
    BY <1>1, DelegationConstants DEF DelegationTypeOK
<1>4. \A v \in Work : RunsOf(v)' = IF v = w THEN RunsOf(v) \cup {r} ELSE RunsOf(v)
    BY <1>1, DelegationConstants DEF RunsOf, DelegationTypeOK
<1>5. Bookkeeping'
  <2>1. \A q \in Run : record'[q] = "absent" <=> workOf'[q] = Nothing
      BY <1>1, DelegationConstants DEF Bookkeeping, DelegationTypeOK
  <2>2. \A q \in live' : record'[q] = "active"
      BY <1>1 DEF Bookkeeping, DelegationTypeOK
  <2>3. \A v \in Work, d \in Caller :
          calls'[<<v, d>>].at = "found" => calls'[<<v, d>>].run \in RunsOf(v)'
      BY <1>2, <1>4 DEF Bookkeeping
  <2>4. readRun.work # Nothing /\ readRun.status = "completed" =>
          record'[runOf[readRun.work]] = "completed"
      BY <1>1, <1>3 DEF Bookkeeping, DelegationTypeOK
  <2> QED
      BY <1>1, <2>1, <2>2, <2>3, <2>4 DEF Bookkeeping
<1>6. OneCaller'
  <2> SUFFICES ASSUME NEW v \in Work \ raced
               PROVE  /\ calls'[<<v, "tool">>] = Idle \/ calls'[<<v, "boot">>] = Idle
                      /\ \A d \in Caller : calls'[<<v, d>>].at = "invoking" => RunsOf(v)' = {}
      BY <1>1 DEF OneCaller
  <2>1. CASE v # w
      BY <1>2, <1>4, <2>1 DEF OneCaller, Caller
  <2>2. CASE v = w
      BY <1>1, <1>2, <2>2 DEF OneCaller, Caller, Idle
  <2> QED
      BY <2>1, <2>2
<1>7. OneRunPerLaunch'
  <2> SUFFICES ASSUME NEW v \in Work \ raced, NEW p \in RunsOf(v)', NEW q \in RunsOf(v)'
               PROVE  p = q
      BY <1>1 DEF OneRunPerLaunch
  <2>1. CASE v # w
      BY <1>4, <2>1 DEF OneRunPerLaunch
  <2>2. CASE v = w
    <3>1. RunsOf(v) = {}
        BY <1>1, <2>2 DEF OneCaller
    <3> QED
        BY <1>4, <2>2, <3>1
  <2> QED
      BY <2>1, <2>2
<1>8. HonestResult'
    BY <1>1, <1>3 DEF HonestResult, DelegationTypeOK
<1> QED
    BY <1>5, <1>6, <1>7, <1>8 DEF Kept

(* A call that ends, with or without having bound the launch.              *)
LEMMA CallEnds ==
  ASSUME DelegationInv, NEW w \in Work, NEW c \in Caller, Accept(w, c) \/ InvokeThrows(w, c)
  PROVE  Kept'
<1> USE DEF DelegationInv, runs, bootVars
<1>0. Idle = At("idle", Nothing)
    BY DEF Idle, At
<1>1. /\ calls' = [calls EXCEPT ![<<w, c>>] = At("idle", Nothing)]
      /\ UNCHANGED <<result, record, workOf, live, raced>>
      /\ (UNCHANGED bootVars) \/ Raise(c)
    BY <1>0 DEF Accept, InvokeThrows, rows, history
<1>2. /\ calls'[<<w, c>>] = Idle
      /\ \A k \in Work \X Caller : k # <<w, c>> => calls'[k] = calls[k]
    BY <1>0, <1>1 DEF DelegationTypeOK
<1>3. \A v \in Work : runOf[v] # Nothing => runOf'[v] = runOf[v]
    BY DEF Accept, InvokeThrows, rows, DelegationTypeOK
<1>4. /\ reconciling' \subseteq reconciling
      /\ readRun'.work # Nothing => readRun' = readRun
    BY <1>1, RaiseTyped
<1>5. Bookkeeping'
  <2>1. \A v \in Work, d \in Caller :
          calls'[<<v, d>>].at = "found" => calls'[<<v, d>>].run \in RunsOf(v)
      BY <1>2 DEF Bookkeeping, Idle
  <2>2. readRun'.work # Nothing => readRun.work \in Work
      BY <1>4 DEF DelegationTypeOK
  <2> QED
      BY <1>1, <1>3, <1>4, <2>1, <2>2 DEF Bookkeeping, RunsOf, DelegationTypeOK
<1>6. OneCaller'
  <2>1. \A v \in Work : RunsOf(v)' = RunsOf(v)
      BY <1>1 DEF RunsOf
  <2>2. \A v \in Work, d \in Caller : calls'[<<v, d>>] \in {calls[<<v, d>>], Idle}
      BY <1>2
  <2> QED
      BY <1>1, <2>1, <2>2 DEF OneCaller, Caller, Idle
<1>7. HonestResult'
    BY <1>1, <1>3 DEF HonestResult, DelegationTypeOK
<1> QED
    BY <1>1, <1>5, <1>6, <1>7 DEF Kept, OneRunPerLaunch, RunsOf

LEMMA ResultsKeep ==
  ASSUME DelegationInv, NEW r \in Run,
         \/ \E ending \in {"completed", "errored"} : RunEnds(r, ending)
         \/ DeliverTerminalResult(r)
  PROVE  Kept'
<1> USE DEF DelegationInv, runs, bootVars, history
<1>1. UNCHANGED <<workOf, calls, runOf, readRun, reconciling, raced>>
    BY DEF RunEnds, DeliverTerminalResult, rows
<1>2. OneCaller' /\ OneRunPerLaunch'
    BY <1>1 DEF OneCaller, OneRunPerLaunch, RunsOf
<1>3. ASSUME NEW ending \in {"completed", "errored"}, RunEnds(r, ending)
      PROVE  Bookkeeping' /\ HonestResult'
  <2>1. /\ record' = [record EXCEPT ![r] = ending]
        /\ live' = live \ {r}
        /\ record[r] = "active"
        /\ result' = result
      BY <1>3 DEF RunEnds, Bookkeeping, rows
  <2>2. \A q \in Run : record[q] = "completed" => record'[q] = "completed"
      BY <2>1 DEF DelegationTypeOK
  <2>3. \A v \in Work : runOf[v] # Nothing => runOf[v] \in Run
      BY DEF DelegationTypeOK
  <2>4. HonestResult'
      BY <1>1, <2>1, <2>2, <2>3 DEF HonestResult, DelegationTypeOK
  <2>5. Bookkeeping'
      BY <1>1, <2>1, <2>2, <2>3 DEF Bookkeeping, RunsOf, DelegationTypeOK
  <2> QED
      BY <2>4, <2>5
<1>4. CASE DeliverTerminalResult(r)
  <2>1. UNCHANGED <<record, live>>
      BY <1>4 DEF DeliverTerminalResult
  <2>2. PICK w \in Work :
          /\ runOf[w] = r
          /\ IF bootPhase = "failed" THEN UNCHANGED result
             ELSE AdmitRunResult(w, IF record[r] = "completed" THEN "ok" ELSE "interrupted")
      BY <1>4 DEF DeliverTerminalResult
  <2>3. HonestResult'
      BY <1>1, <2>1, <2>2 DEF HonestResult, AdmitRunResult, DelegationTypeOK
  <2>4. \A v \in Work : RunsOf(v)' = RunsOf(v)
      BY <1>1 DEF RunsOf
  <2>5. Bookkeeping'
      BY <1>1, <2>1, <2>4 DEF Bookkeeping
  <2> QED
      BY <1>2, <2>3, <2>5 DEF Kept
<1> QED
    BY <1>2, <1>3, <1>4 DEF Kept

(* Reconciliation admits what it read before: a record it read as          *)
(* completed still is.                                                     *)
LEMMA BootKeeps ==
  ASSUME DelegationInv,
         \/ ConfigureDelegation \/ BeginReconcile \/ AdmitReconciled \/ BeginRecover \/ Ready
         \/ BootThrows \/ DelegationCrash
         \/ \E w \in Work : ReadRunRecord(w)
  PROVE  Kept'
<1> USE DEF DelegationInv, runs, history
<1>1. UNCHANGED <<runOf, record, workOf, raced>>
    BY DEF ConfigureDelegation, BeginReconcile, AdmitReconciled, BeginRecover, Ready, BootThrows, DelegationCrash,
           ReadRunRecord, rows
<1>2. live' \subseteq live /\ (calls' = calls \/ calls' = [c \in Work \X Caller |-> Idle])
    BY DEF ConfigureDelegation, BeginReconcile, AdmitReconciled, BeginRecover, Ready, BootThrows, DelegationCrash,
           ReadRunRecord
<1>3. \A w \in Work, c \in Caller : calls'[<<w, c>>] \in {calls[<<w, c>>], Idle}
    BY <1>2
<1>4. OneCaller' /\ OneRunPerLaunch'
    BY <1>1, <1>3 DEF OneCaller, OneRunPerLaunch, RunsOf, Idle, Caller
<1>5. HonestResult'
  <2>1. CASE AdmitReconciled
      BY <1>1, <2>1 DEF AdmitReconciled, AdmitRunResult, HonestResult, Bookkeeping, DelegationTypeOK
  <2>2. CASE result' = result
      BY <1>1, <2>2 DEF HonestResult
  <2> QED
      BY <2>1, <2>2 DEF ConfigureDelegation, BeginReconcile, BeginRecover, Ready, BootThrows, DelegationCrash,
                        ReadRunRecord, rows
<1>6. \A w \in reconciling' : runOf[w] # Nothing
    BY DEF ConfigureDelegation, BeginReconcile, AdmitReconciled, BeginRecover, Ready, BootThrows, DelegationCrash,
           ReadRunRecord, Raise, Bookkeeping, DelegationTypeOK
<1>7. readRun'.work # Nothing =>
        /\ runOf[readRun'.work] # Nothing
        /\ readRun'.status = "completed" => record[runOf[readRun'.work]] = "completed"
    BY DEF ConfigureDelegation, BeginReconcile, AdmitReconciled, BeginRecover, Ready, BootThrows, DelegationCrash,
           ReadRunRecord, Raise, Bookkeeping
<1>8. Bookkeeping'
    BY <1>1, <1>2, <1>3, <1>6, <1>7 DEF Bookkeeping, RunsOf, Idle
<1> QED
    BY <1>4, <1>5, <1>8 DEF Kept

LEMMA NextDelegation == DelegationInv /\ [DelegationNext]_delegationVars => DelegationInv'
<1> SUFFICES ASSUME DelegationInv, [DelegationNext]_delegationVars PROVE DelegationTypeOK' /\ Kept'
    BY DEF DelegationInv, Kept
<1> USE DEF DelegationInv
<1>1. ASSUME NEW w \in Work, LaunchTool(w)
      PROVE  DelegationTypeOK' /\ Kept'
  <2>1. "tool" \in Caller
      BY DEF Caller
  <2> QED
      BY <1>1, <2>1, CallsTypeOK, LaunchKeeps
<1>2. ASSUME NEW w \in Work, NEW c \in Caller,
             Search(w, c) \/ (\E r \in Run : Invoke(w, c, r)) \/ Accept(w, c) \/ InvokeThrows(w, c)
      PROVE  DelegationTypeOK' /\ Kept'
    BY <1>2, CallsTypeOK, SearchKeeps, InvokeKeeps, CallEnds
<1>3. CASE Results
    BY <1>3, ResultsTypeOK, ResultsKeep DEF Results
<1>4. CASE Boot \/ BootThrows \/ DelegationCrash
    BY <1>4, BootTypeOK, BootKeeps, LaunchKeeps DEF Boot
<1>5. CASE UNCHANGED delegationVars
    BY <1>5 DEF delegationVars, rows, runs, bootVars, history, bounds, DelegationTypeOK, Kept, Bookkeeping,
                HonestResult, OneCaller, OneRunPerLaunch, RunsOf
<1> QED
    BY <1>1, <1>2, <1>3, <1>4, <1>5 DEF DelegationNext, Calls

(* The inductive invariant: the rows of the application and the records of *)
(* Flue agree, whatever either process died between.                       *)
THEOREM DelegationInvariant == DelegationSpec => []DelegationInv
<1> QED
    BY InitDelegation, NextDelegation, PTL DEF DelegationSpec

(* The rows and records have their types, a launch is accepted exactly     *)
(* when it is bound to a run of its own, and only such a launch has a      *)
(* result.                                                                 *)
THEOREM DelegationTypeCorrect == DelegationSpec => []DelegationTypeOK
<1>1. DelegationInv => DelegationTypeOK
    BY DEF DelegationInv
<1> QED
    BY <1>1, DelegationInvariant, PTL

(* The Brain is told ok only for a run that completed, in time or by a     *)
(* later boot, and however many crashes and retries, a Work whose callers  *)
(* never overlapped has one run.                                           *)
THEOREM ResultsAreHonestAlways == DelegationSpec => []ResultsAreHonest
<1>1. DelegationInv => ResultsAreHonest
    BY DEF DelegationInv, ResultsAreHonest
<1> QED
    BY <1>1, DelegationInvariant, PTL

Stands == \A w \in Work : result[w] # "none" => result'[w] = result[w]

LEMMA NextStands == DelegationInv /\ [DelegationNext]_delegationVars => Stands
<1> SUFFICES ASSUME DelegationTypeOK, [DelegationNext]_delegationVars PROVE Stands
    BY DEF DelegationInv
<1>1. CASE result' = result
    BY <1>1 DEF Stands
<1>2. ASSUME NEW w \in Work \cup {Nothing}, NEW ending, AdmitRunResult(w, ending)
      PROVE  Stands
    BY <1>2 DEF AdmitRunResult, Stands, DelegationTypeOK
<1>3. CASE \E r \in Run : DeliverTerminalResult(r)
    BY <1>1, <1>2, <1>3 DEF DeliverTerminalResult
<1>4. CASE AdmitReconciled
    BY <1>2, <1>4 DEF AdmitReconciled, DelegationTypeOK
<1>5. \/ result' = result
      \/ \E r \in Run : DeliverTerminalResult(r)
      \/ AdmitReconciled
    BY DEF DelegationNext, Calls, Results, Boot, LaunchTool, Search, Found, Invoke, InvokeThrows, Accept,
           RunEnds, ConfigureDelegation, BeginReconcile, ReadRunRecord, BeginRecover, RecoverLaunch, Ready,
           BootThrows, DelegationCrash, rows, delegationVars
<1> QED
    BY <1>1, <1>3, <1>4, <1>5

(* A late delivery, a second run and the boot never replace a result the   *)
(* Brain was told.                                                         *)
THEOREM FirstResultStandsAlways == DelegationSpec => FirstResultStands
<1>1. DelegationInv /\ [DelegationNext]_delegationVars => [Stands]_delegationVars
    BY NextStands
<1> QED
    BY <1>1, DelegationInvariant, PTL DEF DelegationSpec, FirstResultStands, Stands

-----------------------------------------------------------------------------
(* What a log of the store is like: a ruling is on an earlier Attestation. *)
Logged(log) ==
  /\ log \in Seq(Attestation)
  /\ Len(log) <= MaxLog
  /\ \A k \in Kind(log, "ruling") : log[k].claim.target < k

GraphInv ==
  /\ Logged(attestations)
  /\ opens \in 0..MaxOpens
  /\ BeliefsFollowLog

-----------------------------------------------------------------------------
(* A set of numbers has a least one.                                       *)
LEMMA LeastNumber ==
  ASSUME NEW T \in SUBSET Nat, T # {}
  PROVE  \E n \in T : \A m \in T : n <= m
<1> DEFINE R == OpToRel(<, Nat)
<1>1. IsWellFoundedOn(R, Nat) BY NatLessThanWellFounded
<1>2. \E n \in T : \A m \in T : ~(<<m, n>> \in R)
  <2> HIDE DEF R
  <2> QED BY <1>1, WFMin
<1>3. \A m, n \in T : m < n => <<m, n>> \in R BY DEF OpToRel
<1> HIDE DEF R
<1>4. PICK n \in T : \A m \in T : ~(<<m, n>> \in R) BY <1>2
<1>5. \A m \in T : ~(m < n) BY <1>3, <1>4
<1>6. \A m \in T : n <= m BY <1>5
<1> QED BY <1>6

(* A set of numbers with a bound has a greatest one, its Max.              *)
LEMMA MaxIs ==
  ASSUME NEW S \in SUBSET Nat, S # {}, NEW m \in Nat, \A s \in S : s <= m
  PROVE  Max(S) \in S /\ \A s \in S : s <= Max(S)
<1> DEFINE T == {n \in Nat : m - n \in S}
<1>1. PICK s \in S : TRUE
    OBVIOUS
<1>2. s \in Nat /\ s <= m /\ m - s \in Nat /\ m - (m - s) = s
    BY <1>1
<1>3. T # {}
    BY <1>1, <1>2
<1>4. PICK n \in T : \A k \in T : n <= k
  <2> HIDE DEF T
  <2>1. T \in SUBSET Nat
      BY DEF T
  <2> QED
      BY <2>1, <1>3, LeastNumber
<1>5. m - n \in S /\ n \in Nat
    OBVIOUS
<1>6. ASSUME NEW x \in S PROVE m - n >= x
  <2>1. x \in Nat /\ x <= m /\ m - x \in Nat /\ m - (m - x) = x
      OBVIOUS
  <2>2. m - x \in T
      BY <2>1
  <2>3. n <= m - x
      BY <2>2, <1>4
  <2> HIDE DEF T
  <2> QED
      BY <2>1, <2>3, <1>5
<1>7. Max(S) \in S /\ \A y \in S : Max(S) >= y
  <2> HIDE DEF T
  <2> QED
      BY <1>5, <1>6, Zenon DEF Max
<1>8. Max(S) \in Nat
    BY <1>7
<1> QED
    BY <1>7, <1>8

(* Induction up to a number, with a set for the predicate.                 *)
LEMMA CountUp ==
  ASSUME NEW N \in Nat, NEW T, 0 \in T, \A n \in 0..(N - 1) : n \in T => n + 1 \in T
  PROVE  \A n \in 0..N : n \in T
<1> DEFINE B == {n \in 0..N : n \notin T}
<1> SUFFICES ASSUME B # {} PROVE FALSE
    OBVIOUS
<1>1. PICK n \in B : \A k \in B : n <= k
  <2>1. B \in SUBSET Nat
      OBVIOUS
  <2> HIDE DEF B
  <2> QED
      BY <2>1, LeastNumber
<1>2. n \in 1..N
    BY <1>1
<1>3. n - 1 \notin B
    BY <1>1, <1>2
<1>4. n - 1 \in 0..(N - 1) /\ n - 1 \in T /\ (n - 1) + 1 = n
    BY <1>2, <1>3
<1> QED
    BY <1>1, <1>4

(* Two sequences of values, each made from the one before in the same way, *)
(* are the same.                                                           *)
LEMMA Alike ==
  ASSUME NEW N \in Nat, NEW a, NEW b, a[0] = b[0],
         \A n \in 1..N : a[n - 1] = b[n - 1] => a[n] = b[n]
  PROVE  a[N] = b[N]
<1> DEFINE T == {n \in 0..N : a[n] = b[n]}
<1>1. 0 \in T
    OBVIOUS
<1>2. ASSUME NEW n \in 0..(N - 1), n \in T PROVE n + 1 \in T
  <2>1. n + 1 \in 1..N /\ n + 1 \in 0..N /\ (n + 1) - 1 = n
      OBVIOUS
  <2>2. a[(n + 1) - 1] = b[(n + 1) - 1]
      BY <2>1, <1>2
  <2> QED
      BY <2>1, <2>2
<1>3. \A n \in 0..N : n \in T
  <2> HIDE DEF T
  <2> QED
      BY <1>1, <1>2, CountUp
<1>4. N \in 0..N
    OBVIOUS
<1> QED
    BY <1>3, <1>4

(* A step that stays in a set can be taken any number of times.            *)
Runs(N, S, b, F) ==
  {g \in [0..N -> S] : g[0] = b /\ \A n \in 1..N : g[n] = F[<<n, g[n - 1]>>]}

LEMMA Iterated ==
  ASSUME NEW N \in Nat, NEW S, NEW b \in S, NEW F \in [(1..N) \X S -> S]
  PROVE  Runs(N, S, b, F) # {}
<1> DEFINE Taken(m, g) == g \in [0..m -> S] /\ g[0] = b /\ \A n \in 1..m : g[n] = F[<<n, g[n - 1]>>]
           T == {m \in 0..N : \E g : Taken(m, g)}
<1>1. 0 \in T
  <2> DEFINE g == [k \in 0..0 |-> b]
  <2>1. g \in [0..0 -> S] /\ g[0] = b
      OBVIOUS
  <2>2. \A n \in 1..0 : FALSE
      OBVIOUS
  <2> HIDE DEF g
  <2>3. Taken(0, g)
      BY <2>1, <2>2
  <2> QED
      BY <2>3
<1>2. ASSUME NEW m \in 0..(N - 1), m \in T PROVE m + 1 \in T
  <2>0. m \in Nat /\ m + 1 \in 1..N /\ m + 1 \in 0..N /\ m \in 0..m
      OBVIOUS
  <2>1. PICK g : Taken(m, g)
      BY <1>2
  <2> DEFINE h == [k \in 0..(m + 1) |-> IF k = m + 1 THEN F[<<m + 1, g[m]>>] ELSE g[k]]
  <2>2. g[m] \in S /\ F[<<m + 1, g[m]>>] \in S
      BY <2>0, <2>1
  <2>3. \A k \in 0..(m + 1) : k # m + 1 => k \in 0..m
      BY <2>0
  <2>4. h \in [0..(m + 1) -> S]
      BY <2>1, <2>2, <2>3
  <2>5. h[0] = b
      BY <2>0, <2>1
  <2>6. ASSUME NEW n \in 1..(m + 1) PROVE h[n] = F[<<n, h[n - 1]>>]
    <3>1. n \in 0..(m + 1) /\ n - 1 \in 0..(m + 1) /\ n - 1 # m + 1
        BY <2>0
    <3>2. h[n - 1] = g[n - 1]
        BY <3>1
    <3>3. CASE n = m + 1
      <4>1. n - 1 = m
          BY <3>3, <2>0
      <4> QED
          BY <3>1, <3>2, <3>3, <4>1
    <3>4. CASE n # m + 1
      <4>1. n \in 1..m
          BY <3>4, <2>0
      <4>2. h[n] = g[n]
          BY <3>4, <3>1
      <4> QED
          BY <4>1, <4>2, <3>2, <2>1
    <3> QED
        BY <3>3, <3>4
  <2>7. Taken(m + 1, h)
    <3> HIDE DEF h
    <3> QED
        BY <2>4, <2>5, <2>6
  <2> HIDE DEF Taken
  <2> QED
      BY <2>0, <2>7
<1>3. \A m \in 0..N : m \in T
  <2> HIDE DEF T
  <2> QED
      BY <1>1, <1>2, CountUp
<1>4. N \in 0..N
    OBVIOUS
<1> QED
    BY <1>3, <1>4 DEF Runs

-----------------------------------------------------------------------------
(* The log.                                                                *)
LEMMA AttestationIs ==
  ASSUME NEW a \in Attestation
  PROVE  /\ a.author \in Author
         /\ a.sure \in BOOLEAN
         /\ a.evidence \in SUBSET Evidence
         /\ a.evidence # {}
         /\ a.claim.kind \in {"entity", "relation", "merge", "ruling"}
         /\ a.claim.kind = "entity" => a.claim.id \in Entity /\ a.claim.type \in EntityType
         /\ a.claim.kind = "relation" => a.claim.edge \in Edge
         /\ a.claim.kind = "merge" => a.claim.survivor \in Entity /\ a.claim.loser \in Entity
         /\ a.claim.kind = "ruling" => a.claim.target \in 1..MaxLog
<1> DEFINE CA == EntityClaim \cup EdgeClaim
           CB == MergeClaim \cup RulingClaim
<1>1. /\ a.author \in Author
      /\ a.sure \in BOOLEAN
      /\ a.evidence \in (SUBSET Evidence) \ {{}}
      /\ a.claim \in CA \/ a.claim \in CB
  <2>1. a \in [author : Author, claim : CA, sure : BOOLEAN, evidence : (SUBSET Evidence) \ {{}}]
          \/ a \in [author : Author, claim : CB, sure : {TRUE}, evidence : (SUBSET Evidence) \ {{}}]
      BY DEF Attestation
  <2> HIDE DEF CA, CB
  <2> QED
      BY <2>1
<1>2. ASSUME NEW c \in EntityClaim PROVE c.kind = "entity" /\ c.id \in Entity /\ c.type \in EntityType
    BY DEF EntityClaim
<1>3. ASSUME NEW c \in EdgeClaim PROVE c.kind = "relation" /\ c.edge \in Edge
    BY DEF EdgeClaim
<1>4. ASSUME NEW c \in MergeClaim PROVE c.kind = "merge" /\ c.survivor \in Entity /\ c.loser \in Entity
    BY DEF MergeClaim
<1>5. ASSUME NEW c \in RulingClaim PROVE c.kind = "ruling" /\ c.target \in 1..MaxLog
    BY DEF RulingClaim
<1>6. "entity" # "relation" /\ "entity" # "merge" /\ "entity" # "ruling" /\ "relation" # "merge"
        /\ "relation" # "ruling" /\ "merge" # "ruling"
    OBVIOUS
<1>7. a.claim \in EntityClaim \/ a.claim \in EdgeClaim \/ a.claim \in MergeClaim \/ a.claim \in RulingClaim
    BY <1>1
<1> HIDE DEF CA, CB
<1>8. /\ a.claim.kind \in {"entity", "relation", "merge", "ruling"}
      /\ a.claim.kind = "entity" => a.claim.id \in Entity /\ a.claim.type \in EntityType
      /\ a.claim.kind = "relation" => a.claim.edge \in Edge
      /\ a.claim.kind = "merge" => a.claim.survivor \in Entity /\ a.claim.loser \in Entity
      /\ a.claim.kind = "ruling" => a.claim.target \in 1..MaxLog
    BY <1>2, <1>3, <1>4, <1>5, <1>6, <1>7, Zenon
<1> QED
    BY <1>1, <1>8

LEMMA EntryIs ==
  ASSUME NEW log, Logged(log)
  PROVE  /\ Len(log) \in Nat
         /\ Len(log) <= MaxLog
         /\ DOMAIN log = 1..Len(log)
         /\ \A k \in 1..Len(log) : log[k] \in Attestation
         /\ \A kind : Kind(log, kind) \in SUBSET (1..Len(log))
    BY DEF Logged, Kind

(* A log and the same log with one Attestation more.                       *)
LEMMA Longer ==
  ASSUME NEW log, Logged(log), NEW a \in Attestation, Len(log) < MaxLog,
         a.claim.kind = "ruling" => a.claim.target \in DOMAIN log
  PROVE  /\ Logged(Append(log, a))
         /\ Len(Append(log, a)) = Len(log) + 1
         /\ Append(log, a)[Len(log) + 1] = a
         /\ \A k \in 1..Len(log) : Append(log, a)[k] = log[k]
         /\ \A kind : Kind(Append(log, a), kind) =
              Kind(log, kind) \cup (IF a.claim.kind = kind THEN {Len(log) + 1} ELSE {})
<1> DEFINE l == Append(log, a)
<1>1. /\ Len(log) \in Nat
      /\ DOMAIN log = 1..Len(log)
      /\ log \in Seq(Attestation)
      /\ MaxLog \in Nat
    BY EntryIs, GraphConstants DEF Logged
<1>2. /\ l \in Seq(Attestation)
      /\ Len(l) = Len(log) + 1
      /\ l[Len(log) + 1] = a
      /\ \A k \in 1..Len(log) : l[k] = log[k]
      /\ DOMAIN l = 1..(Len(log) + 1)
    BY <1>1
<1> HIDE DEF l
<1>3. \A k : k \in 1..(Len(log) + 1) <=> k \in 1..Len(log) \/ k = Len(log) + 1
    BY <1>1
<1>4. ASSUME NEW kind
      PROVE  Kind(l, kind) = Kind(log, kind) \cup (IF a.claim.kind = kind THEN {Len(log) + 1} ELSE {})
  <2>1. ASSUME NEW k PROVE k \in Kind(l, kind) <=>
          k \in Kind(log, kind) \/ (a.claim.kind = kind /\ k = Len(log) + 1)
    <3>1. CASE k \in 1..Len(log)
      <4>1. k # Len(log) + 1
          BY <3>1, <1>1
      <4>2. k \in DOMAIN l /\ k \in DOMAIN log /\ l[k] = log[k]
          BY <3>1, <1>1, <1>2, <1>3
      <4>3. k \in Kind(l, kind) <=> l[k].claim.kind = kind
          BY <4>2 DEF Kind
      <4>4. k \in Kind(log, kind) <=> log[k].claim.kind = kind
          BY <4>2 DEF Kind
      <4> QED
          BY <4>1, <4>2, <4>3, <4>4
    <3>2. CASE k = Len(log) + 1
      <4>1. k \notin 1..Len(log)
          BY <3>2, <1>1
      <4> QED
          BY <3>2, <4>1, <1>1, <1>2, <1>3 DEF Kind
    <3>3. CASE k \notin 1..Len(log) /\ k # Len(log) + 1
        BY <3>3, <1>1, <1>2, <1>3 DEF Kind
    <3> QED
        BY <3>1, <3>2, <3>3
  <2>2. CASE a.claim.kind = kind
    <3>1. Kind(l, kind) = Kind(log, kind) \cup {Len(log) + 1}
        BY <2>1, <2>2
    <3> QED
        BY <3>1, <2>2
  <2>3. CASE a.claim.kind # kind
    <3>1. Kind(l, kind) = Kind(log, kind)
        BY <2>1, <2>3
    <3> QED
        BY <3>1, <2>3
  <2> QED
      BY <2>2, <2>3
<1>5. Len(l) <= MaxLog
    BY <1>1, <1>2
<1>6. ASSUME NEW k \in Kind(l, "ruling") PROVE l[k].claim.target < k
  <2>1. CASE k \in Kind(log, "ruling")
    <3>1. k \in 1..Len(log) /\ log[k].claim.target < k
        BY <2>1, EntryIs DEF Logged
    <3> QED
        BY <3>1, <1>2
  <2>2. CASE a.claim.kind = "ruling" /\ k = Len(log) + 1
    <3>1. a.claim.target \in 1..Len(log)
        BY <2>2, <1>1
    <3>2. a.claim.target < k
        BY <3>1, <2>2, <1>1
    <3> QED
        BY <3>2, <2>2, <1>2
  <2> QED
      BY <2>1, <2>2, <1>4
<1>7. Logged(l)
    BY <1>2, <1>5, <1>6 DEF Logged
<1> QED
    BY <1>2, <1>4, <1>7 DEF l

-----------------------------------------------------------------------------
(* The index.                                                              *)
LEMMA RulingsAre ==
  ASSUME NEW log, Logged(log)
  PROVE  /\ RulingsOf(log) = [k \in 1..MaxLog |-> RulingsOf(log)[k]]
         /\ \A k \in 1..MaxLog : \/ RulingsOf(log)[k] = 0
                                 \/ /\ RulingsOf(log)[k] \in Kind(log, "ruling")
                                    /\ log[RulingsOf(log)[k]].claim.target = k
<1> DEFINE S(k) == {0} \cup {r \in Kind(log, "ruling") : log[r].claim.target = k}
<1>1. RulingsOf(log) = [k \in 1..MaxLog |-> Max(S(k))]
    BY DEF RulingsOf
<1>2. ASSUME NEW k PROVE Max(S(k)) \in S(k)
  <2>1. Len(log) \in Nat /\ Kind(log, "ruling") \in SUBSET (1..Len(log))
      BY EntryIs
  <2>2. S(k) \in SUBSET Nat /\ S(k) # {} /\ \A s \in S(k) : s <= Len(log)
      BY <2>1
  <2> HIDE DEF S
  <2> QED
      BY <2>1, <2>2, MaxIs
<1>3. \A k \in 1..MaxLog : RulingsOf(log)[k] = Max(S(k))
  <2> HIDE DEF S
  <2> QED
      BY <1>1
<1>4. ASSUME NEW k \in 1..MaxLog
      PROVE  \/ RulingsOf(log)[k] = 0
             \/ /\ RulingsOf(log)[k] \in Kind(log, "ruling")
                /\ log[RulingsOf(log)[k]].claim.target = k
  <2>1. PICK r : r = RulingsOf(log)[k]
      OBVIOUS
  <2>2. r \in S(k)
    <3> HIDE DEF S
    <3> QED
        BY <2>1, <1>2, <1>3
  <2> QED
      BY <2>1, <2>2
<1> HIDE DEF S
<1> QED
    BY <1>1, <1>4

(* A claim of another kind changes no ruling.                              *)
LEMMA RulingsKept ==
  ASSUME NEW log, Logged(log), NEW a \in Attestation, Len(log) < MaxLog, a.claim.kind # "ruling"
  PROVE  /\ RulingsOf(Append(log, a)) = RulingsOf(log)
         /\ RulingsOf(log)[Len(log) + 1] = 0
         /\ \A action : \A k \in 1..MaxLog :
              Ruled(Append(log, a), RulingsOf(log), k, action) = Ruled(log, RulingsOf(log), k, action)
<1> DEFINE l == Append(log, a)
<1>0. /\ Kind(l, "ruling") = Kind(log, "ruling") \cup (IF a.claim.kind = "ruling" THEN {Len(log) + 1} ELSE {})
      /\ \A k \in 1..Len(log) : l[k] = log[k]
    BY Longer
<1>1. /\ Kind(l, "ruling") = Kind(log, "ruling")
      /\ \A k \in 1..Len(log) : l[k] = log[k]
  <2> HIDE DEF l
  <2> QED
      BY <1>0
<1>2. /\ Len(log) \in Nat
      /\ Kind(log, "ruling") \in SUBSET (1..Len(log))
      /\ \A k \in Kind(log, "ruling") : log[k].claim.target < k
      /\ MaxLog \in Nat
    BY EntryIs, GraphConstants DEF Logged
<1> HIDE DEF l
<1>3. ASSUME NEW k PROVE {r \in Kind(l, "ruling") : l[r].claim.target = k}
                          = {r \in Kind(log, "ruling") : log[r].claim.target = k}
    BY <1>1, <1>2
<1>4. RulingsOf(l) = RulingsOf(log)
    BY <1>3 DEF RulingsOf
<1>5. RulingsOf(log)[Len(log) + 1] = 0
  <2>1. PICK r : r = RulingsOf(log)[Len(log) + 1]
      OBVIOUS
  <2>2. Len(log) + 1 \in 1..MaxLog
      BY <1>2
  <2>a. \A k \in 1..MaxLog : \/ RulingsOf(log)[k] = 0
                              \/ /\ RulingsOf(log)[k] \in Kind(log, "ruling")
                                 /\ log[RulingsOf(log)[k]].claim.target = k
      BY RulingsAre
  <2>3. r = 0 \/ (r \in Kind(log, "ruling") /\ log[r].claim.target = Len(log) + 1)
      BY <2>1, <2>2, <2>a, Zenon
  <2>4. r \in Kind(log, "ruling") => log[r].claim.target < r /\ r \in 1..Len(log)
      BY <1>2
  <2>5. r \in Kind(log, "ruling") => log[r].claim.target # Len(log) + 1
      BY <2>4, <1>2
  <2> QED
      BY <2>1, <2>3, <2>5
<1>6. ASSUME NEW k \in 1..MaxLog, NEW action
      PROVE  Ruled(l, RulingsOf(log), k, action) = Ruled(log, RulingsOf(log), k, action)
  <2>1. PICK r : r = RulingsOf(log)[k]
      OBVIOUS
  <2>2. r = 0 \/ r \in 1..Len(log)
      BY <2>1, RulingsAre, <1>2
  <2>3. r # 0 => l[r] = log[r]
      BY <2>2, <1>1
  <2> QED
      BY <2>1, <2>3 DEF Ruled
<1> QED
    BY <1>4, <1>5, <1>6 DEF l

-----------------------------------------------------------------------------
(* Merges.                                                                 *)
LEMMA CanonicalIs ==
  ASSUME NEW merges \in [Entity -> Entity], NEW e \in Entity
  PROVE  Canonical(merges, e) \in Entity
<1> DEFINE N == Cardinality(Entity)
           F(g) == [n \in 0..N |-> IF n = 0 THEN e ELSE merges[g[n - 1]]]
           h == CHOOSE g : g = F(g)
           M == [p \in (1..N) \X Entity |-> merges[p[2]]]
<1>1. N \in Nat
    BY FS_CardinalityType, GraphConstants
<1>2. Canonical(merges, e) = h[N]
    BY Zenon DEF Canonical
<1> HIDE DEF N
<1>3. M \in [(1..N) \X Entity -> Entity] /\ \A n \in 1..N, x \in Entity : M[<<n, x>>] = merges[x]
    BY <1>1
<1> HIDE DEF M
<1>4. PICK g \in [0..N -> Entity] : g[0] = e /\ \A n \in 1..N : g[n] = M[<<n, g[n - 1]>>]
  <2>1. Runs(N, Entity, e, M) # {}
      BY <1>1, <1>3, Iterated
  <2> QED
      BY <2>1 DEF Runs
<1>5. \A n \in 1..N : n - 1 \in 0..N /\ n \in 0..N /\ n # 0
    BY <1>1
<1>6. \A n \in 1..N : g[n] = merges[g[n - 1]]
    BY <1>3, <1>4, <1>5
<1>7. g = F(g)
  <2>1. \A n \in 0..N : n = 0 \/ n \in 1..N
      BY <1>1
  <2> QED
      BY <1>4, <1>6, <2>1
<1>8. h = F(h)
  <2> HIDE DEF F
  <2> QED
      BY <1>7, Zenon
<1> HIDE DEF h
<1>9. /\ h[0] = g[0]
      /\ \A n \in 1..N : h[n - 1] = g[n - 1] => h[n] = g[n]
  <2>1. h[0] = e
      BY <1>1, <1>8
  <2>2. \A n \in 1..N : h[n] = merges[h[n - 1]]
      BY <1>5, <1>8
  <2> HIDE DEF F
  <2> QED
      BY <2>1, <2>2, <1>4, <1>6
<1> HIDE DEF F
<1>10. h[N] = g[N] /\ g[N] \in Entity
  <2>1. h[N] = g[N]
      BY <1>1, <1>9, Alike
  <2>2. N \in 0..N
      BY <1>1
  <2> QED
      BY <2>1, <2>2, <1>4
<1> QED
    BY <1>2, <1>10

(* What the k-th Attestation does to the merges.                           *)
Merged(log, rulings, k, m) ==
  IF k \in Kind(log, "merge") /\ ~ Ruled(log, rulings, k, "overrule")
  THEN [m EXCEPT ![log[k].claim.loser] = Canonical(m, log[k].claim.survivor)]
  ELSE m

LEMMA MergedIs ==
  ASSUME NEW log, Logged(log), NEW rulings, NEW k \in 1..Len(log), NEW m \in [Entity -> Entity]
  PROVE  Merged(log, rulings, k, m) \in [Entity -> Entity]
<1>1. CASE k \in Kind(log, "merge") /\ ~ Ruled(log, rulings, k, "overrule")
  <2>1. log[k] \in Attestation /\ log[k].claim.kind = "merge"
      BY <1>1, EntryIs DEF Kind
  <2>2. log[k].claim.survivor \in Entity /\ log[k].claim.loser \in Entity
      BY <2>1, AttestationIs
  <2>3. Canonical(m, log[k].claim.survivor) \in Entity
      BY <2>2, CanonicalIs
  <2>4. Merged(log, rulings, k, m) = [m EXCEPT ![log[k].claim.loser] = Canonical(m, log[k].claim.survivor)]
      BY <1>1 DEF Merged
  <2> QED
      BY <2>2, <2>3, <2>4
<1>2. CASE ~(k \in Kind(log, "merge") /\ ~ Ruled(log, rulings, k, "overrule"))
    BY <1>2 DEF Merged
<1> QED
    BY <1>1, <1>2

LEMMA MergesAre ==
  ASSUME NEW log, Logged(log), NEW rulings
  PROVE  \E g \in [0..Len(log) -> [Entity -> Entity]] :
           /\ g[0] = [e \in Entity |-> e]
           /\ \A k \in 1..Len(log) : g[k] = Merged(log, rulings, k, g[k - 1])
           /\ MergesOf(log, rulings) = g[Len(log)]
<1> DEFINE N == Len(log)
           S == [Entity -> Entity]
           F(g) == [k \in 0..N |->
                      IF k = 0 THEN [e \in Entity |-> e]
                      ELSE IF k \in Kind(log, "merge") /\ ~ Ruled(log, rulings, k, "overrule")
                      THEN [g[k - 1] EXCEPT ![log[k].claim.loser] = Canonical(g[k - 1], log[k].claim.survivor)]
                      ELSE g[k - 1]]
           h == CHOOSE g : g = F(g)
           M == [p \in (1..N) \X S |-> Merged(log, rulings, p[1], p[2])]
<1>1. N \in Nat
    BY EntryIs
<1>2. MergesOf(log, rulings) = h[N]
    BY Zenon DEF MergesOf
<1>3. M \in [(1..N) \X S -> S] /\ \A k \in 1..N, m \in S : M[<<k, m>>] = Merged(log, rulings, k, m)
  <2>1. \A k \in 1..N, m \in S : Merged(log, rulings, k, m) \in S
      BY MergedIs
  <2> HIDE DEF N, S
  <2> QED
      BY <2>1
<1> HIDE DEF N
<1>4. PICK g \in [0..N -> S] : g[0] = [e \in Entity |-> e] /\ \A n \in 1..N : g[n] = M[<<n, g[n - 1]>>]
  <2>1. [e \in Entity |-> e] \in S
      OBVIOUS
  <2> HIDE DEF S, M
  <2>2. Runs(N, S, [e \in Entity |-> e], M) # {}
      BY <1>1, <1>3, <2>1, Iterated
  <2> QED
      BY <2>2 DEF Runs
<1>5. \A n \in 1..N : n - 1 \in 0..N /\ n \in 0..N /\ n # 0
    BY <1>1
<1>6. \A n \in 1..N : g[n] = Merged(log, rulings, n, g[n - 1])
  <2> HIDE DEF S, M
  <2> QED
      BY <1>3, <1>4, <1>5
<1>7. g = F(g)
  <2>1. \A n \in 0..N : n = 0 \/ n \in 1..N
      BY <1>1
  <2>2. \A n \in 0..N : g[n] = F(g)[n]
      BY <1>4, <1>6, <2>1 DEF Merged
  <2>3. g = [n \in 0..N |-> g[n]]
      BY <1>4
  <2> HIDE DEF S
  <2> QED
      BY <2>2, <2>3
<1>8. h = F(h)
  <2> HIDE DEF F
  <2> QED
      BY <1>7, Zenon
<1> HIDE DEF h
<1>9. /\ h[0] = g[0]
      /\ \A n \in 1..N : h[n - 1] = g[n - 1] => h[n] = g[n]
  <2>1. h[0] = [e \in Entity |-> e]
      BY <1>1, <1>8
  <2>2. \A n \in 1..N : h[n] = Merged(log, rulings, n, h[n - 1])
      BY <1>5, <1>8 DEF Merged
  <2> HIDE DEF F, S, M
  <2> QED
      BY <2>1, <2>2, <1>4, <1>6
<1> HIDE DEF F, M
<1>10. h[N] = g[N]
    BY <1>1, <1>9, Alike
<1>11. MergesOf(log, rulings) = g[N]
    BY <1>2, <1>10
<1> QED
    BY <1>4, <1>6, <1>11 DEF N

LEMMA MergesTyped ==
  ASSUME NEW log, Logged(log), NEW rulings
  PROVE  MergesOf(log, rulings) \in [Entity -> Entity]
<1>1. PICK g \in [0..Len(log) -> [Entity -> Entity]] : MergesOf(log, rulings) = g[Len(log)]
    BY MergesAre
<1>2. Len(log) \in 0..Len(log)
    BY EntryIs
<1> QED
    BY <1>1, <1>2

(* Only a merge and a ruling change them.                                  *)
LEMMA MergesKept ==
  ASSUME NEW log, Logged(log), NEW a \in Attestation, Len(log) < MaxLog,
         a.claim.kind \in {"entity", "relation"}
  PROVE  MergesOf(Append(log, a), RulingsOf(log)) = MergesOf(log, RulingsOf(log))
<1> DEFINE l == Append(log, a)
           N == Len(log)
           R == RulingsOf(log)
<1>0. a.claim.kind # "merge" /\ a.claim.kind # "ruling"
    OBVIOUS
<1>1. /\ Logged(l)
      /\ Len(l) = N + 1
      /\ \A k \in 1..N : l[k] = log[k]
      /\ Kind(l, "merge") = Kind(log, "merge") \cup (IF a.claim.kind = "merge" THEN {N + 1} ELSE {})
    BY <1>0, Longer
<1>2. N \in Nat /\ N <= MaxLog /\ MaxLog \in Nat /\ Kind(log, "merge") \in SUBSET (1..N)
    BY EntryIs, GraphConstants
<1>3. \A action : \A k \in 1..MaxLog : Ruled(l, R, k, action) = Ruled(log, R, k, action)
    BY <1>0, RulingsKept
<1> HIDE DEF l, N, R
<1>4. Kind(l, "merge") = Kind(log, "merge")
    BY <1>0, <1>1
<1>5. PICK g : /\ g[0] = [e \in Entity |-> e]
               /\ \A k \in 1..N : g[k] = Merged(log, R, k, g[k - 1])
               /\ MergesOf(log, R) = g[N]
    BY MergesAre DEF N
<1>6. PICK h : /\ h[0] = [e \in Entity |-> e]
               /\ \A k \in 1..(N + 1) : h[k] = Merged(l, R, k, h[k - 1])
               /\ MergesOf(l, R) = h[N + 1]
  <2>1. \E h \in [0..Len(l) -> [Entity -> Entity]] :
          /\ h[0] = [e \in Entity |-> e]
          /\ \A k \in 1..Len(l) : h[k] = Merged(l, R, k, h[k - 1])
          /\ MergesOf(l, R) = h[Len(l)]
      BY <1>1, MergesAre
  <2> QED
      BY <1>1, <2>1
<1>7. ASSUME NEW k \in 1..N, NEW m PROVE Merged(l, R, k, m) = Merged(log, R, k, m)
  <2>1. k \in 1..MaxLog
      BY <1>2
  <2>2. Ruled(l, R, k, "overrule") = Ruled(log, R, k, "overrule") /\ l[k] = log[k]
      BY <1>1, <1>3, <2>1
  <2> QED
      BY <1>4, <2>2 DEF Merged
<1>8. \A k \in 1..N : h[k - 1] = g[k - 1] => h[k] = g[k]
  <2>1. \A k \in 1..N : k \in 1..(N + 1)
      BY <1>2
  <2> QED
      BY <1>5, <1>6, <1>7, <2>1
<1>9. h[N] = g[N]
  <2>1. h[0] = g[0]
      BY <1>5, <1>6
  <2> QED
      BY <1>2, <1>8, <2>1, Alike
<1>10. h[N + 1] = h[N]
  <2>1. N + 1 \in 1..(N + 1) /\ (N + 1) - 1 = N /\ N + 1 \notin 1..N
      BY <1>2
  <2>2. N + 1 \notin Kind(l, "merge")
      BY <2>1, <1>2, <1>4
  <2>3. h[N + 1] = Merged(l, R, N + 1, h[(N + 1) - 1])
      BY <2>1, <1>6
  <2>4. Merged(l, R, N + 1, h[N]) = h[N]
      BY <2>2 DEF Merged
  <2> QED
      BY <2>1, <2>3, <2>4
<1>11. MergesOf(l, R) = MergesOf(log, R)
    BY <1>5, <1>6, <1>9, <1>10
<1> QED
    BY <1>11 DEF l, R

-----------------------------------------------------------------------------
(* The claims that count.                                                  *)
Active(log, kind) == {k \in Kind(log, kind) : ~ Ruled(log, RulingsOf(log), k, "overrule")}

LEMMA EdgeUnderIs ==
  ASSUME NEW merges \in [Entity -> Entity], NEW t \in Edge
  PROVE  EdgeUnder(merges, t) \in Edge
<1>1. t[1] \in Entity /\ t[2] \in Relation /\ t[3] \in Entity
    BY DEF Edge
<1>2. Canonical(merges, t[1]) \in Entity /\ Canonical(merges, t[3]) \in Entity
    BY <1>1, CanonicalIs
<1> QED
    BY <1>1, <1>2 DEF EdgeUnder, Edge

LEMMA IndexIs ==
  ASSUME NEW log
  PROVE  /\ IndexOf(log) =
              [rulings  |-> RulingsOf(log),
               merges   |-> MergesOf(log, RulingsOf(log)),
               entities |-> [e \in Entity |->
                  {k \in Active(log, "entity") :
                     Canonical(MergesOf(log, RulingsOf(log)), log[k].claim.id) = e}],
               edges    |-> [t \in Edge |->
                  {k \in Active(log, "relation") :
                     EdgeUnder(MergesOf(log, RulingsOf(log)), log[k].claim.edge) = t}]]
         /\ IndexOf(log).rulings = RulingsOf(log)
         /\ IndexOf(log).merges = MergesOf(log, RulingsOf(log))
         /\ \A e \in Entity : IndexOf(log).entities[e] =
              {k \in Active(log, "entity") :
                 Canonical(MergesOf(log, RulingsOf(log)), log[k].claim.id) = e}
         /\ \A t \in Edge : IndexOf(log).edges[t] =
              {k \in Active(log, "relation") :
                 EdgeUnder(MergesOf(log, RulingsOf(log)), log[k].claim.edge) = t}
<1>1. IndexOf(log) =
        [rulings  |-> RulingsOf(log),
         merges   |-> MergesOf(log, RulingsOf(log)),
         entities |-> [e \in Entity |->
            {k \in Active(log, "entity") :
               Canonical(MergesOf(log, RulingsOf(log)), log[k].claim.id) = e}],
         edges    |-> [t \in Edge |->
            {k \in Active(log, "relation") :
               EdgeUnder(MergesOf(log, RulingsOf(log)), log[k].claim.edge) = t}]]
    BY DEF IndexOf, Active
<1>2. PICK ix : ix = IndexOf(log)
    OBVIOUS
<1>3. /\ ix.rulings = RulingsOf(log)
      /\ ix.merges = MergesOf(log, RulingsOf(log))
      /\ \A e \in Entity : ix.entities[e] =
           {k \in Active(log, "entity") :
              Canonical(MergesOf(log, RulingsOf(log)), log[k].claim.id) = e}
      /\ \A t \in Edge : ix.edges[t] =
           {k \in Active(log, "relation") :
              EdgeUnder(MergesOf(log, RulingsOf(log)), log[k].claim.edge) = t}
    BY <1>1, <1>2
<1> QED
    BY <1>1, <1>2, <1>3, Zenon

(* The claims of an Entity are Entity claims in the log, each of one.      *)
LEMMA ClaimedBy ==
  ASSUME NEW log, Logged(log), NEW e \in Entity, NEW k \in IndexOf(log).entities[e]
  PROVE  /\ k \in 1..Len(log)
         /\ log[k] \in Attestation
         /\ log[k].claim.kind = "entity"
         /\ log[k].claim.id \in Entity
         /\ log[k].claim.type \in EntityType
         /\ Canonical(IndexOf(log).merges, log[k].claim.id) = e
<1>1. /\ k \in Active(log, "entity")
      /\ Canonical(IndexOf(log).merges, log[k].claim.id) = e
    BY IndexIs
<1>2. k \in 1..Len(log) /\ log[k].claim.kind = "entity" /\ log[k] \in Attestation
    BY <1>1, EntryIs DEF Active, Kind
<1> QED
    BY <1>1, <1>2, AttestationIs

(* A claim of an Entity or an edge joins its group, and changes no other.  *)
LEMMA ActiveGrows ==
  ASSUME NEW log, Logged(log), NEW a \in Attestation, Len(log) < MaxLog,
         a.claim.kind \in {"entity", "relation"}, NEW kind
  PROVE  Active(Append(log, a), kind)
           = Active(log, kind) \cup (IF a.claim.kind = kind THEN {Len(log) + 1} ELSE {})
<1> DEFINE l == Append(log, a)
           N == Len(log)
           R == RulingsOf(log)
<1>0. a.claim.kind # "ruling"
    OBVIOUS
<1>1. Kind(l, kind) = Kind(log, kind) \cup (IF a.claim.kind = kind THEN {N + 1} ELSE {})
    BY <1>0, Longer
<1>2. /\ RulingsOf(l) = R
      /\ R[N + 1] = 0
      /\ \A action : \A k \in 1..MaxLog : Ruled(l, R, k, action) = Ruled(log, R, k, action)
    BY <1>0, RulingsKept
<1>3. N \in Nat /\ N <= MaxLog /\ MaxLog \in Nat /\ Kind(log, kind) \in SUBSET (1..N)
    BY EntryIs, GraphConstants
<1> HIDE DEF l, N, R
<1>4. \A k \in Kind(log, kind) : Ruled(l, R, k, "overrule") = Ruled(log, R, k, "overrule")
  <2>1. \A k \in Kind(log, kind) : k \in 1..MaxLog
      BY <1>3
  <2> QED
      BY <2>1, <1>2
<1>5. ~ Ruled(l, R, N + 1, "overrule")
    BY <1>2 DEF Ruled
<1>6. Active(l, kind) = {k \in Kind(l, kind) : ~ Ruled(l, R, k, "overrule")}
    BY <1>2 DEF Active
<1>7. Active(log, kind) = {k \in Kind(log, kind) : ~ Ruled(log, R, k, "overrule")}
    BY DEF Active, R
<1>8. Active(l, kind) = Active(log, kind) \cup (IF a.claim.kind = kind THEN {N + 1} ELSE {})
  <2>1. CASE a.claim.kind = kind
      BY <2>1, <1>1, <1>4, <1>5, <1>6, <1>7
  <2>2. CASE a.claim.kind # kind
      BY <2>2, <1>1, <1>4, <1>5, <1>6, <1>7
  <2> QED
      BY <2>1, <2>2
<1> QED
    BY <1>8 DEF l, N

WithEntity(ix, iy, g, n) ==
  /\ g \in Entity
  /\ iy = [ix EXCEPT !.entities[g] = @ \cup {n}]
  /\ iy.rulings = ix.rulings
  /\ iy.merges = ix.merges
  /\ \A e \in Entity : iy.entities[e] = IF e = g THEN ix.entities[e] \cup {n} ELSE ix.entities[e]
  /\ \A t \in Edge : iy.edges[t] = ix.edges[t]

LEMMA IndexWithEntity ==
  ASSUME NEW log, Logged(log), NEW a \in Attestation, Len(log) < MaxLog, a.claim.kind = "entity",
         NEW g, g = Canonical(IndexOf(log).merges, a.claim.id)
  PROVE  WithEntity(IndexOf(log), IndexOf(Append(log, a)), g, Len(log) + 1)
<1> DEFINE l == Append(log, a)
           N == Len(log)
           R == RulingsOf(log)
           M == MergesOf(log, R)
           E(x) == [e \in Entity |-> {k \in Active(x, "entity") : Canonical(M, x[k].claim.id) = e}]
           D(x) == [t \in Edge |-> {k \in Active(x, "relation") : EdgeUnder(M, x[k].claim.edge) = t}]
<1>0. a.claim.kind # "ruling" /\ a.claim.kind \in {"entity", "relation"} /\ a.claim.id \in Entity
    BY AttestationIs
<1>1. RulingsOf(l) = R /\ MergesOf(l, R) = M
    BY <1>0, RulingsKept, MergesKept
<1>2. M \in [Entity -> Entity]
    BY MergesTyped
<1>3. /\ Active(l, "entity") = Active(log, "entity") \cup {N + 1}
      /\ Active(l, "relation") = Active(log, "relation")
  <2>1. /\ Active(l, "entity")
             = Active(log, "entity") \cup (IF a.claim.kind = "entity" THEN {N + 1} ELSE {})
        /\ Active(l, "relation")
             = Active(log, "relation") \cup (IF a.claim.kind = "relation" THEN {N + 1} ELSE {})
      BY <1>0, ActiveGrows
  <2> HIDE DEF l, N
  <2> QED
      BY <2>1
<1>4. l[N + 1] = a /\ \A k \in 1..N : l[k] = log[k]
    BY <1>0, Longer
<1>5. N \in Nat /\ \A kind : Active(log, kind) \in SUBSET (1..N)
    BY EntryIs DEF Active
<1>6. IndexOf(log) = [rulings |-> R, merges |-> M, entities |-> E(log), edges |-> D(log)]
    BY IndexIs
<1>7. IndexOf(l) = [rulings |-> R, merges |-> M, entities |-> E(l), edges |-> D(l)]
  <2>1. IndexOf(l) =
        [rulings  |-> RulingsOf(l),
         merges   |-> MergesOf(l, RulingsOf(l)),
         entities |-> [e \in Entity |->
            {k \in Active(l, "entity") :
               Canonical(MergesOf(l, RulingsOf(l)), l[k].claim.id) = e}],
         edges    |-> [t \in Edge |->
            {k \in Active(l, "relation") :
               EdgeUnder(MergesOf(l, RulingsOf(l)), l[k].claim.edge) = t}]]
      BY IndexIs
  <2> HIDE DEF l, R, M
  <2> QED
      BY <2>1, <1>1
<1> HIDE DEF l, N, R, M
<1>8. g = Canonical(M, a.claim.id) /\ g \in Entity
    BY <1>0, <1>2, <1>6, CanonicalIs
<1>9. D(l) = D(log)
  <2>1. \A t : {k \in Active(l, "relation") : EdgeUnder(M, l[k].claim.edge) = t}
             = {k \in Active(log, "relation") : EdgeUnder(M, log[k].claim.edge) = t}
      BY <1>3, <1>4, <1>5
  <2> QED
      BY <2>1
<1>10. \A e \in Entity : E(l)[e] = IF e = g THEN E(log)[e] \cup {N + 1} ELSE E(log)[e]
  <2> SUFFICES ASSUME NEW e \in Entity
               PROVE  E(l)[e] = IF e = g THEN E(log)[e] \cup {N + 1} ELSE E(log)[e]
      OBVIOUS
  <2>1. E(l)[e] = {k \in Active(log, "entity") \cup {N + 1} : Canonical(M, l[k].claim.id) = e}
      BY <1>3
  <2>2. \A k \in Active(log, "entity") : l[k] = log[k]
      BY <1>4, <1>5
  <2>3. E(log)[e] = {k \in Active(log, "entity") : Canonical(M, log[k].claim.id) = e}
      OBVIOUS
  <2>4. Canonical(M, l[N + 1].claim.id) = g
      BY <1>4, <1>8
  <2> HIDE DEF E
  <2>5. CASE e = g
    <3>1. E(l)[e] = E(log)[e] \cup {N + 1}
        BY <2>1, <2>2, <2>3, <2>4, <2>5
    <3> QED
        BY <3>1, <2>5
  <2>6. CASE e # g
    <3>1. E(l)[e] = E(log)[e]
        BY <2>1, <2>2, <2>3, <2>4, <2>6
    <3> QED
        BY <3>1, <2>6
  <2> QED
      BY <2>5, <2>6
<1>11. E(l) = [E(log) EXCEPT ![g] = @ \cup {N + 1}]
  <2>1. E(l) = [e \in Entity |-> E(l)[e]] /\ E(log) = [e \in Entity |-> E(log)[e]]
      OBVIOUS
  <2> HIDE DEF E
  <2> QED
      BY <2>1, <1>8, <1>10
<1>12. IndexOf(l) = [IndexOf(log) EXCEPT !.entities[g] = @ \cup {N + 1}]
  <2> HIDE DEF E, D
  <2>1. ASSUME NEW ix, NEW r, NEW m, NEW x, NEW d,
               ix = [rulings |-> r, merges |-> m, entities |-> x, edges |-> d]
        PROVE  [ix EXCEPT !.entities[g] = @ \cup {N + 1}]
                 = [rulings |-> r, merges |-> m, entities |-> [x EXCEPT ![g] = @ \cup {N + 1}], edges |-> d]
    <3>1. \A v : [ix EXCEPT !.entities[g] = v] = [ix EXCEPT !.entities = [ix.entities EXCEPT ![g] = v]]
        BY <2>1
    <3>2. \A y : [ix EXCEPT !.entities = y] = [rulings |-> r, merges |-> m, entities |-> y, edges |-> d]
        BY <2>1
    <3>3. ix.entities = x
        BY <2>1
    <3> QED
        BY <3>1, <3>2, <3>3, Zenon
  <2>2. IndexOf(l) = [rulings |-> R, merges |-> M, entities |-> E(l), edges |-> D(log)]
      BY <1>7, <1>9, Zenon
  <2> QED
      BY <2>1, <2>2, <1>6, <1>11
<1>13. /\ IndexOf(l).rulings = IndexOf(log).rulings
       /\ IndexOf(l).merges = IndexOf(log).merges
       /\ IndexOf(l).entities = E(l) /\ IndexOf(log).entities = E(log)
       /\ IndexOf(l).edges = IndexOf(log).edges
  <2> HIDE DEF E, D
  <2> QED
      BY <1>6, <1>7, <1>9
<1> HIDE DEF E, D
<1>14. \A e \in Entity : IndexOf(l).entities[e] =
         IF e = g THEN IndexOf(log).entities[e] \cup {N + 1} ELSE IndexOf(log).entities[e]
    BY <1>10, <1>13
<1>15. WithEntity(IndexOf(log), IndexOf(l), g, N + 1)
    BY <1>8, <1>12, <1>13, <1>14 DEF WithEntity
<1> QED
    BY <1>15 DEF l, N

WithRelation(ix, iy, u, n) ==
  /\ u \in Edge
  /\ iy = [ix EXCEPT !.edges[u] = @ \cup {n}]
  /\ iy.rulings = ix.rulings
  /\ iy.merges = ix.merges
  /\ \A e \in Entity : iy.entities[e] = ix.entities[e]
  /\ \A t \in Edge : iy.edges[t] = IF t = u THEN ix.edges[t] \cup {n} ELSE ix.edges[t]

LEMMA IndexWithRelation ==
  ASSUME NEW log, Logged(log), NEW a \in Attestation, Len(log) < MaxLog, a.claim.kind = "relation",
         NEW u, u = EdgeUnder(IndexOf(log).merges, a.claim.edge)
  PROVE  WithRelation(IndexOf(log), IndexOf(Append(log, a)), u, Len(log) + 1)
<1> DEFINE l == Append(log, a)
           N == Len(log)
           R == RulingsOf(log)
           M == MergesOf(log, R)
           E(x) == [e \in Entity |-> {k \in Active(x, "entity") : Canonical(M, x[k].claim.id) = e}]
           D(x) == [t \in Edge |-> {k \in Active(x, "relation") : EdgeUnder(M, x[k].claim.edge) = t}]
<1>0. a.claim.kind # "ruling" /\ a.claim.kind \in {"entity", "relation"} /\ a.claim.edge \in Edge
    BY AttestationIs
<1>1. RulingsOf(l) = R /\ MergesOf(l, R) = M
    BY <1>0, RulingsKept, MergesKept
<1>2. M \in [Entity -> Entity]
    BY MergesTyped
<1>3. /\ Active(l, "entity") = Active(log, "entity")
      /\ Active(l, "relation") = Active(log, "relation") \cup {N + 1}
  <2>1. /\ Active(l, "entity")
             = Active(log, "entity") \cup (IF a.claim.kind = "entity" THEN {N + 1} ELSE {})
        /\ Active(l, "relation")
             = Active(log, "relation") \cup (IF a.claim.kind = "relation" THEN {N + 1} ELSE {})
      BY <1>0, ActiveGrows
  <2> HIDE DEF l, N
  <2> QED
      BY <2>1
<1>4. l[N + 1] = a /\ \A k \in 1..N : l[k] = log[k]
    BY <1>0, Longer
<1>5. N \in Nat /\ \A kind : Active(log, kind) \in SUBSET (1..N)
    BY EntryIs DEF Active
<1>6. IndexOf(log) = [rulings |-> R, merges |-> M, entities |-> E(log), edges |-> D(log)]
    BY IndexIs
<1>7. IndexOf(l) = [rulings |-> R, merges |-> M, entities |-> E(l), edges |-> D(l)]
  <2>1. IndexOf(l) =
        [rulings  |-> RulingsOf(l),
         merges   |-> MergesOf(l, RulingsOf(l)),
         entities |-> [e \in Entity |->
            {k \in Active(l, "entity") :
               Canonical(MergesOf(l, RulingsOf(l)), l[k].claim.id) = e}],
         edges    |-> [t \in Edge |->
            {k \in Active(l, "relation") :
               EdgeUnder(MergesOf(l, RulingsOf(l)), l[k].claim.edge) = t}]]
      BY IndexIs
  <2> HIDE DEF l, R, M
  <2> QED
      BY <2>1, <1>1
<1> HIDE DEF l, N, R, M
<1>8. u = EdgeUnder(M, a.claim.edge) /\ u \in Edge
    BY <1>0, <1>2, <1>6, EdgeUnderIs
<1>9. E(l) = E(log)
  <2>1. \A e : {k \in Active(l, "entity") : Canonical(M, l[k].claim.id) = e}
             = {k \in Active(log, "entity") : Canonical(M, log[k].claim.id) = e}
      BY <1>3, <1>4, <1>5
  <2> QED
      BY <2>1
<1>10. \A t \in Edge : D(l)[t] = IF t = u THEN D(log)[t] \cup {N + 1} ELSE D(log)[t]
  <2> SUFFICES ASSUME NEW t \in Edge
               PROVE  D(l)[t] = IF t = u THEN D(log)[t] \cup {N + 1} ELSE D(log)[t]
      OBVIOUS
  <2>1. D(l)[t] = {k \in Active(log, "relation") \cup {N + 1} : EdgeUnder(M, l[k].claim.edge) = t}
      BY <1>3
  <2>2. \A k \in Active(log, "relation") : l[k] = log[k]
      BY <1>4, <1>5
  <2>3. D(log)[t] = {k \in Active(log, "relation") : EdgeUnder(M, log[k].claim.edge) = t}
      OBVIOUS
  <2>4. EdgeUnder(M, l[N + 1].claim.edge) = u
      BY <1>4, <1>8
  <2> HIDE DEF D
  <2>5. CASE t = u
    <3>1. D(l)[t] = D(log)[t] \cup {N + 1}
        BY <2>1, <2>2, <2>3, <2>4, <2>5
    <3> QED
        BY <3>1, <2>5
  <2>6. CASE t # u
    <3>1. D(l)[t] = D(log)[t]
        BY <2>1, <2>2, <2>3, <2>4, <2>6
    <3> QED
        BY <3>1, <2>6
  <2> QED
      BY <2>5, <2>6
<1>11. D(l) = [D(log) EXCEPT ![u] = @ \cup {N + 1}]
  <2>1. D(l) = [t \in Edge |-> D(l)[t]] /\ D(log) = [t \in Edge |-> D(log)[t]]
      OBVIOUS
  <2> HIDE DEF D
  <2> QED
      BY <2>1, <1>8, <1>10
<1>12. IndexOf(l) = [IndexOf(log) EXCEPT !.edges[u] = @ \cup {N + 1}]
  <2> HIDE DEF E, D
  <2> QED
      BY <1>6, <1>7, <1>9, <1>11
<1>13. /\ IndexOf(l).rulings = IndexOf(log).rulings
       /\ IndexOf(l).merges = IndexOf(log).merges
       /\ IndexOf(l).entities = IndexOf(log).entities
       /\ IndexOf(l).edges = D(l) /\ IndexOf(log).edges = D(log)
  <2> HIDE DEF E, D
  <2> QED
      BY <1>6, <1>7, <1>9
<1> HIDE DEF E, D
<1>14. \A t \in Edge : IndexOf(l).edges[t] =
         IF t = u THEN IndexOf(log).edges[t] \cup {N + 1} ELSE IndexOf(log).edges[t]
    BY <1>10, <1>13
<1>15. WithRelation(IndexOf(log), IndexOf(l), u, N + 1)
    BY <1>8, <1>12, <1>13, <1>14 DEF WithRelation
<1> QED
    BY <1>15 DEF l, N

-----------------------------------------------------------------------------
(* Support.                                                                *)
LEMMA SupportIs ==
  ASSUME NEW log, Logged(log), NEW ix, ix.rulings = RulingsOf(log), NEW group \in SUBSET (1..Len(log))
  PROVE  Support(log, ix, group) \in SUBSET (1..Len(log)) /\ group \subseteq Support(log, ix, group)
<1>1. Len(log) \in Nat /\ Len(log) <= MaxLog /\ MaxLog \in Nat
        /\ Kind(log, "ruling") \in SUBSET (1..Len(log))
    BY EntryIs, GraphConstants
<1>2. ASSUME NEW k \in group, Ruled(log, ix.rulings, k, "confirm") PROVE ix.rulings[k] \in 1..Len(log)
  <2>1. k \in 1..MaxLog
      BY <1>1
  <2>2. ix.rulings[k] # 0
      BY <1>2 DEF Ruled
  <2> QED
      BY <2>1, <2>2, <1>1, RulingsAre
<1>3. Support(log, ix, group)
        = group \cup {ix.rulings[k] : k \in {j \in group : Ruled(log, ix.rulings, j, "confirm")}}
    BY DEF Support
<1> QED
    BY <1>2, <1>3

Piece == [evidence : SUBSET Evidence, sure : BOOLEAN]

LEMMA AddIs ==
  ASSUME NEW bs \in SUBSET Piece, NEW a \in Attestation
  PROVE  Add(bs, a) \in SUBSET Piece
<1> DEFINE touched == {b \in bs : b.evidence \cap a.evidence # {}}
           new == [evidence |-> a.evidence \cup UNION {b.evidence : b \in touched},
                   sure     |-> a.sure \/ \E b \in touched : b.sure]
<1>1. Add(bs, a) = (bs \ touched) \cup {new}
    BY Zenon DEF Add
<1>2. \A b \in touched : b.evidence \in SUBSET Evidence
    BY DEF Piece
<1>3. a.evidence \cup UNION {b.evidence : b \in touched} \in SUBSET Evidence
  <2>1. a.evidence \in SUBSET Evidence
      BY AttestationIs
  <2> HIDE DEF touched
  <2> QED
      BY <1>2, <2>1
<1>4. (a.sure \/ \E b \in touched : b.sure) \in BOOLEAN
    BY Zenon
<1>5. new \in Piece
    BY <1>3, <1>4 DEF Piece
<1> HIDE DEF new
<1> QED
    BY <1>1, <1>5

(* What the k-th Attestation adds to the support.                          *)
Joined(log, claims, k, bs) == IF k \in claims THEN Add(bs, log[k]) ELSE bs

LEMMA BlocksAre ==
  ASSUME NEW log, Logged(log), NEW claims
  PROVE  \E g \in [0..Len(log) -> SUBSET Piece] :
           /\ g[0] = {}
           /\ \A k \in 1..Len(log) : g[k] = Joined(log, claims, k, g[k - 1])
           /\ Blocks(log, claims) = g[Len(log)]
<1> DEFINE N == Len(log)
           S == SUBSET Piece
           F(g) == [k \in 0..N |->
                      IF k = 0 THEN {}
                      ELSE IF k \in claims THEN Add(g[k - 1], log[k]) ELSE g[k - 1]]
           h == CHOOSE g : g = F(g)
           M == [p \in (1..N) \X S |-> Joined(log, claims, p[1], p[2])]
<1>1. N \in Nat
    BY EntryIs
<1>2. Blocks(log, claims) = h[N]
    BY Zenon DEF Blocks
<1>3. M \in [(1..N) \X S -> S] /\ \A k \in 1..N, bs \in S : M[<<k, bs>>] = Joined(log, claims, k, bs)
  <2>1. \A k \in 1..N, bs \in S : Joined(log, claims, k, bs) \in S
    <3> SUFFICES ASSUME NEW k \in 1..N, NEW bs \in S PROVE Joined(log, claims, k, bs) \in S
        OBVIOUS
    <3>1. log[k] \in Attestation
        BY EntryIs
    <3>2. Add(bs, log[k]) \in S
        BY <3>1, AddIs
    <3> HIDE DEF S
    <3> QED
        BY <3>2 DEF Joined
  <2> HIDE DEF N, S
  <2> QED
      BY <2>1
<1> HIDE DEF N
<1>4. PICK g \in [0..N -> S] : g[0] = {} /\ \A n \in 1..N : g[n] = M[<<n, g[n - 1]>>]
  <2>1. {} \in S
      OBVIOUS
  <2> HIDE DEF S, M
  <2>2. Runs(N, S, {}, M) # {}
      BY <1>1, <1>3, <2>1, Iterated
  <2> QED
      BY <2>2 DEF Runs
<1>5. \A n \in 1..N : n - 1 \in 0..N /\ n \in 0..N /\ n # 0
    BY <1>1
<1>6. \A n \in 1..N : g[n] = Joined(log, claims, n, g[n - 1])
  <2> HIDE DEF S, M
  <2> QED
      BY <1>3, <1>4, <1>5
<1>7. g = F(g)
  <2>1. \A n \in 0..N : n = 0 \/ n \in 1..N
      BY <1>1
  <2>2. \A n \in 0..N : g[n] = F(g)[n]
      BY <1>4, <1>6, <2>1 DEF Joined
  <2>3. g = [n \in 0..N |-> g[n]]
      BY <1>4
  <2> HIDE DEF S
  <2> QED
      BY <2>2, <2>3
<1>8. h = F(h)
  <2> HIDE DEF F
  <2> QED
      BY <1>7, Zenon
<1> HIDE DEF h
<1>9. /\ h[0] = g[0]
      /\ \A n \in 1..N : h[n - 1] = g[n - 1] => h[n] = g[n]
  <2>1. h[0] = {}
      BY <1>1, <1>8
  <2>2. \A n \in 1..N : h[n] = Joined(log, claims, n, h[n - 1])
      BY <1>5, <1>8 DEF Joined
  <2> HIDE DEF F, S, M
  <2> QED
      BY <2>1, <2>2, <1>4, <1>6
<1> HIDE DEF F, M
<1>10. h[N] = g[N]
    BY <1>1, <1>9, Alike
<1>11. Blocks(log, claims) = g[N]
    BY <1>2, <1>10
<1> QED
    BY <1>4, <1>6, <1>11 DEF N

LEMMA BlocksKept ==
  ASSUME NEW log, Logged(log), NEW a \in Attestation, Len(log) < MaxLog,
         a.claim.kind = "ruling" => a.claim.target \in DOMAIN log,
         NEW claims \in SUBSET (1..Len(log))
  PROVE  Blocks(Append(log, a), claims) = Blocks(log, claims)
<1> DEFINE l == Append(log, a)
           N == Len(log)
<1>1. /\ Logged(l)
      /\ Len(l) = N + 1
      /\ \A k \in 1..N : l[k] = log[k]
    BY Longer
<1>2. N \in Nat /\ claims \in SUBSET (1..N)
    BY EntryIs
<1> HIDE DEF l, N
<1>3. PICK g : /\ g[0] = {}
               /\ \A k \in 1..N : g[k] = Joined(log, claims, k, g[k - 1])
               /\ Blocks(log, claims) = g[N]
    BY BlocksAre DEF N
<1>4. PICK h : /\ h[0] = {}
               /\ \A k \in 1..(N + 1) : h[k] = Joined(l, claims, k, h[k - 1])
               /\ Blocks(l, claims) = h[N + 1]
  <2>1. \E h \in [0..Len(l) -> SUBSET Piece] :
          /\ h[0] = {}
          /\ \A k \in 1..Len(l) : h[k] = Joined(l, claims, k, h[k - 1])
          /\ Blocks(l, claims) = h[Len(l)]
      BY <1>1, BlocksAre
  <2> QED
      BY <1>1, <2>1
<1>5. \A k \in 1..N : h[k - 1] = g[k - 1] => h[k] = g[k]
  <2>1. \A k \in 1..N : k \in 1..(N + 1)
      BY <1>2
  <2> QED
      BY <1>1, <1>3, <1>4, <2>1 DEF Joined
<1>6. h[N] = g[N]
  <2>1. h[0] = g[0]
      BY <1>3, <1>4
  <2> QED
      BY <1>2, <1>5, <2>1, Alike
<1>7. h[N + 1] = h[N]
  <2>1. N + 1 \in 1..(N + 1) /\ (N + 1) - 1 = N /\ N + 1 \notin 1..N
      BY <1>2
  <2>2. N + 1 \notin claims
      BY <2>1, <1>2
  <2>3. h[N + 1] = Joined(l, claims, N + 1, h[(N + 1) - 1])
      BY <2>1, <1>4
  <2> QED
      BY <2>1, <2>2, <2>3 DEF Joined
<1>8. Blocks(l, claims) = Blocks(log, claims)
    BY <1>3, <1>4, <1>6, <1>7
<1> QED
    BY <1>8 DEF l

(* An Attestation that rules on nothing leaves the belief in every Entity  *)
(* as it was whose claims it is not among.                                 *)
LEMMA RankKept ==
  ASSUME NEW log, Logged(log), NEW a \in Attestation, Len(log) < MaxLog, a.claim.kind # "ruling",
         NEW ix, ix.rulings = RulingsOf(log), NEW iy, iy.rulings = ix.rulings,
         NEW group \in SUBSET (1..Len(log))
  PROVE  Rank(Append(log, a), iy, group) = Rank(log, ix, group)
<1> DEFINE l == Append(log, a)
           R == RulingsOf(log)
<1>1. /\ Len(log) \in Nat
      /\ \A k \in group : k \in 1..Len(log) /\ k \in 1..MaxLog
    BY EntryIs, GraphConstants
<1>2. /\ \A k \in 1..Len(log) : l[k] = log[k]
      /\ \A action : \A k \in 1..MaxLog : Ruled(l, R, k, action) = Ruled(log, R, k, action)
    BY Longer, RulingsKept
<1>3. Support(log, ix, group) \in SUBSET (1..Len(log))
    BY SupportIs
<1>4. \A claims \in SUBSET (1..Len(log)) : Blocks(l, claims) = Blocks(log, claims)
    BY BlocksKept
<1> HIDE DEF l, R
<1>5. ix.rulings = R /\ iy.rulings = R
    BY DEF R
<1>6. \A k \in group : Ruled(l, R, k, "confirm") = Ruled(log, R, k, "confirm") /\ l[k] = log[k]
    BY <1>1, <1>2
<1>7. Support(l, iy, group) = Support(log, ix, group)
    BY <1>5, <1>6 DEF Support
<1>8. Strength(l, iy, group) = Strength(log, ix, group)
    BY <1>3, <1>4, <1>7 DEF Strength
<1>9. \A k \in group : Authority(l, iy, k) = Authority(log, ix, k)
    BY <1>5, <1>6 DEF Authority
<1>10. {Authority(l, iy, k) : k \in group} = {Authority(log, ix, k) : k \in group}
    BY <1>9
<1>11. Rank(l, iy, group) = Rank(log, ix, group)
    BY <1>8, <1>10, Zenon DEF Rank
<1> QED
    BY <1>11 DEF l

LEMMA BeliefKept ==
  ASSUME NEW log, Logged(log), NEW a \in Attestation, Len(log) < MaxLog, a.claim.kind # "ruling",
         NEW ix, ix.rulings = RulingsOf(log), NEW iy, iy.rulings = ix.rulings,
         NEW e, ix.entities[e] \in SUBSET (1..Len(log)), iy.entities[e] = ix.entities[e]
  PROVE  Belief(Append(log, a), iy, e) = Belief(log, ix, e)
<1> DEFINE l == Append(log, a)
<1>1. \A k \in 1..Len(log) : l[k] = log[k]
    BY Longer
<1>2. \A group \in SUBSET (1..Len(log)) : Rank(l, iy, group) = Rank(log, ix, group)
    BY RankKept
<1> HIDE DEF l
<1>3. \A t : /\ ClaimsOf(l, iy, e, t) = ClaimsOf(log, ix, e, t)
             /\ ClaimsOf(log, ix, e, t) \in SUBSET (1..Len(log))
    BY <1>1 DEF ClaimsOf
<1>4. \A t : Rank(l, iy, ClaimsOf(l, iy, e, t)) = Rank(log, ix, ClaimsOf(log, ix, e, t))
    BY <1>2, <1>3
<1>5. RanksOf(l, iy, e) = RanksOf(log, ix, e)
  <2>1. {u \in EntityType : ClaimsOf(l, iy, e, u) # {}} = {u \in EntityType : ClaimsOf(log, ix, e, u) # {}}
      BY <1>3
  <2> QED
      BY <2>1, <1>4 DEF RanksOf
<1>6. Belief(l, iy, e) = Belief(log, ix, e)
    BY <1>5, Zenon DEF Belief
<1> QED
    BY <1>6 DEF l

-----------------------------------------------------------------------------
(* Independent pieces of support.                                          *)
Shares(log, i, j) == log[i].evidence \cap log[j].evidence # {}
In(log, k, b) == log[k].evidence \subseteq b.evidence

(* A set that no chain of shared evidence leaves.                          *)
Closed(log, claims, C) == \A i, j \in claims : i \in C /\ Shares(log, i, j) => j \in C

(* The pieces are disjoint and hold the evidence of the claims; each has   *)
(* claims, is as sure as its surest, and lies in one chain.                *)
PieceIs(log, claims, b) ==
  /\ \E k \in claims : In(log, k, b)
  /\ b.sure <=> \E k \in claims : In(log, k, b) /\ log[k].sure
  /\ \A x \in b.evidence : \E k \in claims : In(log, k, b) /\ x \in log[k].evidence
  /\ \A C : Closed(log, claims, C) =>
       \A i, j \in claims : In(log, i, b) /\ In(log, j, b) /\ i \in C => j \in C

Pieces(log, claims, bs) ==
  /\ IsFiniteSet(bs)
  /\ bs \in SUBSET Piece
  /\ \A b, c \in bs : b.evidence \cap c.evidence # {} => b = c
  /\ \A k \in claims : \E b \in bs : In(log, k, b)
  /\ \A b \in bs : PieceIs(log, claims, b)

LEMMA PieceJoins ==
  ASSUME NEW log, Logged(log), NEW claims \in SUBSET (1..Len(log)), NEW bs, Pieces(log, claims, bs),
         NEW k \in 1..Len(log), k \notin claims
  PROVE  /\ Pieces(log, claims \cup {k}, Add(bs, log[k]))
         /\ Cardinality(bs) \in Nat
         /\ Cardinality(Add(bs, log[k])) \in Nat
         /\ Cardinality(Add(bs, log[k])) <= Cardinality(bs) + 1
<1> DEFINE a == log[k]
           touched == {b \in bs : b.evidence \cap a.evidence # {}}
           rest == bs \ touched
           new == [evidence |-> a.evidence \cup UNION {b.evidence : b \in touched},
                   sure     |-> a.sure \/ \E b \in touched : b.sure]
           both == claims \cup {k}
<1>1. Add(bs, log[k]) = rest \cup {new}
    BY Zenon DEF Add
<1>2. /\ IsFiniteSet(bs)
      /\ bs \in SUBSET Piece
      /\ \A b, c \in bs : b.evidence \cap c.evidence # {} => b = c
      /\ \A j \in claims : \E b \in bs : In(log, j, b)
      /\ \A b \in bs : PieceIs(log, claims, b)
    BY DEF Pieces
<1>3. \A j \in 1..Len(log) : log[j] \in Attestation
    BY EntryIs
<1>4. \A j \in 1..Len(log) : log[j].evidence # {}
    BY <1>3, AttestationIs
<1>5. log[k] \in Attestation
    BY <1>3
<1>6. Add(bs, log[k]) \in SUBSET Piece
    BY <1>2, <1>5, AddIs
<1>7. /\ Cardinality(bs) \in Nat
      /\ IsFiniteSet(rest \cup {new})
      /\ Cardinality(rest \cup {new}) \in Nat
      /\ Cardinality(rest \cup {new}) <= Cardinality(bs) + 1
  <2>1. rest \in SUBSET bs
      OBVIOUS
  <2> HIDE DEF rest, new
  <2>2. IsFiniteSet(rest) /\ Cardinality(rest) <= Cardinality(bs)
      BY <2>1, <1>2, FS_Subset
  <2>3. Cardinality(bs) \in Nat /\ Cardinality(rest) \in Nat
      BY <1>2, <2>2, FS_CardinalityType
  <2>4. /\ IsFiniteSet(rest \cup {new})
        /\ Cardinality(rest \cup {new}) = IF new \in rest THEN Cardinality(rest) ELSE Cardinality(rest) + 1
      BY <2>2, FS_AddElement
  <2>5. CASE new \in rest
      BY <2>2, <2>3, <2>4, <2>5
  <2>6. CASE new \notin rest
      BY <2>2, <2>3, <2>4, <2>6
  <2> QED
      BY <2>5, <2>6
<1>8. /\ new.evidence = a.evidence \cup UNION {b.evidence : b \in touched}
      /\ new.sure <=> (a.sure \/ \E b \in touched : b.sure)
    BY Zenon
<1>9. /\ rest \in SUBSET bs /\ touched \in SUBSET bs
      /\ \A b \in bs : b \in touched \/ b \in rest
      /\ \A b \in rest : b \notin touched /\ b.evidence \cap a.evidence = {}
      /\ \A b \in touched : \E x \in b.evidence : x \in a.evidence
      /\ \A j \in both : j \in claims \/ j = k
      /\ k \in both /\ \A j \in claims : j \in both /\ j \in 1..Len(log)
    OBVIOUS
<1> HIDE DEF touched, rest, new, both
<1>10. \A b \in touched : \A x \in b.evidence : x \in new.evidence
    BY <1>8
<1>11. \A x \in a.evidence : x \in new.evidence
    BY <1>8
<1>12. \A b \in rest : b.evidence \cap new.evidence = {}
  <2> SUFFICES ASSUME NEW b \in rest, NEW x \in b.evidence, x \in new.evidence
               PROVE  FALSE
      OBVIOUS
  <2>1. x \notin a.evidence
      BY <1>9
  <2>2. PICK c \in touched : x \in c.evidence
      BY <1>8, <2>1
  <2>3. b = c
      BY <1>2, <1>9, <2>2
  <2> QED
      BY <2>2, <2>3, <1>9
<1>13. \A j \in claims : In(log, j, new) => \E b \in touched : In(log, j, b)
  <2> SUFFICES ASSUME NEW j \in claims, In(log, j, new) PROVE \E b \in touched : In(log, j, b)
      OBVIOUS
  <2>1. PICK b \in bs : In(log, j, b)
      BY <1>2
  <2>2. PICK x : x \in log[j].evidence
      BY <1>4, <1>9
  <2>3. x \in b.evidence /\ x \in new.evidence
      BY <2>1, <2>2 DEF In
  <2>4. b \in touched
      BY <2>3, <1>9, <1>12
  <2> QED
      BY <2>1, <2>4
<1>14. In(log, k, new) /\ \A b \in touched : \A j \in claims : In(log, j, b) => In(log, j, new)
    BY <1>10, <1>11 DEF In
<1>15. \A b \in rest : ~ In(log, k, b)
  <2> SUFFICES ASSUME NEW b \in rest, In(log, k, b) PROVE FALSE
      OBVIOUS
  <2>1. PICK x : x \in log[k].evidence
      BY <1>4
  <2> QED
      BY <2>1, <1>9 DEF In
<1>16. \A b, c \in rest \cup {new} : b.evidence \cap c.evidence # {} => b = c
  <2> SUFFICES ASSUME NEW b \in rest \cup {new}, NEW c \in rest \cup {new}, b.evidence \cap c.evidence # {}
               PROVE  b = c
      OBVIOUS
  <2>1. CASE b \in rest /\ c \in rest
      BY <2>1, <1>2, <1>9
  <2>2. CASE b \in rest /\ c = new
      BY <2>2, <1>12
  <2>3. CASE b = new /\ c \in rest
      BY <2>3, <1>12
  <2>4. CASE b = new /\ c = new
      BY <2>4
  <2> QED
      BY <2>1, <2>2, <2>3, <2>4
<1>17. \A j \in both : \E b \in rest \cup {new} : In(log, j, b)
  <2> SUFFICES ASSUME NEW j \in both PROVE \E b \in rest \cup {new} : In(log, j, b)
      OBVIOUS
  <2>1. CASE j = k
      BY <2>1, <1>14
  <2>2. CASE j \in claims
    <3>1. PICK b \in bs : In(log, j, b)
        BY <2>2, <1>2
    <3>2. CASE b \in touched
        BY <3>1, <3>2, <2>2, <1>14
    <3>3. CASE b \in rest
        BY <3>1, <3>3
    <3> QED
        BY <3>2, <3>3, <1>9
  <2> QED
      BY <2>1, <2>2, <1>9
<1>18. \A C : Closed(log, both, C) => Closed(log, claims, C)
    BY <1>9 DEF Closed
<1>19. ASSUME NEW b \in rest PROVE PieceIs(log, both, b)
  <2>1. /\ \E j \in claims : In(log, j, b)
        /\ b.sure <=> \E j \in claims : In(log, j, b) /\ log[j].sure
        /\ \A x \in b.evidence : \E j \in claims : In(log, j, b) /\ x \in log[j].evidence
        /\ \A C : Closed(log, claims, C) =>
             \A i, j \in claims : In(log, i, b) /\ In(log, j, b) /\ i \in C => j \in C
    <3>1. PieceIs(log, claims, b)
        BY <1>2, <1>9
    <3> QED
        BY <3>1, Zenon DEF PieceIs
  <2>2. \A j \in both : In(log, j, b) => j \in claims
      BY <1>9, <1>15
  <2>3. \E j \in both : In(log, j, b)
      BY <2>1, <1>9
  <2>4. b.sure <=> \E j \in both : In(log, j, b) /\ log[j].sure
      BY <2>1, <2>2, <1>9, Zenon
  <2>5. \A x \in b.evidence : \E j \in both : In(log, j, b) /\ x \in log[j].evidence
      BY <2>1, <1>9
  <2>6. \A C : Closed(log, both, C) =>
          \A i, j \in both : In(log, i, b) /\ In(log, j, b) /\ i \in C => j \in C
      BY <2>1, <2>2, <1>18
  <2> QED
      BY <2>3, <2>4, <2>5, <2>6, Zenon DEF PieceIs
<1>20. PieceIs(log, both, new)
  <2>1. \A b \in touched :
          /\ b.sure <=> \E j \in claims : In(log, j, b) /\ log[j].sure
          /\ \A x \in b.evidence : \E j \in claims : In(log, j, b) /\ x \in log[j].evidence
          /\ \A C : Closed(log, claims, C) =>
               \A i, j \in claims : In(log, i, b) /\ In(log, j, b) /\ i \in C => j \in C
    <3>1. \A b \in touched : PieceIs(log, claims, b)
        BY <1>2, <1>9
    <3> QED
        BY <3>1, Zenon DEF PieceIs
  <2>2. \E j \in both : In(log, j, new)
      BY <1>9, <1>14
  <2>3. new.sure <=> \E j \in both : In(log, j, new) /\ log[j].sure
    <3>1. ASSUME new.sure PROVE \E j \in both : In(log, j, new) /\ log[j].sure
      <4>1. CASE a.sure
          BY <4>1, <1>9, <1>14, Zenon
      <4>2. CASE \E b \in touched : b.sure
        <5>1. PICK b \in touched : b.sure
            BY <4>2, Zenon
        <5>2. PICK j \in claims : In(log, j, b) /\ log[j].sure
            BY <5>1, <2>1, Zenon
        <5> QED
            BY <5>2, <1>9, <1>14, Zenon
      <4> QED
          BY <3>1, <4>1, <4>2, <1>8, Zenon
    <3>2. ASSUME NEW j \in both, In(log, j, new), log[j].sure PROVE new.sure
      <4>1. CASE j = k
          BY <4>1, <3>2, <1>8, Zenon
      <4>2. CASE j \in claims
        <5>1. PICK b \in touched : In(log, j, b)
            BY <4>2, <3>2, <1>13
        <5>2. b.sure
            BY <5>1, <4>2, <3>2, <2>1, Zenon
        <5> QED
            BY <5>2, <1>8, Zenon
      <4> QED
          BY <4>1, <4>2, <1>9, Zenon
    <3> QED
        BY <3>1, <3>2, Zenon
  <2>4. ASSUME NEW x \in new.evidence PROVE \E j \in both : In(log, j, new) /\ x \in log[j].evidence
    <3>1. CASE x \in a.evidence
        BY <3>1, <1>9, <1>14
    <3>2. CASE x \notin a.evidence
      <4>1. PICK b \in touched : x \in b.evidence
          BY <3>2, <1>8
      <4>2. PICK j \in claims : In(log, j, b) /\ x \in log[j].evidence
          BY <4>1, <2>1
      <4> QED
          BY <4>2, <1>9, <1>14
    <3> QED
        BY <3>1, <3>2
  <2>5. ASSUME NEW C, Closed(log, both, C) PROVE \A j \in both : In(log, j, new) => (j \in C <=> k \in C)
    <3> SUFFICES ASSUME NEW j \in both, In(log, j, new), j # k PROVE j \in C <=> k \in C
        OBVIOUS
    <3>1. j \in claims
        BY <1>9
    <3>2. PICK b \in touched : In(log, j, b)
        BY <3>1, <1>13
    <3>3. PICK x \in b.evidence : x \in a.evidence
        BY <1>9
    <3>4. PICK m \in claims : In(log, m, b) /\ x \in log[m].evidence
        BY <3>3, <2>1
    <3>5. j \in C <=> m \in C
        BY <3>1, <3>2, <3>4, <2>1, <2>5, <1>18
    <3>6. Shares(log, m, k) /\ Shares(log, k, m)
        BY <3>3, <3>4 DEF Shares
    <3>7. m \in C <=> k \in C
        BY <3>4, <3>6, <2>5, <1>9 DEF Closed
    <3> QED
        BY <3>5, <3>7
  <2>6. \A C : Closed(log, both, C) =>
          \A i, j \in both : In(log, i, new) /\ In(log, j, new) /\ i \in C => j \in C
      BY <2>5
  <2> QED
      BY <2>2, <2>3, <2>4, <2>6, Zenon DEF PieceIs
<1>21. Pieces(log, both, rest \cup {new})
  <2>1. \A b \in rest \cup {new} : PieceIs(log, both, b)
      BY <1>19, <1>20
  <2>2. rest \cup {new} \in SUBSET Piece
      BY <1>1, <1>6
  <2> QED
      BY <1>7, <1>16, <1>17, <2>1, <2>2 DEF Pieces
<1> QED
    BY <1>1, <1>7, <1>21 DEF both

LEMMA PiecesAre ==
  ASSUME NEW log, Logged(log), NEW claims \in SUBSET (1..Len(log))
  PROVE  /\ Pieces(log, claims, Blocks(log, claims))
         /\ Cardinality(Blocks(log, claims)) \in Nat
         /\ Cardinality(Blocks(log, claims)) <= Len(log)
<1> DEFINE N == Len(log)
           P(k) == claims \cap (1..k)
<1>1. N \in Nat
    BY EntryIs
<1>2. PICK g : /\ g[0] = {}
               /\ \A k \in 1..N : g[k] = Joined(log, claims, k, g[k - 1])
               /\ Blocks(log, claims) = g[N]
    BY BlocksAre
<1> DEFINE Good(k) == /\ Pieces(log, P(k), g[k])
                      /\ Cardinality(g[k]) \in Nat
                      /\ Cardinality(g[k]) <= k
           T == {k \in 0..N : Good(k)}
<1>3. Good(0)
  <2>1. P(0) = {}
      OBVIOUS
  <2>2. IsFiniteSet({}) /\ Cardinality({}) = 0
      BY FS_EmptySet
  <2>3. Pieces(log, {}, {})
      BY <2>2 DEF Pieces
  <2>4. g[0] = {}
      BY <1>2
  <2> HIDE DEF P
  <2>5. Pieces(log, P(0), g[0])
      BY <2>1, <2>3, <2>4, Zenon
  <2>6. Cardinality(g[0]) = 0
      BY <2>2, <2>4, Zenon
  <2> QED
      BY <2>5, <2>6
<1>4. ASSUME NEW k \in 0..(N - 1), Good(k) PROVE Good(k + 1)
  <2>0. k \in Nat /\ k + 1 \in 1..N /\ (k + 1) - 1 = k
      BY <1>1
  <2>1. g[k + 1] = Joined(log, claims, k + 1, g[k])
      BY <2>0, <1>2
  <2>2. P(k) \in SUBSET (1..Len(log)) /\ k + 1 \notin P(k)
      BY <2>0
  <2>3. CASE k + 1 \in claims
    <3>1. P(k + 1) = P(k) \cup {k + 1}
        BY <2>0, <2>3
    <3>2. g[k + 1] = Add(g[k], log[k + 1])
        BY <2>1, <2>3 DEF Joined
    <3>3. Pieces(log, P(k), g[k]) /\ k + 1 \in 1..Len(log)
        BY <1>4, <2>0
    <3> HIDE DEF P
    <3>4. /\ Pieces(log, P(k) \cup {k + 1}, Add(g[k], log[k + 1]))
          /\ Cardinality(g[k]) \in Nat
          /\ Cardinality(Add(g[k], log[k + 1])) \in Nat
          /\ Cardinality(Add(g[k], log[k + 1])) <= Cardinality(g[k]) + 1
        BY <2>2, <3>3, PieceJoins
    <3>5. Cardinality(g[k + 1]) <= k + 1
        BY <3>2, <3>4, <1>4, <2>0
    <3> QED
        BY <3>1, <3>2, <3>4, <3>5
  <2>4. CASE k + 1 \notin claims
    <3>1. P(k + 1) = P(k)
        BY <2>0, <2>4
    <3>2. g[k + 1] = g[k]
        BY <2>1, <2>4 DEF Joined
    <3> HIDE DEF P
    <3>3. Cardinality(g[k + 1]) <= k + 1
        BY <3>2, <1>4, <2>0
    <3> QED
        BY <3>1, <3>2, <3>3, <1>4
  <2> QED
      BY <2>3, <2>4
<1>5. Good(N)
  <2> HIDE DEF Good
  <2>1. 0 \in T
      BY <1>1, <1>3
  <2>2. ASSUME NEW k \in 0..(N - 1), k \in T PROVE k + 1 \in T
    <3>1. k + 1 \in 0..N
        BY <1>1
    <3> QED
        BY <2>2, <3>1, <1>4
  <2>3. \A k \in 0..N : k \in T
    <3> HIDE DEF T
    <3> QED
        BY <1>1, <2>1, <2>2, CountUp
  <2>4. N \in 0..N
      BY <1>1
  <2> QED
      BY <2>3, <2>4
<1>6. P(N) = claims
    OBVIOUS
<1> HIDE DEF P
<1> QED
    BY <1>2, <1>5, <1>6

-----------------------------------------------------------------------------
(* The chains.                                                             *)
Nearer(log, claims, C) == {j \in claims : \E i \in C : log[i].evidence \cap log[j].evidence # {}}

Chain(log, claims, k, g) ==
  /\ g \in [0..Cardinality(claims) -> SUBSET claims]
  /\ g[0] = {k}
  /\ \A n \in 1..Cardinality(claims) : g[n] = Nearer(log, claims, g[n - 1])
  /\ Connected(log, claims, k) = g[Cardinality(claims)]

LEMMA ChainIs ==
  ASSUME NEW log, NEW claims, IsFiniteSet(claims), NEW k \in claims
  PROVE  \E g : Chain(log, claims, k, g)
<1> DEFINE N == Cardinality(claims)
           S == SUBSET claims
           F(g) == [n \in 0..N |->
                      IF n = 0 THEN {k}
                      ELSE {j \in claims : \E i \in g[n - 1] : log[i].evidence \cap log[j].evidence # {}}]
           h == CHOOSE g : g = F(g)
           M == [p \in (1..N) \X S |-> Nearer(log, claims, p[2])]
<1>1. N \in Nat
    BY FS_CardinalityType
<1>2. Connected(log, claims, k) = h[N]
    BY Zenon DEF Connected
<1>3. M \in [(1..N) \X S -> S] /\ \A n \in 1..N, C \in S : M[<<n, C>>] = Nearer(log, claims, C)
  <2>1. \A C : Nearer(log, claims, C) \in S
      BY DEF Nearer
  <2> HIDE DEF N, S
  <2> QED
      BY <2>1
<1> HIDE DEF N
<1>4. PICK g \in [0..N -> S] : g[0] = {k} /\ \A n \in 1..N : g[n] = M[<<n, g[n - 1]>>]
  <2>1. {k} \in S
      OBVIOUS
  <2> HIDE DEF S, M
  <2>2. Runs(N, S, {k}, M) # {}
      BY <1>1, <1>3, <2>1, Iterated
  <2> QED
      BY <2>2 DEF Runs
<1>5. \A n \in 1..N : n - 1 \in 0..N /\ n \in 0..N /\ n # 0
    BY <1>1
<1>6. \A n \in 1..N : g[n] = Nearer(log, claims, g[n - 1])
  <2> HIDE DEF S, M
  <2> QED
      BY <1>3, <1>4, <1>5
<1>7. g = F(g)
  <2>1. \A n \in 0..N : n = 0 \/ n \in 1..N
      BY <1>1
  <2>2. \A n \in 0..N : g[n] = F(g)[n]
      BY <1>4, <1>6, <2>1 DEF Nearer
  <2>3. g = [n \in 0..N |-> g[n]]
      BY <1>4
  <2> HIDE DEF S
  <2> QED
      BY <2>2, <2>3
<1>8. h = F(h)
  <2> HIDE DEF F
  <2> QED
      BY <1>7, Zenon
<1> HIDE DEF h
<1>9. /\ h[0] = g[0]
      /\ \A n \in 1..N : h[n - 1] = g[n - 1] => h[n] = g[n]
  <2>1. h[0] = {k}
      BY <1>1, <1>8
  <2>2. \A n \in 1..N : h[n] = Nearer(log, claims, h[n - 1])
      BY <1>5, <1>8 DEF Nearer
  <2> HIDE DEF F, S, M
  <2> QED
      BY <2>1, <2>2, <1>4, <1>6
<1> HIDE DEF F, M
<1>10. h[N] = g[N]
    BY <1>1, <1>9, Alike
<1>11. Connected(log, claims, k) = g[N]
    BY <1>2, <1>10
<1> QED
    BY <1>4, <1>6, <1>11 DEF Chain, N

(* As many steps as there are claims are enough for a chain to close, and  *)
(* it does not leave a set that is closed.                                 *)
LEMMA ConnectedIs ==
  ASSUME NEW log, Logged(log), NEW claims \in SUBSET (1..Len(log)), NEW k \in claims
  PROVE  /\ Connected(log, claims, k) \in SUBSET claims
         /\ k \in Connected(log, claims, k)
         /\ Closed(log, claims, Connected(log, claims, k))
         /\ \A C : k \in C /\ Closed(log, claims, C) => Connected(log, claims, k) \subseteq C
<1> DEFINE N == Cardinality(claims)
<1>1. IsFiniteSet(claims) /\ N \in Nat
  <2>1. IsFiniteSet(1..Len(log))
      BY EntryIs, FS_Interval
  <2>2. IsFiniteSet(claims)
      BY <2>1, FS_Subset
  <2> QED
      BY <2>2, FS_CardinalityType
<1>2. PICK g \in [0..N -> SUBSET claims] :
        /\ g[0] = {k}
        /\ \A n \in 1..N : g[n] = Nearer(log, claims, g[n - 1])
        /\ Connected(log, claims, k) = g[N]
  <2>1. \E g : Chain(log, claims, k, g)
      BY <1>1, ChainIs
  <2> QED
      BY <2>1 DEF Chain
<1>3. \A j \in claims : Shares(log, j, j)
  <2>1. \A j \in claims : log[j].evidence # {}
      BY EntryIs, AttestationIs
  <2> QED
      BY <2>1 DEF Shares
<1>4. \A C \in SUBSET claims : C \subseteq Nearer(log, claims, C)
    BY <1>3 DEF Nearer, Shares
<1>5. \A C \in SUBSET claims : Closed(log, claims, C) => Nearer(log, claims, C) \subseteq C
    BY DEF Nearer, Closed, Shares
<1>6. \A C \in SUBSET claims : Nearer(log, claims, C) \subseteq C => Closed(log, claims, C)
    BY DEF Nearer, Closed, Shares
<1> HIDE DEF N
<1> DEFINE Good(n) == /\ k \in g[n]
                      /\ Closed(log, claims, g[n]) \/ Cardinality(g[n]) >= n + 1
           T == {n \in 0..N : Good(n)}
<1>7. Good(0)
  <2>1. Cardinality({k}) = 1
      BY FS_Singleton
  <2>2. k \in g[0] /\ Cardinality(g[0]) = 1
      BY <2>1, <1>2
  <2> QED
      BY <2>2
<1>8. ASSUME NEW n \in 0..(N - 1), Good(n) PROVE Good(n + 1)
  <2>0. n \in Nat /\ n + 1 \in 1..N /\ n + 1 \in 0..N /\ (n + 1) - 1 = n /\ n \in 0..N
      BY <1>1
  <2>1. g[n + 1] = Nearer(log, claims, g[n]) /\ g[n] \in SUBSET claims /\ g[n + 1] \in SUBSET claims
      BY <2>0, <1>2
  <2>2. g[n] \subseteq g[n + 1]
      BY <2>1, <1>4
  <2>3. k \in g[n + 1]
      BY <2>2, <1>8
  <2>4. CASE Closed(log, claims, g[n])
    <3>1. g[n + 1] = g[n]
        BY <2>1, <2>2, <2>4, <1>5
    <3>2. Closed(log, claims, g[n + 1])
        BY <3>1, <2>4
    <3> QED
        BY <2>3, <3>2
  <2>5. CASE ~ Closed(log, claims, g[n])
    <3>1. g[n + 1] # g[n]
        BY <2>1, <2>5, <1>6
    <3>2. IsFiniteSet(g[n + 1]) /\ IsFiniteSet(g[n])
        BY <2>1, <1>1, FS_Subset
    <3>3. /\ Cardinality(g[n]) <= Cardinality(g[n + 1])
          /\ Cardinality(g[n + 1]) # Cardinality(g[n])
        BY <2>2, <3>1, <3>2, FS_Subset
    <3>4. Cardinality(g[n]) \in Nat /\ Cardinality(g[n + 1]) \in Nat
        BY <3>2, FS_CardinalityType
    <3>5. Cardinality(g[n]) >= n + 1
        BY <2>5, <1>8
    <3>6. Cardinality(g[n + 1]) >= (n + 1) + 1
        BY <2>0, <3>3, <3>4, <3>5
    <3> QED
        BY <2>3, <3>6
  <2> QED
      BY <2>4, <2>5
<1>9. Good(N)
  <2> HIDE DEF Good
  <2>1. 0 \in T
      BY <1>1, <1>7
  <2>2. ASSUME NEW n \in 0..(N - 1), n \in T PROVE n + 1 \in T
    <3>1. n + 1 \in 0..N
        BY <1>1
    <3> QED
        BY <2>2, <3>1, <1>8
  <2>3. \A n \in 0..N : n \in T
    <3> HIDE DEF T
    <3> QED
        BY <1>1, <2>1, <2>2, CountUp
  <2>4. N \in 0..N
      BY <1>1
  <2> QED
      BY <2>3, <2>4
<1>10. g[N] \in SUBSET claims
    BY <1>1, <1>2
<1>11. Closed(log, claims, g[N])
  <2>1. IsFiniteSet(g[N]) /\ Cardinality(g[N]) <= N
      BY <1>1, <1>10, FS_Subset DEF N
  <2>2. Cardinality(g[N]) \in Nat
      BY <2>1, FS_CardinalityType
  <2>3. ~ (Cardinality(g[N]) >= N + 1)
      BY <1>1, <2>1, <2>2
  <2> QED
      BY <2>3, <1>9
<1>12. ASSUME NEW C, k \in C, Closed(log, claims, C) PROVE g[N] \subseteq C
  <2> DEFINE U == {n \in 0..N : g[n] \subseteq C}
  <2>1. 0 \in U
      BY <1>1, <1>2, <1>12
  <2>2. ASSUME NEW n \in 0..(N - 1), n \in U PROVE n + 1 \in U
    <3>1. n + 1 \in 1..N /\ n + 1 \in 0..N /\ (n + 1) - 1 = n /\ n \in 0..N
        BY <1>1
    <3>2. g[n + 1] = Nearer(log, claims, g[n]) /\ g[n] \subseteq C /\ g[n] \in SUBSET claims
        BY <3>1, <1>2, <2>2
    <3>3. g[n + 1] \subseteq C
        BY <3>2, <1>12 DEF Nearer, Closed, Shares
    <3> QED
        BY <3>1, <3>3
  <2>3. \A n \in 0..N : n \in U
    <3> HIDE DEF U
    <3> QED
        BY <1>1, <2>1, <2>2, CountUp
  <2>4. N \in 0..N
      BY <1>1
  <2> QED
      BY <2>3, <2>4
<1> QED
    BY <1>2, <1>9, <1>10, <1>11, <1>12

(* There are as many pieces as there are chains, and one is sure if one of *)
(* the claims is.                                                          *)
LEMMA PiecesCount ==
  ASSUME NEW log, Logged(log), NEW claims \in SUBSET (1..Len(log))
  PROVE  /\ Cardinality(Blocks(log, claims)) = Cardinality({Connected(log, claims, k) : k \in claims})
         /\ (\E b \in Blocks(log, claims) : b.sure) <=> \E k \in claims : log[k].sure
<1> DEFINE bs == Blocks(log, claims)
           chains == {Connected(log, claims, k) : k \in claims}
           Members(b) == {k \in claims : In(log, k, b)}
           f == [b \in bs |-> Members(b)]
<1>1. /\ IsFiniteSet(bs)
      /\ \A b, c \in bs : b.evidence \cap c.evidence # {} => b = c
      /\ \A k \in claims : \E b \in bs : In(log, k, b)
      /\ \A b \in bs : /\ \E k \in claims : In(log, k, b)
                       /\ b.sure <=> \E k \in claims : In(log, k, b) /\ log[k].sure
                       /\ \A C : Closed(log, claims, C) =>
                            \A i, j \in claims : In(log, i, b) /\ In(log, j, b) /\ i \in C => j \in C
  <2>1. Pieces(log, claims, bs)
      BY PiecesAre
  <2> HIDE DEF bs
  <2>2. /\ IsFiniteSet(bs)
        /\ \A b, c \in bs : b.evidence \cap c.evidence # {} => b = c
        /\ \A k \in claims : \E b \in bs : In(log, k, b)
        /\ \A b \in bs : PieceIs(log, claims, b)
      BY <2>1 DEF Pieces
  <2> QED
      BY <2>2, Zenon DEF PieceIs
<1>2. \A k \in claims : log[k].evidence # {}
    BY EntryIs, AttestationIs
<1> HIDE DEF bs
<1>3. ASSUME NEW k \in claims, NEW b \in bs, NEW c \in bs, In(log, k, b), In(log, k, c) PROVE b = c
  <2>1. PICK x : x \in log[k].evidence
      BY <1>2
  <2>2. x \in b.evidence \cap c.evidence
      BY <2>1, <1>3 DEF In
  <2>3. b.evidence \cap c.evidence # {}
      BY <2>2
  <2> QED
      BY <2>3, <1>1
<1>4. ASSUME NEW b \in bs, NEW k \in claims, In(log, k, b) PROVE Connected(log, claims, k) = Members(b)
  <2>1. /\ Connected(log, claims, k) \in SUBSET claims
        /\ k \in Connected(log, claims, k)
        /\ Closed(log, claims, Connected(log, claims, k))
        /\ \A C : k \in C /\ Closed(log, claims, C) => Connected(log, claims, k) \subseteq C
      BY ConnectedIs
  <2>2. Members(b) \subseteq Connected(log, claims, k)
      BY <1>1, <1>4, <2>1
  <2>3. Closed(log, claims, Members(b))
    <3> SUFFICES ASSUME NEW i \in claims, NEW j \in claims, In(log, i, b), Shares(log, i, j)
                 PROVE  In(log, j, b)
        BY DEF Closed
    <3>1. PICK c \in bs : In(log, j, c)
        BY <1>1
    <3>2. b.evidence \cap c.evidence # {}
        BY <3>1 DEF In, Shares
    <3> QED
        BY <3>1, <3>2, <1>1
  <2>4. Connected(log, claims, k) \subseteq Members(b)
    <3>1. k \in Members(b)
        BY <1>4
    <3> HIDE DEF Members
    <3> QED
        BY <3>1, <2>1, <2>3
  <2> QED
      BY <2>2, <2>4
<1>5. \A b \in bs : Members(b) \in chains
  <2> SUFFICES ASSUME NEW b \in bs PROVE Members(b) \in chains
      OBVIOUS
  <2>1. PICK k \in claims : In(log, k, b)
      BY <1>1
  <2>2. Connected(log, claims, k) = Members(b)
      BY <2>1, <1>4
  <2> HIDE DEF Members
  <2> QED
      BY <2>2
<1>6. \A C \in chains : \E b \in bs : Members(b) = C
  <2> SUFFICES ASSUME NEW k \in claims PROVE \E b \in bs : Members(b) = Connected(log, claims, k)
      OBVIOUS
  <2>1. PICK b \in bs : In(log, k, b)
      BY <1>1
  <2>2. Connected(log, claims, k) = Members(b)
      BY <2>1, <1>4
  <2> HIDE DEF Members
  <2> QED
      BY <2>2
<1>7. \A b, c \in bs : Members(b) = Members(c) => b = c
  <2> SUFFICES ASSUME NEW b \in bs, NEW c \in bs, Members(b) = Members(c) PROVE b = c
      OBVIOUS
  <2>1. PICK k \in claims : In(log, k, b)
      BY <1>1
  <2>2. k \in Members(c)
      BY <2>1
  <2> QED
      BY <2>1, <2>2, <1>3
<1> HIDE DEF chains, Members
<1>8. f \in Bijection(bs, chains)
  <2>1. f \in [bs -> chains] /\ \A b \in bs : f[b] = Members(b)
      BY <1>5
  <2> HIDE DEF f
  <2>2. \A b, c \in bs : f[b] = f[c] => b = c
      BY <2>1, <1>7
  <2>3. \A C \in chains : \E b \in bs : f[b] = C
      BY <2>1, <1>6
  <2> QED
      BY <2>1, <2>2, <2>3 DEF Bijection, Injection, Surjection, IsInjective
<1>9. Cardinality(chains) = Cardinality(bs)
    BY <1>1, <1>8, FS_Bijection DEF ExistsBijection
<1>10. (\E b \in bs : b.sure) <=> \E k \in claims : log[k].sure
    BY <1>1, Zenon
<1> QED
    BY <1>9, <1>10 DEF bs, chains

-----------------------------------------------------------------------------
(* What is believed.                                                       *)
LEMMA RankIs ==
  ASSUME NEW log, Logged(log), NEW ix, ix.rulings = RulingsOf(log),
         NEW group \in SUBSET (1..Len(log)), group # {}
  PROVE  /\ Rank(log, ix, group).authority \in {0, 2, 3}
         /\ \E k \in group : Authority(log, ix, k) = Rank(log, ix, group).authority
         /\ \A k \in group : Authority(log, ix, k) <= Rank(log, ix, group).authority
         /\ Rank(log, ix, group).strength = Strength(log, ix, group)
         /\ Strength(log, ix, group) \in 1..Certain
         /\ Rank(log, ix, group).last \in group
<1> DEFINE A == {Authority(log, ix, k) : k \in group}
           claims == Support(log, ix, group)
           bs == Blocks(log, claims)
<1>1. /\ Rank(log, ix, group).authority = Max(A)
      /\ Rank(log, ix, group).strength = Strength(log, ix, group)
      /\ Rank(log, ix, group).last = Max(group)
    BY DEF Rank
<1>2. Len(log) \in Nat /\ Len(log) <= MaxLog /\ MaxLog \in Nat
    BY EntryIs, GraphConstants
<1>3. A \in SUBSET {0, 2, 3} /\ A # {}
    BY DEF Authority
<1>4. Max(A) \in A /\ \A s \in A : s <= Max(A)
  <2> HIDE DEF A
  <2>1. A \in SUBSET Nat /\ \A s \in A : s <= 3
      BY <1>3
  <2> QED
      BY <1>3, <2>1, MaxIs
<1>5. PICK m : m = Max(A)
    OBVIOUS
<1>6. m \in {0, 2, 3} /\ (\E k \in group : Authority(log, ix, k) = m)
        /\ \A k \in group : Authority(log, ix, k) <= m
  <2>1. m \in A /\ \A s \in A : s <= m
      BY <1>4, <1>5
  <2> QED
      BY <2>1, <1>3
<1>7. Max(group) \in group
  <2>1. group \in SUBSET Nat /\ \A s \in group : s <= Len(log)
      BY <1>2
  <2> QED
      BY <1>2, <2>1, MaxIs
<1>8. claims \in SUBSET (1..Len(log)) /\ claims # {}
    BY SupportIs
<1> HIDE DEF claims
<1>9. /\ Pieces(log, claims, bs)
      /\ Cardinality(bs) \in Nat
      /\ Cardinality(bs) <= Len(log)
    BY <1>8, PiecesAre
<1> HIDE DEF bs
<1>10. bs # {} /\ IsFiniteSet(bs)
    BY <1>8, <1>9 DEF Pieces
<1>11. Cardinality(bs) # 0
    BY <1>10, FS_EmptySet
<1>12. Cardinality(bs) \in 1..Certain /\ Certain \in 1..Certain
    BY <1>2, <1>9, <1>11 DEF Certain
<1>13. Strength(log, ix, group) = IF \E b \in bs : b.sure THEN Certain ELSE Cardinality(bs)
    BY DEF Strength, bs, claims
<1>14. Strength(log, ix, group) \in 1..Certain
  <2>1. CASE \E b \in bs : b.sure
      BY <2>1, <1>12, <1>13
  <2>2. CASE ~ \E b \in bs : b.sure
      BY <2>2, <1>12, <1>13
  <2> QED
      BY <2>1, <2>2
<1> HIDE DEF A
<1> QED
    BY <1>1, <1>5, <1>6, <1>7, <1>14

(* One candidate is better than every other.                               *)
LEMMA ChosenIs ==
  ASSUME NEW r, NEW D, D = DOMAIN r, D # {},
         \A t \in D : r[t].authority \in {0, 2, 3} /\ r[t].strength \in 1..Certain /\ r[t].last \in 1..MaxLog,
         \A t, u \in D : r[t].last = r[u].last => t = u
  PROVE  /\ Chosen(r) \in D
         /\ \A t \in D : r[t].authority <= r[Chosen(r)].authority
<1>0. MaxLog \in Nat /\ Certain \in Nat
    BY GraphConstants DEF Certain
<1> DEFINE A == {r[t].authority : t \in D}
           DA == {t \in D : r[t].authority = Max(A)}
           S == {r[t].strength : t \in DA}
           DS == {t \in DA : r[t].strength = Max(S)}
           L == {r[t].last : t \in DS}
<1>1. Max(A) \in A /\ \A s \in A : s <= Max(A)
  <2>1. A \in SUBSET Nat /\ A # {} /\ \A s \in A : s <= 3
      OBVIOUS
  <2> HIDE DEF A
  <2> QED
      BY <2>1, MaxIs
<1>2. PICK ma : ma = Max(A)
    OBVIOUS
<1>3. DA # {} /\ DA \in SUBSET D /\ \A t \in D : r[t].authority <= ma
    BY <1>1, <1>2
<1>4. Max(S) \in S /\ \A s \in S : s <= Max(S)
  <2>1. S \in SUBSET Nat /\ S # {} /\ \A s \in S : s <= Certain
    <3> HIDE DEF DA
    <3> QED
        BY <1>0, <1>3
  <2> HIDE DEF S
  <2> QED
      BY <1>0, <2>1, MaxIs
<1>5. PICK ms : ms = Max(S)
    OBVIOUS
<1>6. DS # {} /\ DS \in SUBSET DA /\ \A t \in DA : r[t].strength <= ms
  <2> HIDE DEF DA
  <2> QED
      BY <1>4, <1>5
<1>7. Max(L) \in L /\ \A s \in L : s <= Max(L)
  <2>1. L \in SUBSET Nat /\ L # {} /\ \A s \in L : s <= MaxLog
    <3> HIDE DEF DA, DS
    <3> QED
        BY <1>0, <1>3, <1>6
  <2> HIDE DEF L
  <2> QED
      BY <1>0, <2>1, MaxIs
<1>8. PICK t \in DS : r[t].last = Max(L)
    BY <1>7
<1>9. \A u \in DS : r[u].last <= r[t].last
    BY <1>7, <1>8
<1>10. t \in D /\ r[t].authority = ma /\ r[t].strength = ms
    BY <1>2, <1>3, <1>5, <1>6
<1>11. \A u \in DA : u \in D /\ r[u].authority = ma
    BY <1>2
<1>12. \A u \in DS : u \in DA /\ r[u].strength = ms
    BY <1>5
<1>13. \A u \in D : (r[u].authority = ma => u \in DA) /\ (u \in DA /\ r[u].strength = ms => u \in DS)
    BY <1>2, <1>5
<1> HIDE DEF A, DA, S, DS, L
<1>14. ASSUME NEW u \in D \ {t} PROVE Better(r[t], r[u])
  <2>0. /\ r[u].authority \in Nat /\ r[t].authority \in Nat
        /\ r[u].strength \in Nat /\ r[t].strength \in Nat
        /\ r[u].last \in Nat /\ r[t].last \in Nat /\ r[u].last # r[t].last
      BY <1>0, <1>10
  <2>1. CASE r[u].authority # ma
    <3>1. r[t].authority > r[u].authority
        BY <2>0, <2>1, <1>3, <1>10
    <3> QED
        BY <3>1 DEF Better
  <2>2. CASE r[u].authority = ma /\ r[u].strength # ms
    <3>1. u \in DA
        BY <2>2, <1>13
    <3>2. r[t].authority = r[u].authority /\ r[t].strength > r[u].strength
        BY <2>0, <2>2, <3>1, <1>6, <1>10
    <3> QED
        BY <3>2 DEF Better
  <2>3. CASE r[u].authority = ma /\ r[u].strength = ms
    <3>1. u \in DS
        BY <2>3, <1>13
    <3>2. r[t].authority = r[u].authority /\ r[t].strength = r[u].strength /\ r[t].last > r[u].last
        BY <2>0, <2>3, <3>1, <1>9, <1>10
    <3> QED
        BY <3>2 DEF Better
  <2> QED
      BY <2>1, <2>2, <2>3
<1>15. PICK c : c = Chosen(r)
    OBVIOUS
<1>16. c \in D /\ \A u \in D \ {c} : Better(r[c], r[u])
  <2>1. Chosen(r) = CHOOSE x \in D : \A u \in D \ {x} : Better(r[x], r[u])
      BY Zenon DEF Chosen
  <2> QED
      BY <2>1, <1>10, <1>14, <1>15, Zenon
<1>17. ASSUME NEW u \in D PROVE r[u].authority <= r[c].authority
  <2>1. r[u].authority \in Nat /\ r[c].authority \in Nat
      BY <1>16
  <2>2. CASE u = c
      BY <2>1, <2>2
  <2>3. CASE u # c
    <3>1. Better(r[c], r[u])
        BY <2>3, <1>16
    <3> QED
        BY <2>1, <3>1 DEF Better
  <2> QED
      BY <2>2, <2>3
<1> QED
    BY <1>15, <1>16, <1>17

(* The belief in an Entity of a log that claims something of it.           *)
LEMMA BeliefIs ==
  ASSUME NEW log, Logged(log), NEW ix, ix = IndexOf(log), NEW e \in Entity, ix.entities[e] # {}
  PROVE  /\ Belief(log, ix, e).type \in EntityType
         /\ ClaimsOf(log, ix, e, Belief(log, ix, e).type) # {}
         /\ Belief(log, ix, e).strength
              = Strength(log, ix, ClaimsOf(log, ix, e, Belief(log, ix, e).type))
         /\ Belief(log, ix, e) \in [type : EntityType, strength : 1..Certain]
         /\ \A t \in EntityType : ClaimsOf(log, ix, e, t) # {} =>
              Rank(log, ix, ClaimsOf(log, ix, e, t)).authority
                <= Rank(log, ix, ClaimsOf(log, ix, e, Belief(log, ix, e).type)).authority
<1> DEFINE G(t) == ClaimsOf(log, ix, e, t)
           D == {u \in EntityType : G(u) # {}}
           r == RanksOf(log, ix, e)
<1>1. \A k \in ix.entities[e] : k \in 1..Len(log) /\ log[k].claim.type \in EntityType
    BY ClaimedBy
<1>2. Len(log) \in Nat /\ Len(log) <= MaxLog /\ MaxLog \in Nat /\ ix.rulings = RulingsOf(log)
    BY EntryIs, GraphConstants, IndexIs
<1>3. \A t : G(t) \in SUBSET (1..Len(log)) /\ \A k \in G(t) : log[k].claim.type = t
    BY <1>1 DEF ClaimsOf
<1>4. r = [t \in D |-> Rank(log, ix, G(t))]
    BY DEF RanksOf
<1>5. D # {}
  <2>1. PICK k \in ix.entities[e] : TRUE
      OBVIOUS
  <2>2. k \in G(log[k].claim.type) /\ log[k].claim.type \in EntityType
      BY <1>1 DEF ClaimsOf
  <2> QED
      BY <2>2
<1> HIDE DEF G, r
<1>6. D = DOMAIN r /\ \A t \in D : r[t] = Rank(log, ix, G(t))
    BY <1>4
<1>7. \A t \in D : /\ r[t].authority \in {0, 2, 3}
                   /\ r[t].strength = Strength(log, ix, G(t))
                   /\ r[t].strength \in 1..Certain
                   /\ r[t].last \in G(t)
  <2> SUFFICES ASSUME NEW t \in D
               PROVE  /\ r[t].authority \in {0, 2, 3}
                      /\ r[t].strength = Strength(log, ix, G(t))
                      /\ r[t].strength \in 1..Certain
                      /\ r[t].last \in G(t)
      OBVIOUS
  <2>1. G(t) \in SUBSET (1..Len(log)) /\ G(t) # {} /\ r[t] = Rank(log, ix, G(t))
      BY <1>3, <1>6
  <2> QED
      BY <2>1, <1>2, RankIs
<1>8. \A t, u \in D : r[t].last = r[u].last => t = u
    BY <1>3, <1>7
<1>9. \A t \in D : r[t].last \in 1..MaxLog
    BY <1>2, <1>3, <1>7
<1>10. PICK c : c = Chosen(r)
    OBVIOUS
<1>11. c \in D /\ \A t \in D : r[t].authority <= r[c].authority
  <2> HIDE DEF D
  <2> QED
      BY <1>5, <1>6, <1>7, <1>8, <1>9, <1>10, ChosenIs
<1>12. Belief(log, ix, e) = [type |-> c, strength |-> r[c].strength]
    BY <1>10 DEF Belief, r
<1>13. PICK b : b = Belief(log, ix, e)
    OBVIOUS
<1>14. b.type = c /\ b.strength = r[c].strength /\ b \in [type : EntityType, strength : 1..Certain]
    BY <1>7, <1>11, <1>12, <1>13
<1>15. c \in EntityType /\ G(c) # {} /\ b.strength = Strength(log, ix, G(c))
    BY <1>7, <1>11, <1>14
<1>16. \A t \in EntityType : G(t) # {} => Rank(log, ix, G(t)).authority <= Rank(log, ix, G(c)).authority
    BY <1>6, <1>11
<1> QED
    BY <1>13, <1>14, <1>15, <1>16 DEF G

-----------------------------------------------------------------------------
(* The rows.                                                               *)
LEMMA BelievedIs ==
  ASSUME NEW log, Logged(log), NEW ix, ix = IndexOf(log)
  PROVE  /\ BeliefsOf(log, ix) \in [Entity -> [type : EntityType, strength : 1..Certain] \cup {NoBelief}]
         /\ Believed(BeliefsOf(log, ix)) = {e \in Entity : ix.entities[e] # {}}
<1>1. \A e \in Entity : BeliefsOf(log, ix)[e] = Belief(log, ix, e)
    BY DEF BeliefsOf
<1>2. ASSUME NEW e \in Entity, ix.entities[e] = {}
      PROVE  BeliefsOf(log, ix)[e] = NoBelief
  <2>1. Belief(log, ix, e) = NoBelief
      BY <1>2, Zenon DEF Belief
  <2> QED
      BY <2>1, <1>1
<1>3. ASSUME NEW e \in Entity, ix.entities[e] # {}
      PROVE  /\ BeliefsOf(log, ix)[e] \in [type : EntityType, strength : 1..Certain]
             /\ BeliefsOf(log, ix)[e] # NoBelief
  <2>1. PICK b : b = Belief(log, ix, e)
      OBVIOUS
  <2>2. b \in [type : EntityType, strength : 1..Certain] /\ b.type \in EntityType
      BY <1>3, <2>1, BeliefIs
  <2>3. NoBelief.type = NoType
      BY DEF NoBelief
  <2>4. b # NoBelief
      BY <2>2, <2>3, GraphConstants
  <2> QED
      BY <1>1, <2>1, <2>2, <2>4
<1>4. BeliefsOf(log, ix) \in [Entity -> [type : EntityType, strength : 1..Certain] \cup {NoBelief}]
  <2>1. \A e \in Entity : BeliefsOf(log, ix)[e] \in [type : EntityType, strength : 1..Certain] \cup {NoBelief}
      BY <1>2, <1>3
  <2>2. BeliefsOf(log, ix) = [e \in Entity |-> BeliefsOf(log, ix)[e]]
      BY DEF BeliefsOf
  <2> QED
      BY <2>1, <2>2
<1>5. Believed(BeliefsOf(log, ix)) = {e \in Entity : ix.entities[e] # {}}
    BY <1>2, <1>3 DEF Believed
<1> QED
    BY <1>4, <1>5

LEMMA NamesAre ==
  ASSUME NEW log, NEW ix, NEW n
  PROVE  n \in NamesOf(log, ix) <=> \E e \in Entity : \E k \in ix.entities[e] : n = <<log[k].claim.id, e>>
    BY DEF NamesOf

EntityRows(log, ix, l, iy, g) ==
  /\ BeliefsOf(l, iy) = [BeliefsOf(log, ix) EXCEPT ![g] = Belief(l, iy, g)]
  /\ NamesOf(l, iy) = {n \in NamesOf(log, ix) : n[2] # g /\ n[1] \notin
                         {l[k].claim.id : k \in iy.entities[g]}}
                        \cup {<<l[k].claim.id, g>> : k \in iy.entities[g]}
  /\ EdgesOf(log, ix) \subseteq EdgesOf(l, iy)

LEMMA RowsWithEntity ==
  ASSUME NEW log, Logged(log), NEW a \in Attestation, Len(log) < MaxLog, a.claim.kind = "entity",
         NEW ix, ix = IndexOf(log), NEW l, l = Append(log, a), NEW iy, iy = IndexOf(l),
         NEW g, g = Canonical(ix.merges, a.claim.id)
  PROVE  EntityRows(log, ix, l, iy, g)
<1>1. /\ g \in Entity
      /\ iy.rulings = ix.rulings
      /\ iy.merges = ix.merges
      /\ \A e \in Entity : iy.entities[e] =
           IF e = g THEN ix.entities[e] \cup {Len(log) + 1} ELSE ix.entities[e]
      /\ \A t \in Edge : iy.edges[t] = ix.edges[t]
  <2>1. WithEntity(ix, iy, g, Len(log) + 1)
      BY IndexWithEntity
  <2> QED
      BY <2>1 DEF WithEntity
<1>2. /\ Logged(l)
      /\ \A k \in 1..Len(log) : l[k] = log[k]
    BY Longer
<1>3. \A e \in Entity : \A k \in ix.entities[e] : k \in 1..Len(log)
    BY ClaimedBy
<1>4. ASSUME NEW e \in Entity, NEW k \in iy.entities[e] PROVE Canonical(ix.merges, l[k].claim.id) = e
  <2>1. Canonical(IndexOf(l).merges, l[k].claim.id) = e
      BY <1>2, ClaimedBy
  <2> QED
      BY <2>1, <1>1
<1>10. \A k \in iy.entities[g] : Canonical(ix.merges, l[k].claim.id) = g
  <2>1. g \in Entity
      BY <1>1
  <2> QED
      BY <2>1, <1>4
<1>5. ix.rulings = RulingsOf(log)
    BY IndexIs
<1>6. ASSUME NEW e \in Entity, e # g PROVE Belief(l, iy, e) = Belief(log, ix, e)
  <2>1. ix.entities[e] \in SUBSET (1..Len(log)) /\ iy.entities[e] = ix.entities[e]
      BY <1>1, <1>3, <1>6
  <2> QED
      BY <2>1, <1>1, <1>5, BeliefKept
<1>7. BeliefsOf(l, iy) = [BeliefsOf(log, ix) EXCEPT ![g] = Belief(l, iy, g)]
    BY <1>1, <1>6 DEF BeliefsOf
<1>8. NamesOf(l, iy) = {n \in NamesOf(log, ix) : n[2] # g /\ n[1] \notin
                          {l[k].claim.id : k \in iy.entities[g]}}
                         \cup {<<l[k].claim.id, g>> : k \in iy.entities[g]}
  <2> DEFINE ids == {l[k].claim.id : k \in iy.entities[g]}
             own == {<<l[k].claim.id, g>> : k \in iy.entities[g]}
             other == {n \in NamesOf(log, ix) : n[2] # g /\ n[1] \notin ids}
  <2>1. ASSUME NEW n \in NamesOf(l, iy) PROVE n \in other \cup own
    <3>0. PICK e \in Entity : n \in {<<l[k].claim.id, e>> : k \in iy.entities[e]}
        BY DEF NamesOf
    <3>1. PICK k \in iy.entities[e] : n = <<l[k].claim.id, e>>
        BY <3>0
    <3>2. CASE e = g
        BY <3>1, <3>2
    <3>3. CASE e # g
      <4>1. k \in ix.entities[e] /\ l[k] = log[k]
          BY <3>1, <3>3, <1>1, <1>2, <1>3
      <4>2. n \in NamesOf(log, ix)
          BY <3>1, <4>1, NamesAre
      <4>3. ASSUME l[k].claim.id \in ids PROVE FALSE
        <5>1. PICK j \in iy.entities[g] : l[k].claim.id = l[j].claim.id
            BY <4>3
        <5>2. Canonical(ix.merges, l[k].claim.id) = e
            BY <1>4
        <5>3. Canonical(ix.merges, l[j].claim.id) = g
            BY <1>10
        <5> QED
            BY <5>1, <5>2, <5>3, <3>3
      <4>4. n[1] = l[k].claim.id /\ n[2] = e
          BY <3>1
      <4> HIDE DEF ids
      <4> QED
          BY <3>3, <4>2, <4>3, <4>4
    <3> QED
        BY <3>2, <3>3
  <2>2. ASSUME NEW n \in own PROVE n \in NamesOf(l, iy)
    <3>1. PICK k \in iy.entities[g] : n = <<l[k].claim.id, g>>
        OBVIOUS
    <3> QED
        BY <3>1, <1>1, NamesAre
  <2>3. ASSUME NEW n \in other PROVE n \in NamesOf(l, iy)
    <3>0. PICK e \in Entity : n \in {<<log[k].claim.id, e>> : k \in ix.entities[e]}
        BY DEF NamesOf
    <3>1. PICK k \in ix.entities[e] : n = <<log[k].claim.id, e>>
        BY <3>0
    <3>2. e # g
        BY <3>1
    <3>3. k \in iy.entities[e] /\ l[k] = log[k]
        BY <3>1, <3>2, <1>1, <1>2, <1>3
    <3> QED
        BY <3>1, <3>3, NamesAre
  <2> HIDE DEF own, other
  <2>4. NamesOf(l, iy) = other \cup own
      BY <2>1, <2>2, <2>3
  <2> QED
      BY <2>4 DEF own, other
<1>9. EdgesOf(log, ix) \subseteq EdgesOf(l, iy)
  <2>1. /\ Believed(BeliefsOf(log, ix)) = {e \in Entity : ix.entities[e] # {}}
        /\ Believed(BeliefsOf(l, iy)) = {e \in Entity : iy.entities[e] # {}}
      BY <1>2, BelievedIs
  <2>2. Believed(BeliefsOf(log, ix)) \subseteq Believed(BeliefsOf(l, iy))
      BY <2>1, <1>1
  <2> QED
      BY <2>2, <1>1 DEF EdgesOf
<1> QED
    BY <1>7, <1>8, <1>9 DEF EntityRows

RelationRows(log, ix, l, iy, u) ==
  /\ BeliefsOf(l, iy) = BeliefsOf(log, ix)
  /\ NamesOf(l, iy) = NamesOf(log, ix)
  /\ EdgesOf(log, ix) \subseteq EdgesOf(l, iy)
  /\ u[1] # u[3] /\ {u[1], u[3]} \subseteq Believed(BeliefsOf(log, ix)) => u \in EdgesOf(l, iy)

LEMMA RowsWithRelation ==
  ASSUME NEW log, Logged(log), NEW a \in Attestation, Len(log) < MaxLog, a.claim.kind = "relation",
         NEW ix, ix = IndexOf(log), NEW l, l = Append(log, a), NEW iy, iy = IndexOf(l),
         NEW u, u = EdgeUnder(ix.merges, a.claim.edge)
  PROVE  RelationRows(log, ix, l, iy, u)
<1>1. /\ u \in Edge
      /\ iy.rulings = ix.rulings
      /\ iy.merges = ix.merges
      /\ \A e \in Entity : iy.entities[e] = ix.entities[e]
      /\ \A t \in Edge : iy.edges[t] =
           IF t = u THEN ix.edges[t] \cup {Len(log) + 1} ELSE ix.edges[t]
  <2>1. WithRelation(ix, iy, u, Len(log) + 1)
      BY IndexWithRelation
  <2> QED
      BY <2>1 DEF WithRelation
<1>2. /\ Logged(l)
      /\ \A k \in 1..Len(log) : l[k] = log[k]
    BY Longer
<1>3. \A e \in Entity : \A k \in ix.entities[e] : k \in 1..Len(log)
    BY ClaimedBy
<1>4. ix.rulings = RulingsOf(log)
    BY IndexIs
<1>5. ASSUME NEW e \in Entity PROVE Belief(l, iy, e) = Belief(log, ix, e)
  <2>1. ix.entities[e] \in SUBSET (1..Len(log)) /\ iy.entities[e] = ix.entities[e]
      BY <1>1, <1>3
  <2> QED
      BY <2>1, <1>1, <1>4, BeliefKept
<1>6. BeliefsOf(l, iy) = BeliefsOf(log, ix)
    BY <1>5 DEF BeliefsOf
<1>7. NamesOf(l, iy) = NamesOf(log, ix)
  <2>1. \A e \in Entity : \A k \in ix.entities[e] : l[k] = log[k]
      BY <1>2, <1>3
  <2>2. \A e \in Entity : {<<l[k].claim.id, e>> : k \in iy.entities[e]}
                        = {<<log[k].claim.id, e>> : k \in ix.entities[e]}
      BY <2>1, <1>1
  <2> DEFINE Old(e) == {<<log[k].claim.id, e>> : k \in ix.entities[e]}
             New(e) == {<<l[k].claim.id, e>> : k \in iy.entities[e]}
  <2>3. NamesOf(log, ix) = UNION {Old(e) : e \in Entity} /\ NamesOf(l, iy) = UNION {New(e) : e \in Entity}
      BY DEF NamesOf
  <2>4. \A e \in Entity : New(e) = Old(e)
      BY <2>2
  <2> HIDE DEF Old, New
  <2>5. {Old(e) : e \in Entity} = {New(e) : e \in Entity}
      BY <2>4
  <2> QED
      BY <2>3, <2>5
<1>8. EdgesOf(log, ix) \subseteq EdgesOf(l, iy)
    BY <1>1, <1>6 DEF EdgesOf
<1>9. u[1] # u[3] /\ {u[1], u[3]} \subseteq Believed(BeliefsOf(log, ix)) => u \in EdgesOf(l, iy)
    BY <1>1, <1>6 DEF EdgesOf
<1> QED
    BY <1>6, <1>7, <1>8, <1>9 DEF RelationRows

-----------------------------------------------------------------------------
(* The steps.                                                              *)
LEMMA GraphStarts == GraphInit => GraphInv
<1> SUFFICES ASSUME GraphInit PROVE GraphInv
    OBVIOUS
<1>1. attestations = <<>> /\ opens = 0 /\ beliefs = [e \in Entity |-> NoBelief]
        /\ edges = {} /\ names = {} /\ index = IndexOf(<<>>)
    BY DEF GraphInit
<1>2. Logged(<<>>)
    BY GraphConstants DEF Logged, Kind
<1>3. PICK ix : ix = IndexOf(<<>>)
    OBVIOUS
<1>4. \A e \in Entity : ix.entities[e] = {}
  <2>1. \A e \in Entity : \A k \in ix.entities[e] : k \in 1..Len(<<>>)
      BY <1>2, <1>3, ClaimedBy
  <2> QED
      BY <2>1
<1>5. BeliefsOf(<<>>, ix) = [e \in Entity |-> NoBelief]
  <2>1. \A e \in Entity : Belief(<<>>, ix, e) = NoBelief
      BY <1>4, Zenon DEF Belief
  <2> QED
      BY <2>1 DEF BeliefsOf
<1>6. NamesOf(<<>>, ix) = {}
  <2>1. \A n : n \notin NamesOf(<<>>, ix)
      BY <1>4, NamesAre
  <2> QED
      BY <2>1
<1>7. BeliefsFollowLog
    BY <1>1, <1>3, <1>5, <1>6 DEF BeliefsFollowLog
<1> QED
    BY <1>1, <1>2, <1>7, GraphConstants DEF GraphInv

LEMMA EntityFollows ==
  ASSUME GraphInv, NEW a \in Attestation, AttestEntity(a)
  PROVE  GraphInv'
<1>1. /\ Logged(attestations)
      /\ opens \in 0..MaxOpens
      /\ index = IndexOf(attestations)
      /\ beliefs = BeliefsOf(attestations, index)
      /\ names = NamesOf(attestations, index)
      /\ edges \subseteq EdgesOf(attestations, index)
    BY DEF GraphInv, BeliefsFollowLog
<1>2. PICK g : g = GroupOf(a)
    OBVIOUS
<1>3. /\ a.claim.kind = "entity"
      /\ Len(attestations) < MaxLog
      /\ attestations' = Append(attestations, a)
      /\ opens' = opens
      /\ edges' = edges
      /\ index' = [index EXCEPT !.entities[g] = @ \cup {Len(attestations')}]
      /\ beliefs' = [beliefs EXCEPT ![g] = Belief(attestations', index', g)]
      /\ names' = {n \in names : n[2] # g /\ n[1] \notin
                     {attestations'[k].claim.id : k \in index'.entities[g]}}
                    \cup {<<attestations'[k].claim.id, g>> : k \in index'.entities[g]}
    BY <1>2, Zenon DEF AttestEntity, Appended
<1>4. g = Canonical(index.merges, a.claim.id)
    BY <1>2 DEF GroupOf
<1>5. Logged(attestations') /\ Len(attestations') = Len(attestations) + 1
    BY <1>1, <1>3, Longer
<1>6. index' = IndexOf(attestations')
  <2>1. WithEntity(index, IndexOf(Append(attestations, a)), g, Len(attestations) + 1)
      BY <1>1, <1>3, <1>4, IndexWithEntity
  <2>2. IndexOf(Append(attestations, a)) = [index EXCEPT !.entities[g] = @ \cup {Len(attestations) + 1}]
      BY <2>1, Zenon DEF WithEntity
  <2> QED
      BY <2>2, <1>3, <1>5
<1>7. /\ BeliefsOf(attestations', index') = [beliefs EXCEPT ![g] = Belief(attestations', index', g)]
      /\ NamesOf(attestations', index') = {n \in names : n[2] # g /\ n[1] \notin
                     {attestations'[k].claim.id : k \in index'.entities[g]}}
                    \cup {<<attestations'[k].claim.id, g>> : k \in index'.entities[g]}
      /\ EdgesOf(attestations, index) \subseteq EdgesOf(attestations', index')
  <2>1. PICK l : l = attestations'
      OBVIOUS
  <2>2. PICK iy : iy = index'
      OBVIOUS
  <2>3. l = Append(attestations, a) /\ iy = IndexOf(l)
      BY <2>1, <2>2, <1>3, <1>6
  <2>4. EntityRows(attestations, index, l, iy, g)
      BY <2>3, <1>1, <1>3, <1>4, RowsWithEntity
  <2> QED
      BY <2>1, <2>2, <2>4, <1>1 DEF EntityRows
<1>8. /\ beliefs' = BeliefsOf(attestations', index')
      /\ names' = NamesOf(attestations', index')
      /\ edges' \subseteq EdgesOf(attestations', index')
    BY <1>1, <1>3, <1>7
<1> QED
    BY <1>1, <1>3, <1>5, <1>6, <1>8 DEF GraphInv, BeliefsFollowLog

LEMMA RelationFollows ==
  ASSUME GraphInv, NEW a \in Attestation, AttestRelation(a)
  PROVE  GraphInv'
<1>1. /\ Logged(attestations)
      /\ opens \in 0..MaxOpens
      /\ index = IndexOf(attestations)
      /\ beliefs = BeliefsOf(attestations, index)
      /\ names = NamesOf(attestations, index)
      /\ edges \subseteq EdgesOf(attestations, index)
    BY DEF GraphInv, BeliefsFollowLog
<1>2. PICK u : u = EdgeUnder(index.merges, a.claim.edge)
    OBVIOUS
<1>3. /\ a.claim.kind = "relation"
      /\ Len(attestations) < MaxLog
      /\ attestations' = Append(attestations, a)
      /\ opens' = opens
      /\ beliefs' = beliefs
      /\ names' = names
      /\ index' = [index EXCEPT !.edges[u] = @ \cup {Len(attestations')}]
      /\ edges' = IF u[1] # u[3] /\ {u[1], u[3]} \subseteq Believed(beliefs)
                  THEN edges \cup {u} ELSE edges
    BY <1>2, Zenon DEF AttestRelation, Appended
<1>4. Logged(attestations') /\ Len(attestations') = Len(attestations) + 1
    BY <1>1, <1>3, Longer
<1>5. index' = IndexOf(attestations')
  <2>1. WithRelation(index, IndexOf(Append(attestations, a)), u, Len(attestations) + 1)
      BY <1>1, <1>2, <1>3, IndexWithRelation
  <2>2. IndexOf(Append(attestations, a)) = [index EXCEPT !.edges[u] = @ \cup {Len(attestations) + 1}]
      BY <2>1, Zenon DEF WithRelation
  <2> QED
      BY <2>2, <1>3, <1>4
<1>6. /\ BeliefsOf(attestations', index') = beliefs
      /\ NamesOf(attestations', index') = names
      /\ EdgesOf(attestations, index) \subseteq EdgesOf(attestations', index')
      /\ u[1] # u[3] /\ {u[1], u[3]} \subseteq Believed(beliefs) => u \in EdgesOf(attestations', index')
  <2>1. PICK l : l = attestations'
      OBVIOUS
  <2>2. PICK iy : iy = index'
      OBVIOUS
  <2>3. l = Append(attestations, a) /\ iy = IndexOf(l)
      BY <2>1, <2>2, <1>3, <1>5
  <2>4. RelationRows(attestations, index, l, iy, u)
      BY <2>3, <1>1, <1>2, <1>3, RowsWithRelation
  <2> QED
      BY <2>1, <2>2, <2>4, <1>1 DEF RelationRows
<1>7. edges' \subseteq EdgesOf(attestations', index')
  <2>1. CASE u[1] # u[3] /\ {u[1], u[3]} \subseteq Believed(beliefs)
      BY <2>1, <1>1, <1>3, <1>6
  <2>2. CASE ~ (u[1] # u[3] /\ {u[1], u[3]} \subseteq Believed(beliefs))
      BY <2>2, <1>1, <1>3, <1>6
  <2> QED
      BY <2>1, <2>2
<1> QED
    BY <1>1, <1>3, <1>4, <1>5, <1>6, <1>7 DEF GraphInv, BeliefsFollowLog

LEMMA RulingFollows ==
  ASSUME GraphInv, NEW a \in Attestation, AttestRuling(a)
  PROVE  GraphInv'
<1>1. Logged(attestations) /\ opens \in 0..MaxOpens
    BY DEF GraphInv
<1>2. /\ a.claim.kind = "ruling" => a.claim.target \in DOMAIN attestations
      /\ Len(attestations) < MaxLog
      /\ attestations' = Append(attestations, a)
      /\ opens' = opens
      /\ index' = IndexOf(attestations')
      /\ beliefs' = BeliefsOf(attestations', index')
      /\ edges' = EdgesOf(attestations', index')
      /\ names' = NamesOf(attestations', index')
  <2>1. a.claim.kind = "merge" \/ a.claim.target \in DOMAIN attestations
      BY DEF AttestRuling, MayRule
  <2>2. "merge" # "ruling"
      OBVIOUS
  <2> QED
      BY <2>1, <2>2 DEF AttestRuling, Appended, RebuildProjection
<1>3. Logged(attestations')
    BY <1>1, <1>2, Longer
<1> QED
    BY <1>1, <1>2, <1>3 DEF GraphInv, BeliefsFollowLog

LEMMA OpenFollows ==
  ASSUME GraphInv, OpenAgain
  PROVE  GraphInv'
<1>1. /\ Logged(attestations)
      /\ opens \in 0..MaxOpens
      /\ index = IndexOf(attestations)
      /\ beliefs = BeliefsOf(attestations, index)
      /\ names = NamesOf(attestations, index)
      /\ edges \subseteq EdgesOf(attestations, index)
    BY DEF GraphInv, BeliefsFollowLog
<1>2. /\ attestations' = attestations
      /\ index' = IndexOf(attestations)
      /\ opens' \in 0..MaxOpens
    BY <1>1, GraphConstants DEF OpenAgain
<1>3. /\ beliefs' = BeliefsOf(attestations', index')
      /\ names' = NamesOf(attestations', index')
      /\ edges' \subseteq EdgesOf(attestations', index')
  <2>1. CASE Current
    <3>1. UNCHANGED <<beliefs, edges, names>>
        BY <2>1, Zenon DEF OpenAgain, projection
    <3> QED
        BY <3>1, <1>1, <1>2
  <2>2. CASE ~ Current
    <3>1. RebuildProjection
        BY <2>2, Zenon DEF OpenAgain
    <3> QED
        BY <3>1 DEF RebuildProjection
  <2> QED
      BY <2>1, <2>2
<1> QED
    BY <1>1, <1>2, <1>3 DEF GraphInv, BeliefsFollowLog

LEMMA GraphKept == GraphInv /\ [GraphNext]_graphVars => GraphInv'
<1> SUFFICES ASSUME GraphInv, [GraphNext]_graphVars PROVE GraphInv'
    OBVIOUS
<1>1. ASSUME NEW a \in Attestation, AttestEntity(a) PROVE GraphInv'
    BY <1>1, EntityFollows
<1>2. ASSUME NEW a \in Attestation, AttestRelation(a) PROVE GraphInv'
    BY <1>2, RelationFollows
<1>3. ASSUME NEW a \in Attestation, AttestRuling(a) PROVE GraphInv'
    BY <1>3, RulingFollows
<1>4. CASE OpenAgain
    BY <1>4, OpenFollows
<1>5. CASE UNCHANGED graphVars
  <2>1. attestations' = attestations /\ opens' = opens /\ index' = index
          /\ beliefs' = beliefs /\ edges' = edges /\ names' = names
      BY <1>5 DEF graphVars, projection
  <2> QED
      BY <2>1 DEF GraphInv, BeliefsFollowLog
<1> QED
    BY <1>1, <1>2, <1>3, <1>4, <1>5 DEF GraphNext

(* The rows are what the log says, in every state.                         *)
THEOREM GraphInvariant == GraphSpec => []GraphInv
    BY GraphStarts, GraphKept, PTL DEF GraphSpec

LEMMA GraphTyped == GraphInv => GraphTypeOK
<1> SUFFICES ASSUME GraphInv PROVE GraphTypeOK
    OBVIOUS
<1>1. /\ Logged(attestations)
      /\ opens \in 0..MaxOpens
      /\ index = IndexOf(attestations)
      /\ beliefs = BeliefsOf(attestations, index)
      /\ names = NamesOf(attestations, index)
      /\ edges \subseteq EdgesOf(attestations, index)
    BY DEF GraphInv, BeliefsFollowLog
<1>2. /\ beliefs \in [Entity -> [type : EntityType, strength : 1..Certain] \cup {NoBelief}]
      /\ Believed(beliefs) = {e \in Entity : index.entities[e] # {}}
    BY <1>1, BelievedIs
<1>3. edges \subseteq Edge /\ \A t \in edges : {t[1], t[3]} \subseteq Believed(beliefs)
    BY <1>1 DEF EdgesOf
<1>4. ASSUME NEW n \in names
      PROVE  \E e \in Entity : \E k \in index.entities[e] : n = <<attestations[k].claim.id, e>>
    BY <1>1, NamesAre
<1>5. \A n \in names : n[2] \in Believed(beliefs)
    BY <1>2, <1>4
<1>6. ASSUME NEW m \in names, NEW n \in names, m[1] = n[1] PROVE m = n
  <2>a. PICK d \in Entity : \E j \in index.entities[d] : m = <<attestations[j].claim.id, d>>
      BY <1>4
  <2>1. PICK j \in index.entities[d] : m = <<attestations[j].claim.id, d>>
      BY <2>a
  <2>b. PICK e \in Entity : \E k \in index.entities[e] : n = <<attestations[k].claim.id, e>>
      BY <1>4
  <2>2. PICK k \in index.entities[e] : n = <<attestations[k].claim.id, e>>
      BY <2>b
  <2>3. /\ Canonical(index.merges, attestations[j].claim.id) = d
        /\ Canonical(index.merges, attestations[k].claim.id) = e
      BY <1>1, ClaimedBy
  <2>4. attestations[j].claim.id = attestations[k].claim.id
      BY <2>1, <2>2, <1>6
  <2> QED
      BY <2>1, <2>2, <2>3, <2>4
<1>7. attestations \in Seq(Attestation)
    BY <1>1 DEF Logged
<1> QED
    BY <1>1, <1>2, <1>3, <1>5, <1>6, <1>7 DEF GraphTypeOK

LEMMA SupportCounted == GraphInv => IndependentSupport
<1> SUFFICES ASSUME GraphInv, NEW e \in Believed(beliefs)
             PROVE  LET claims == Support(attestations, index,
                          {k \in index.entities[e] : attestations[k].claim.type = beliefs[e].type})
                    IN  beliefs[e].strength =
                          IF \E k \in claims : attestations[k].sure THEN Certain
                          ELSE Cardinality({Connected(attestations, claims, k) : k \in claims})
    BY DEF IndependentSupport
<1> DEFINE group == ClaimsOf(attestations, index, e, beliefs[e].type)
           claims == Support(attestations, index, group)
<1>1. /\ Logged(attestations)
      /\ index = IndexOf(attestations)
      /\ beliefs = BeliefsOf(attestations, index)
    BY DEF GraphInv, BeliefsFollowLog
<1>2. e \in Entity /\ index.entities[e] # {}
    BY <1>1, BelievedIs DEF Believed
<1>3. beliefs[e] = Belief(attestations, index, e)
    BY <1>1, <1>2 DEF BeliefsOf
<1>4. beliefs[e].strength = Strength(attestations, index, group)
    BY <1>1, <1>2, <1>3, BeliefIs
<1>5. group \in SUBSET (1..Len(attestations))
    BY <1>1, <1>2, ClaimedBy DEF ClaimsOf
<1>6. index.rulings = RulingsOf(attestations)
    BY <1>1, IndexIs
<1> HIDE DEF group
<1>7. claims \in SUBSET (1..Len(attestations))
    BY <1>1, <1>5, <1>6, SupportIs
<1>8. Strength(attestations, index, group) =
        IF \E b \in Blocks(attestations, claims) : b.sure THEN Certain
        ELSE Cardinality(Blocks(attestations, claims))
    BY DEF Strength
<1> HIDE DEF claims
<1>9. /\ Cardinality(Blocks(attestations, claims))
           = Cardinality({Connected(attestations, claims, k) : k \in claims})
      /\ (\E b \in Blocks(attestations, claims) : b.sure) <=> \E k \in claims : attestations[k].sure
    BY <1>1, <1>7, PiecesCount
<1>10. beliefs[e].strength =
         IF \E k \in claims : attestations[k].sure THEN Certain
         ELSE Cardinality({Connected(attestations, claims, k) : k \in claims})
    BY <1>4, <1>8, <1>9, Zenon
<1> QED
    BY <1>10, Zenon DEF claims, group, ClaimsOf

LEMMA LastWord == GraphInv => BrainHasTheLastWord
<1> DEFINE Spoken(e) == {attestations[k].claim.type :
                           k \in {j \in index.entities[e] : Authority(attestations, index, j) = 3}}
<1> SUFFICES ASSUME GraphInv, NEW e \in Believed(beliefs), Cardinality(Spoken(e)) = 1
             PROVE  beliefs[e].type \in Spoken(e)
    BY Zenon DEF BrainHasTheLastWord
<1> DEFINE G(t) == ClaimsOf(attestations, index, e, t)
           A(t) == Rank(attestations, index, G(t)).authority
<1>1. /\ Logged(attestations)
      /\ index = IndexOf(attestations)
      /\ beliefs = BeliefsOf(attestations, index)
    BY DEF GraphInv, BeliefsFollowLog
<1>2. e \in Entity /\ index.entities[e] # {}
    BY <1>1, BelievedIs DEF Believed
<1>3. beliefs[e] = Belief(attestations, index, e)
    BY <1>1, <1>2 DEF BeliefsOf
<1>4. /\ beliefs[e].type \in EntityType
      /\ G(beliefs[e].type) # {}
      /\ \A t \in EntityType : G(t) # {} => A(t) <= A(beliefs[e].type)
    BY <1>1, <1>2, <1>3, BeliefIs
<1>5. \A k \in index.entities[e] : k \in 1..Len(attestations) /\ attestations[k].claim.type \in EntityType
    BY <1>1, <1>2, ClaimedBy
<1>6. \A t : G(t) \in SUBSET (1..Len(attestations))
    BY <1>5 DEF ClaimsOf
<1>7. index.rulings = RulingsOf(attestations)
    BY <1>1, IndexIs
<1>8. \A t : G(t) # {} =>
        /\ A(t) \in {0, 2, 3}
        /\ \E k \in G(t) : Authority(attestations, index, k) = A(t)
        /\ \A k \in G(t) : Authority(attestations, index, k) <= A(t)
  <2> HIDE DEF G
  <2> QED
      BY <1>1, <1>6, <1>7, RankIs
<1>9. PICK t : t \in Spoken(e)
  <2>1. Spoken(e) # {}
    <3> HIDE DEF Spoken
    <3> QED
        BY FS_EmptySet
  <2> QED
      BY <2>1
<1>10. PICK k \in index.entities[e] : attestations[k].claim.type = t /\ Authority(attestations, index, k) = 3
    BY <1>9
<1>11. k \in G(t) /\ t \in EntityType
    BY <1>5, <1>10 DEF ClaimsOf
<1>12. A(t) = 3
  <2> HIDE DEF A, G
  <2> QED
      BY <1>8, <1>10, <1>11
<1>13. A(beliefs[e].type) = 3
  <2> HIDE DEF A, G
  <2>1. A(t) <= A(beliefs[e].type) /\ A(beliefs[e].type) \in {0, 2, 3}
      BY <1>4, <1>8, <1>11
  <2> QED
      BY <2>1, <1>12
<1>14. PICK j \in G(beliefs[e].type) : Authority(attestations, index, j) = 3
  <2> HIDE DEF A, G
  <2> QED
      BY <1>4, <1>8, <1>13
<1>15. j \in index.entities[e] /\ attestations[j].claim.type = beliefs[e].type
    BY <1>14 DEF ClaimsOf
<1> QED
    BY <1>14, <1>15

(* What the Brain reads in the graph is earned: BeliefsAreEarned.          *)
THEOREM BeliefsAreEarnedAlways == GraphSpec => []BeliefsAreEarned
<1>1. GraphInv => BeliefsAreEarned
    BY GraphTyped, SupportCounted, LastWord DEF BeliefsAreEarned, GraphInv
<1> QED
    BY <1>1, GraphInvariant, PTL

=============================================================================
