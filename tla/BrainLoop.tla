------------------------------ MODULE BrainLoop ------------------------------
(***************************************************************************)
(* The Brain's up-inbox with the process around it: the callers that admit *)
(* and wake, wakeBrain and its one permit (agents/src/brain/dispatch.ts),  *)
(* the turns of the one Brain agent and its tools (brain/tools.ts), the    *)
(* boot sequence and the proactive clock (host/whatsapp-runtime.ts), and   *)
(* crashes of the process.                                                 *)
(*                                                                         *)
(* The store of BrainInbox and Flue's lane of submissions are two durable  *)
(* databases; everything else is lost in a crash. Flue resumes the lane as *)
(* soon as the process starts, before WhatsApp is authenticated and the    *)
(* tools of the Brain are configured.                                      *)
(*                                                                         *)
(* A turn is diligent: it goes on until its Batch is settled, and gives up *)
(* only when the code leaves it nothing to do. A turn records prompts and  *)
(* silence and schedules wakes; filings, mutations and launches follow the *)
(* same record, deliver, settle protocol of BrainInbox.                    *)
(*                                                                         *)
(* As in BrainInbox, WakeOnlyForNews and WakeSubmitsAgain are faulty       *)
(* variants that nothing uses.                                             *)
(***************************************************************************)
EXTENDS BrainInbox, Sequences

CONSTANTS
  MaxWakes,   \* queued wakeBrain calls beyond this number change nothing
  MaxCrashes, \* bounds the crashes of the process
  MaxFaults,  \* bounds the Flue dispatches that throw
  Retirable   \* whether the Surface the prompts address may be retired

ASSUME LoopConstants ==
  /\ MaxWakes \in Nat \ {0}
  /\ MaxCrashes \in Nat
  /\ MaxFaults \in Nat
  /\ Retirable \in BOOLEAN
  /\ None \notin [batch : Batch, admitted : BOOLEAN, by : {"boot", "caller"}]

VARIABLES
  boot,       \* how far the runtime of this process has come
  recovering, \* prompts recoverPendingPrompts has still to deliver
  wakes,      \* wakeBrain calls that wait for the permit
  waking,     \* the wakeBrain call that holds it and awaits Flue, or None
  lane,       \* durable: the submissions of the Brain's Flue session, in order
  turn,       \* whether the submission at the head of the lane is running
  bound,      \* durable: the Surface of the prompts has an active binding
  sent,       \* history: how often each Batch was submitted
  crashes,    \* history: crashes so far
  faults      \* history: Flue dispatches that threw so far

store    == vars
bootVars == <<boot, recovering>>
wakeCall == <<wakes, waking>>
flueVars == <<lane, turn, sent>>
envVars  == <<bound, crashes, faults>>
loopVars == <<store, bootVars, wakeCall, flueVars, envVars>>

BootPhase == {"starting", "configured", "recovering", "sweeping", "ready", "failed"}

LoopInit ==
  /\ Init
  /\ boot = "starting"
  /\ recovering = {}
  /\ wakes = 0
  /\ waking = None
  /\ lane = <<>>
  /\ turn = "idle"
  /\ bound = TRUE
  /\ sent = [b \in Batch |-> 0]
  /\ crashes = 0
  /\ faults = 0

(* getBrainEffectsRuntime throws until the runtime is configured, and the  *)
(* store it holds is closed once the runtime fiber has failed.             *)
ToolsUp    == boot \in {"configured", "recovering", "sweeping", "ready"}
BrainReady == boot \in {"sweeping", "ready"}
InboxOpen  == boot # "failed"

(* A call of wakeBrain nobody waits for but the semaphore.                 *)
CallWake == wakes' = IF wakes < MaxWakes THEN wakes + 1 ELSE wakes

(* The id a new Batch hashes to is one no Batch has.                       *)
FreshBatch == CHOOSE b \in Batch : b \notin created

-----------------------------------------------------------------------------
(* Admission: what each caller admits, and when it wakes the Brain.        *)

(* A Scribe proposal, at any time from the first line of the boot on.      *)
AdmitDelta(d) ==
  /\ InboxOpen
  /\ AdmitDraft(d)
  /\ CallWake
  /\ UNCHANGED <<bootVars, waking, flueVars, envVars>>

(* A Speaker escalates, once its tool is configured.                       *)
EscalateIntent(i) ==
  /\ ToolsUp
  /\ AdmitDraft(i)
  /\ CallWake
  /\ UNCHANGED <<bootVars, waking, flueVars, envVars>>

(* A GitHub webhook: admitted at once, the wake waits for brainReady.      *)
AdmitEvent(e) ==
  /\ InboxOpen
  /\ AdmitDraft(e)
  /\ IF BrainReady THEN CallWake ELSE UNCHANGED wakes
  /\ UNCHANGED <<bootVars, waking, flueVars, envVars>>

(* The clock's tick wakes the Brain even when it admitted nothing.         *)
WakeOnlyForNews ==
  /\ boot = "ready"
  /\ RunProactiveClock
  /\ IF admittedAt' # admittedAt THEN CallWake ELSE UNCHANGED wakes
  /\ UNCHANGED <<bootVars, waking, flueVars, envVars>>
ClockTick ==
  /\ boot = "ready"
  /\ RunProactiveClock
  /\ CallWake
  /\ UNCHANGED <<bootVars, waking, flueVars, envVars>>

-----------------------------------------------------------------------------
(* wakeBrain. `by` is "boot" for the call the boot sequence awaits, whose  *)
(* failure is the boot's failure, and "caller" for all others.             *)

Begin(by) ==
  /\ waking = None
  /\ InboxOpen
  /\ IF by = "boot" THEN boot = "sweeping" /\ UNCHANGED wakes
                    ELSE wakes > 0 /\ wakes' = wakes - 1

(* The boot goes on when its own call returns, and dies when it throws.    *)
Returned(by) == boot' = IF by = "boot" /\ boot = "sweeping" THEN "ready" ELSE boot

(* claimBatch returns no Batch, or one that is dispatched already.         *)
WakeFindsNothing(by) ==
  /\ Begin(by)
  /\ IF OpenBatches = {} THEN Ready = {} ELSE OpenBatches \subseteq dispatched
  /\ Returned(by)
  /\ UNCHANGED <<store, recovering, waking, flueVars, envVars>>

(* claimBatch returns an open Batch, or a new one, without a receipt.      *)
WakeSubmitsAgain(by) ==
  /\ Begin(by)
  /\ \/ /\ OpenBatches # {}
        /\ \E b \in OpenBatches : waking' = [batch |-> b, admitted |-> FALSE, by |-> by]
        /\ UNCHANGED store
     \/ /\ created # Batch
        /\ ClaimBatch(FreshBatch)
        /\ waking' = [batch |-> FreshBatch, admitted |-> FALSE, by |-> by]
  /\ UNCHANGED <<bootVars, flueVars, envVars>>
WakeClaims(by) ==
  /\ Begin(by)
  /\ \/ /\ OpenBatches \ dispatched # {}
        /\ \E b \in OpenBatches : waking' = [batch |-> b, admitted |-> FALSE, by |-> by]
        /\ UNCHANGED store
     \/ /\ created # Batch
        /\ ClaimBatch(FreshBatch)
        /\ waking' = [batch |-> FreshBatch, admitted |-> FALSE, by |-> by]
  /\ UNCHANGED <<bootVars, flueVars, envVars>>

(* Flue admits the submission to the lane.                                 *)
FlueAdmits ==
  /\ waking # None
  /\ ~ waking.admitted
  /\ lane' = Append(lane, waking.batch)
  /\ sent' = [sent EXCEPT ![waking.batch] = @ + 1]
  /\ waking' = [waking EXCEPT !.admitted = TRUE]
  /\ UNCHANGED <<store, bootVars, wakes, turn, envVars>>

(* markBatchDispatched, in the continuation of the dispatch.               *)
WakeMarks ==
  /\ waking # None
  /\ waking.admitted
  /\ InboxOpen
  /\ MarkBatchDispatched(waking.batch)
  /\ waking' = None
  /\ Returned(waking.by)
  /\ UNCHANGED <<recovering, wakes, flueVars, envVars>>

(* The finalizers of a failed runtime run: the store is closed, so calls   *)
(* that wait for the permit throw.                                         *)
FailBoot ==
  /\ boot' = "failed"
  /\ recovering' = {}
  /\ wakes' = 0

(* The dispatch throws, before or after Flue admitted the submission. The  *)
(* callers log it; in the boot sequence nothing catches it.                *)
WakeThrows ==
  /\ waking # None
  /\ faults < MaxFaults
  /\ faults' = faults + 1
  /\ waking' = None
  /\ IF waking.by = "boot" THEN FailBoot ELSE UNCHANGED <<bootVars, wakes>>
  /\ UNCHANGED <<store, flueVars, bound, crashes>>

(* A receipt that arrives after the store was closed is lost.              *)
ReceiptLost ==
  /\ waking # None
  /\ waking.admitted
  /\ ~ InboxOpen
  /\ waking' = None
  /\ UNCHANGED <<store, bootVars, wakes, flueVars, envVars>>

-----------------------------------------------------------------------------
(* The boot sequence.                                                      *)

(* WhatsApp is authenticated; the runtimes the tools use are configured.   *)
Configure ==
  /\ boot = "starting"
  /\ boot' = "configured"
  /\ UNCHANGED <<store, recovering, wakeCall, flueVars, envVars>>

(* recoverPendingPrompts reads the pending prompts once, then delivers     *)
(* them one after the other. An Effect another turn delivered meanwhile is *)
(* delivered again.                                                        *)
BeginRecovery ==
  /\ boot = "configured"
  /\ boot' = "recovering"
  /\ recovering' = {e \in Batch \X Prompt : effect[e] = "pending"}
  /\ UNCHANGED <<store, wakeCall, flueVars, envVars>>

(* deliverPrompt throws when the Surface has no active binding.            *)
RecoverPrompt(e) ==
  /\ boot = "recovering"
  /\ e \in recovering
  /\ IF bound
     THEN /\ MarkPromptAccepted(e[1], e[2])
          /\ recovering' = recovering \ {e}
          /\ UNCHANGED <<boot, wakes>>
     ELSE /\ FailBoot
          /\ UNCHANGED store
  /\ UNCHANGED <<waking, flueVars, envVars>>

(* The dispatch to the Speaker throws.                                     *)
RecoveryThrows ==
  /\ boot = "recovering"
  /\ recovering # {}
  /\ faults < MaxFaults
  /\ faults' = faults + 1
  /\ FailBoot
  /\ UNCHANGED <<store, waking, flueVars, bound, crashes>>

(* brainReady is set; the boot awaits a wake of its own.                   *)
BootSweeps ==
  /\ boot = "recovering"
  /\ recovering = {}
  /\ boot' = "sweeping"
  /\ UNCHANGED <<store, recovering, wakeCall, flueVars, envVars>>

-----------------------------------------------------------------------------
(* Turns of the Brain agent on the head of the lane.                       *)

Running == turn = "running"
This    == Head(lane)
ReceiptComing == IF waking = None THEN FALSE ELSE waking.batch = This

TurnStarts ==
  /\ turn = "idle"
  /\ lane # <<>>
  /\ turn' = "running"
  /\ UNCHANGED <<store, bootVars, wakeCall, lane, sent, envVars>>

(* prompt_speaker and stay_silent, as far as the durable row.              *)
TurnRecords ==
  /\ Running
  /\ ToolsUp
  /\ \/ \E p \in Prompt : bound /\ RecordPrompt(This, p)
     \/ \E q \in Silence : RecordSilence(This, q)
  /\ UNCHANGED <<bootVars, wakeCall, flueVars, envVars>>

(* schedule_wake, with or without the wake it replaces, which may be the   *)
(* one it asks for again.                                                  *)
TurnSchedules ==
  /\ Running
  /\ ToolsUp
  /\ \E reason \in Reason, dueAt \in Due, p \in scheduled \cup {None} :
       ScheduleWake(This, reason, dueAt, p)
  /\ UNCHANGED <<bootVars, wakeCall, flueVars, envVars>>

(* prompt_speaker: the Speaker's lane has admitted the Directive.          *)
TurnDelivers(p) ==
  /\ Running
  /\ ToolsUp
  /\ bound
  /\ effect[<<This, p>>] = "pending"
  /\ MarkPromptAccepted(This, p)
  /\ UNCHANGED <<bootVars, wakeCall, flueVars, envVars>>

(* settle_brain_batch, which wakes the Brain for its next Batch.           *)
TurnSettles ==
  /\ Running
  /\ ToolsUp
  /\ SettleBatch(This)
  /\ CallWake
  /\ UNCHANGED <<bootVars, waking, flueVars, envVars>>

(* brainGraphContext asks for the current Batch with claimBatch, which     *)
(* claims a new one when none is open; the tool then throws, because it    *)
(* has no receipt. With an open Batch it changes nothing.                  *)
TurnReadsGraph ==
  /\ Running
  /\ ToolsUp
  /\ created # Batch
  /\ ClaimBatch(FreshBatch)
  /\ UNCHANGED <<bootVars, wakeCall, flueVars, envVars>>

(* The turn ends when its Batch has settled, or when its tools throw: they *)
(* are not configured, its Batch has no receipt and none is on its way, or *)
(* a prompt it recorded addresses a Surface retired since.                 *)
TurnEnds ==
  /\ Running
  /\ \/ ~ ToolsUp
     \/ ~ MayRecord(This) /\ ~ ReceiptComing
     \/ ~ bound /\ HasPending(This)
  /\ lane' = Tail(lane)
  /\ turn' = "idle"
  /\ UNCHANGED <<store, bootVars, wakeCall, sent, envVars>>

-----------------------------------------------------------------------------
(* The environment.                                                        *)

(* reloadManagedChats retires the Surface of a chat no longer managed.     *)
RetireSurface ==
  /\ Retirable
  /\ bound
  /\ bound' = FALSE
  /\ UNCHANGED <<store, bootVars, wakeCall, flueVars, crashes, faults>>

(* The process dies, in whatever state, and starts again.                  *)
Crash ==
  /\ crashes < MaxCrashes
  /\ crashes' = crashes + 1
  /\ boot' = "starting"
  /\ recovering' = {}
  /\ wakes' = 0
  /\ waking' = None
  /\ turn' = "idle"
  /\ UNCHANGED <<store, lane, sent, bound, faults>>

LoopTick == Tick /\ UNCHANGED <<bootVars, wakeCall, flueVars, envVars>>

Arrivals ==
  \/ \E d \in Delta : AdmitDelta(d)
  \/ \E i \in Intent : EscalateIntent(i)
  \/ \E e \in Event : AdmitEvent(e)

WakeStep ==
  \/ \E by \in {"boot", "caller"} : WakeFindsNothing(by) \/ WakeClaims(by)
  \/ FlueAdmits
  \/ WakeMarks
  \/ ReceiptLost

BootStep ==
  \/ Configure
  \/ BeginRecovery
  \/ \E e \in Batch \X Prompt : RecoverPrompt(e)
  \/ BootSweeps

TurnStep ==
  \/ TurnStarts
  \/ TurnRecords
  \/ TurnSchedules
  \/ \E p \in Prompt : TurnDelivers(p)
  \/ TurnSettles
  \/ TurnReadsGraph
  \/ TurnEnds

Trouble == WakeThrows \/ RecoveryThrows \/ RetireSurface \/ Crash

LoopNext ==
  Arrivals \/ ClockTick \/ WakeStep \/ BootStep \/ TurnStep \/ Trouble \/ LoopTick

(* The event loop runs what is runnable, the setInterval of the clock      *)
(* fires, and an agent's turn ends; nothing else has to happen.            *)
Fairness ==
  /\ WF_loopVars(WakeStep)
  /\ WF_loopVars(BootStep)
  /\ WF_loopVars(TurnStep)
  /\ WF_loopVars(ClockTick)

LoopSpec == LoopInit /\ [][LoopNext]_loopVars /\ Fairness

-----------------------------------------------------------------------------
(* Properties.                                                             *)

(* The volatile and durable state around the store has its types, and a    *)
(* wake in flight holds a Batch that exists.                               *)
LoopTypeOK ==
  /\ boot \in BootPhase
  /\ recovering \subseteq Batch \X Prompt
  /\ wakes \in 0..MaxWakes
  /\ waking # None =>
       waking \in [batch : created, admitted : BOOLEAN, by : {"boot", "caller"}]
  /\ lane \in Seq(created)
  /\ turn = "running" => lane # <<>>
  /\ sent \in [Batch -> Nat]

(* A Batch whose receipt is recorded, that is not settled and that no      *)
(* submission will ever work on again: claimBatch returns it to every wake *)
(* and every wake leaves it alone.                                         *)
Wedged == \E b \in OpenBatches \cap dispatched : \A k \in DOMAIN lane : lane[k] # b

Withdrawn(i) == i \in cancelled /\ assigned[i] = None

(* Every admitted input is settled in some Batch, whichever wakes were     *)
(* lost, thrown or suppressed, unless a Batch is wedged or the runtime has *)
(* failed for good, or the input is a Scheduled Wake that a turn cancelled *)
(* before a Batch took it. The clock is what makes this true: it retries a *)
(* Batch that was claimed and never submitted.                             *)
LoopProgress ==
  \A i \in Input :
    [](i \in Ready =>
         <>(assigned[i] \in settled \/ Withdrawn(i) \/ Wedged \/ [](boot = "failed")))

(* A Batch is submitted once, and once more for every crash or failed      *)
(* dispatch at most: concurrent wakes never submit it twice.               *)
DuplicatesBounded == \A b \in Batch : sent[b] <= 1 + crashes + faults

(* A second submission of a Batch that has settled is inert: its turn      *)
(* records no Effect and delivers none.                                    *)
SettledBatchesFrozen ==
  [][\A b \in settled, x \in Payload : effect'[<<b, x>>] = effect[<<b, x>>]]_loopVars

(* The comment in whatsapp-runtime.ts says that waking is gated on         *)
(* brainReady, because a Batch dispatched before its tools exist would     *)
(* never be dispatched again. The Scribe's wake is not gated, and after a  *)
(* crash Flue resumes a turn before the gate opens.                        *)
NeverWedged == ~ Wedged
=============================================================================
