----------------------------- MODULE BrainInbox -----------------------------
(***************************************************************************)
(* The durable up-inbox of the one global Brain: the inputs admitted to    *)
(* it, the immutable Batches they are claimed into, the Effects and        *)
(* Specialist launches a Batch records, and its settlement                 *)
(* (packages/engine/src/brain/inbox.ts).                                   *)
(*                                                                         *)
(* Every method of the store is one synchronous SQLite transaction of one  *)
(* process, so every method is one action here. A call that throws rolls   *)
(* back and changes nothing: it is a stuttering step and has no action.    *)
(* All the state is on disk, so a crash between two calls is invisible to  *)
(* this module, and Next lets the callers come in any order. BrainLoop     *)
(* composes the store with its callers.                                    *)
(*                                                                         *)
(* Abstractions. Content-addressed ids are the tuples they hash. A Batch   *)
(* id hashes the inputs it claims, which no other Batch holds, so it is a  *)
(* fresh element of Batch. Evidence ids, wording and outcomes that no      *)
(* guard reads are left out. Timestamps are a clock that never runs        *)
(* backwards; inputs admitted at one instant may be claimed in any order,  *)
(* where the code breaks the tie by kind and row number.                   *)
(*                                                                         *)
(* Some operators stand next to a faulty variant of themselves, named for  *)
(* its fault (MayRecordEvenIfSettled, ClaimIntoOpenBatch, ...). Nothing    *)
(* uses a variant: each is a plausible bug one of the properties excludes. *)
(***************************************************************************)
EXTENDS Naturals, FiniteSets

CONSTANTS
  Intent,    \* Speaker Intents that may be admitted
  Delta,     \* Knowledge Deltas that may be admitted
  Event,     \* GitHub events that may be admitted
  Surface,   \* conversation Surfaces
  SurfaceOf, \* the source Surface of each Intent
  Batch,     \* Brain Batch ids (bounds the number of Batches)
  Job,       \* Specialist name and input of a launch
  Run,       \* Flue workflow run ids
  Prompt,    \* payloads of prompt_speaker Effects
  Filing,    \* payloads of file_issue Effects
  Mutation,  \* payloads of issue_mutation Effects
  Target,    \* the comment a mutation edits or deletes, None for other kinds
  Comment,   \* GitHub comment ids
  Silence,   \* payloads of stay_silent Effects
  Reason,    \* reasons of Scheduled Wakes
  MaxTime,   \* bounds the clock
  Due,       \* due times that are asked for
  Limit,     \* most inputs one Batch claims (50 in the code)
  None       \* a NULL column

Time == 0..MaxTime

(* Rows that become inputs, under the identity the code gives them. *)
Draft == Intent \cup Delta \cup Event
Work  == Batch \X Surface \X Job          \* brain-work:(batch, surface, specialist and input)
Wake  == Batch \X Reason \X Due           \* scheduled-wake:(batch, reason, dueAt)
Sweep == {"sweep"} \X Time                \* proactive-sweep:(admission instant)
Input == Draft \cup Work \cup Wake \cup Sweep   \* Work stands for its one Specialist result

Payload == Prompt \cup Filing \cup Mutation \cup Silence
Effect  == Batch \X Payload               \* brain-effect:(batch, kind, payload)

BatchOf(row) == row[1]                    \* of a Work, a Wake or an Effect
DueAt(w)     == w[3]

ASSUME InboxConstants ==
  /\ SurfaceOf \in [Intent -> Surface]
  /\ Target \in [Mutation -> Comment \cup {None}]
  /\ MaxTime \in Nat
  /\ Due \subseteq Nat
  /\ Limit \in Nat \ {0}
  /\ None \notin Batch \cup Run \cup Comment \cup Nat

(* The rows of different tables, and the Effects of different kinds, are    *)
(* different rows.                                                          *)
ASSUME InboxDisjoint ==
  /\ Work \cap (Draft \cup Wake \cup Sweep) = {}
  /\ Wake \cap (Draft \cup Sweep) = {}
  /\ Sweep \cap Draft = {}
  /\ Intent \cap (Delta \cup Event) = {}
  /\ Delta \cap Event = {}
  /\ Prompt \cap (Filing \cup Mutation \cup Silence) = {}
  /\ Filing \cap (Mutation \cup Silence) = {}
  /\ Mutation \cap Silence = {}

(* What TLC enumerates and SQLite stores is finite.                         *)
ASSUME InboxFinite == IsFiniteSet(Input)

VARIABLES
  now,        \* the clock the store reads
  admittedAt, \* admitted_at of each input, None before its admission
  assigned,   \* batch_id of each input, None while it is unclaimed
  scheduled,  \* the rows of brain_scheduled_wakes of kind 'scheduled'
  cancelled,  \* those of them whose cancelled_at is set
  created,    \* the rows of brain_batches
  dispatched, \* those whose dispatch_id is set
  settled,    \* those whose settled_at is set
  effect,     \* status of each row of brain_effects but those of wakes
  commentOf,  \* the comment id in the outcome of a completed mutation
  launch,     \* status of each row of brain_specialist_launches
  runOf       \* its run_id

inputVars == <<admittedAt, assigned>>
wakeVars  == <<scheduled, cancelled>>
batchVars == <<created, dispatched, settled>>
effVars   == <<effect, commentOf>>
workVars  == <<launch, runOf>>
vars == <<now, inputVars, wakeVars, batchVars, effVars, workVars>>

Init ==
  /\ now = 0
  /\ admittedAt = [i \in Input |-> None]
  /\ assigned = [i \in Input |-> None]
  /\ scheduled = {}
  /\ cancelled = {}
  /\ created = {}
  /\ dispatched = {}
  /\ settled = {}
  /\ effect = [e \in Effect |-> "absent"]
  /\ commentOf = [e \in Batch \X Mutation |-> None]
  /\ launch = [w \in Work |-> "absent"]
  /\ runOf = [w \in Work |-> None]

-----------------------------------------------------------------------------
(* The queries the operations share.                                       *)

(* INSERT OR IGNORE of a row, and an UPDATE guarded by its status.         *)
InsertOrIgnore(status, new) == IF status = "absent" THEN new ELSE status
Promote(status, new) == IF status = "pending" THEN new ELSE status

(* selectOpenBatch: a Batch is open until it settles, dispatched or not.   *)
OpenBatches == created \ settled

(* selectOpenBatchById and the dispatch_id test every recording repeats.   *)
MayRecordEvenIfSettled(b) == b \in dispatched
MayRecord(b) == b \in dispatched \ settled

(* selectReadyInputIds.                                                    *)
ReadyEvenIfClaimed == {i \in Input : admittedAt[i] # None /\ i \notin cancelled}
Ready == {i \in Input : admittedAt[i] # None /\ assigned[i] = None /\ i \notin cancelled}

(* ORDER BY admitted_at ... LIMIT: what a claim of `chosen` takes.          *)
AnyOf(chosen) ==
  /\ chosen \subseteq Ready
  /\ Cardinality(chosen) = IF Cardinality(Ready) < Limit THEN Cardinality(Ready) ELSE Limit
OldestOf(chosen) ==
  /\ chosen \subseteq Ready
  /\ Cardinality(chosen) = IF Cardinality(Ready) < Limit THEN Cardinality(Ready) ELSE Limit
  /\ \A i \in chosen, j \in Ready \ chosen : admittedAt[i] <= admittedAt[j]

(* outstandingSweepCount: from admission until the sweep's Batch settles.  *)
OutstandingSweeps == {s \in Sweep : admittedAt[s] # None /\ assigned[s] \notin settled}

(* admitDueScheduledWakes.                                                 *)
WakesDueOrNot == {w \in scheduled : admittedAt[w] = None /\ w \notin cancelled}
DueWakes == {w \in scheduled : /\ admittedAt[w] = None
                               /\ w \notin cancelled
                               /\ DueAt(w) <= now}

(* A Surface is provenance for a Batch that holds an Intent of it.         *)
IntentProvenance(b, s) == \E i \in Intent : SurfaceOf[i] = s /\ assigned[i] = b
(* Explicit launch evidence cites an Intent's evidence or a GitHub event   *)
(* of the Batch itself.                                                    *)
EvidenceProvenance(b) == \E i \in Intent \cup Event : assigned[i] = b

(* Comments an earlier completed create-comment mutation recorded.         *)
AuthoredComments ==
  {commentOf[e] : e \in {x \in Batch \X Mutation : effect[x] = "completed"}} \ {None}

(* What a Batch owes: Effects, launches and the wakes it scheduled, whose  *)
(* completed Effect row commits in the same transaction.                   *)
HasConsequence(b) ==
  \/ \E x \in Payload : effect[<<b, x>>] # "absent"
  \/ \E w \in Work : BatchOf(w) = b /\ launch[w] # "absent"
  \/ \E w \in scheduled : BatchOf(w) = b
HasPending(b) ==
  \/ \E x \in Payload : effect[<<b, x>>] = "pending"
  \/ \E w \in Work : BatchOf(w) = b /\ launch[w] = "pending"

-----------------------------------------------------------------------------
(* Admission.                                                              *)

(* admitIntent, admitKnowledgeDelta, admitGitHubEvent. Identity is the     *)
(* draft's meaning, so a retry finds the row and changes nothing.          *)
AdmitDraft(i) ==
  /\ admittedAt' = [admittedAt EXCEPT ![i] = IF @ = None THEN now ELSE @]
  /\ UNCHANGED <<now, assigned, wakeVars, batchVars, effVars, workVars>>

(* admitSpecialistResult: only for the run the launch was accepted with.   *)
AdmitSpecialistResult(w) ==
  /\ launch[w] = "accepted"
  /\ admittedAt' = [admittedAt EXCEPT ![w] = IF @ = None THEN now ELSE @]
  /\ UNCHANGED <<now, assigned, wakeVars, batchVars, effVars, workVars>>

(* scheduleWake, as the schedule_wake tool calls it: a predecessor, when   *)
(* named, is the id of a Scheduled Wake. The cancellation and the          *)
(* INSERT OR IGNORE of the wake and its Effect commit together.            *)
ScheduleWake(b, reason, dueAt, predecessor) ==
  /\ MayRecord(b)
  /\ predecessor # None => predecessor \in scheduled
  /\ cancelled' = cancelled \cup ({predecessor} \ {None})
  /\ scheduled' = scheduled \cup {<<b, reason, dueAt>>}
  /\ UNCHANGED <<now, inputVars, batchVars, effVars, workVars>>

(* runProactiveClock: one coalesced sweep, then every due wake.            *)
SweepUnlessOneIsUnclaimed ==
  LET swept == IF \E s \in Sweep : admittedAt[s] # None /\ assigned[s] = None
               THEN {} ELSE {<<"sweep", now>>}
  IN  /\ admittedAt' = [i \in Input |-> IF i \in swept \cup DueWakes /\ admittedAt[i] = None
                                        THEN now ELSE admittedAt[i]]
      /\ UNCHANGED <<now, assigned, wakeVars, batchVars, effVars, workVars>>
RunProactiveClock ==
  LET swept == IF OutstandingSweeps = {} THEN {<<"sweep", now>>} ELSE {}
  IN  /\ admittedAt' = [i \in Input |-> IF i \in swept \cup DueWakes /\ admittedAt[i] = None
                                        THEN now ELSE admittedAt[i]]
      /\ UNCHANGED <<now, assigned, wakeVars, batchVars, effVars, workVars>>

-----------------------------------------------------------------------------
(* Batches.                                                                *)

(* claimBatch: an open Batch is returned as it is; otherwise the oldest    *)
(* ready inputs become an immutable Batch in one transaction.              *)
ClaimIntoOpenBatch(b) ==
  /\ OpenBatches \subseteq {b}
  /\ b \notin settled
  /\ \E chosen \in SUBSET Ready :
       /\ OldestOf(chosen)
       /\ assigned' = [i \in Input |-> IF i \in chosen THEN b ELSE assigned[i]]
  /\ created' = created \cup {b}
  /\ UNCHANGED <<now, admittedAt, wakeVars, dispatched, settled, effVars, workVars>>
ClaimBatch(b) ==
  /\ OpenBatches = {}
  /\ b \notin created
  /\ Ready # {}
  /\ \E chosen \in SUBSET Ready :
       /\ OldestOf(chosen)
       /\ assigned' = [i \in Input |-> IF i \in chosen THEN b ELSE assigned[i]]
  /\ created' = created \cup {b}
  /\ UNCHANGED <<now, admittedAt, wakeVars, dispatched, settled, effVars, workVars>>

(* markBatchDispatched: the first receipt stands.                          *)
MarkBatchDispatched(b) ==
  /\ b \in created
  /\ dispatched' = dispatched \cup {b}
  /\ UNCHANGED <<now, inputVars, wakeVars, created, settled, effVars, workVars>>

(* settleBatch: something durable was recorded and nothing is pending.     *)
(* A repeated settlement returns the first.                                *)
SettleWithPendingWork(b) ==
  /\ b \in created \ settled
  /\ HasConsequence(b)
  /\ \A x \in Payload : effect[<<b, x>>] # "pending"
  /\ settled' = settled \cup {b}
  /\ UNCHANGED <<now, inputVars, wakeVars, created, dispatched, effVars, workVars>>
SettleBatch(b) ==
  /\ b \in created \ settled
  /\ HasConsequence(b)
  /\ ~ HasPending(b)
  /\ settled' = settled \cup {b}
  /\ UNCHANGED <<now, inputVars, wakeVars, created, dispatched, effVars, workVars>>

-----------------------------------------------------------------------------
(* Effects. Record before the asynchronous delivery, complete after it.    *)

SetEffect(b, x, status) ==
  /\ effect' = [effect EXCEPT ![<<b, x>>] = status]
  /\ UNCHANGED <<now, inputVars, wakeVars, batchVars, commentOf, workVars>>

(* recordPrompt, for a Surface with an active provider binding.            *)
RecordPrompt(b, p) ==
  /\ MayRecord(b)
  /\ SetEffect(b, p, InsertOrIgnore(effect[<<b, p>>], "pending"))

(* markPromptAccepted, with the Speaker's Flue receipt.                    *)
MarkPromptAccepted(b, p) ==
  /\ effect[<<b, p>>] # "absent"
  /\ SetEffect(b, p, Promote(effect[<<b, p>>], "accepted"))

(* recordSilence: completed as it is recorded.                             *)
RecordSilence(b, q) ==
  /\ MayRecord(b)
  /\ SetEffect(b, q, InsertOrIgnore(effect[<<b, q>>], "completed"))

(* recordIssueFiling, then completeIssueFiling with its outcome.           *)
RecordIssueFiling(b, f, s) ==
  /\ MayRecord(b)
  /\ IntentProvenance(b, s)
  /\ SetEffect(b, f, InsertOrIgnore(effect[<<b, f>>], "pending"))
CompleteIssueFiling(b, f) ==
  /\ effect[<<b, f>>] # "absent"
  /\ SetEffect(b, f, Promote(effect[<<b, f>>], "completed"))

(* recordIssueMutation: an edit or a deletion names a comment the Brain    *)
(* recorded creating.                                                      *)
RecordAnyMutation(b, m, s) ==
  /\ MayRecord(b)
  /\ IntentProvenance(b, s)
  /\ SetEffect(b, m, InsertOrIgnore(effect[<<b, m>>], "pending"))
RecordIssueMutation(b, m, s) ==
  /\ MayRecord(b)
  /\ IntentProvenance(b, s)
  /\ Target[m] # None => Target[m] \in AuthoredComments
  /\ SetEffect(b, m, InsertOrIgnore(effect[<<b, m>>], "pending"))

(* completeIssueMutation. Only a create-comment reports a comment of its   *)
(* own, and GitHub gives every created comment an id of its own; c is None *)
(* when the outcome carries none.                                          *)
CompleteIssueMutation(b, m, c) ==
  LET pending == effect[<<b, m>>] = "pending"
  IN  /\ effect[<<b, m>>] # "absent"
      /\ c # None => Target[m] = None /\ c \notin AuthoredComments
      /\ effect' = [effect EXCEPT ![<<b, m>>] = Promote(@, "completed")]
      /\ commentOf' = [commentOf EXCEPT ![<<b, m>>] = IF pending THEN c ELSE @]
      /\ UNCHANGED <<now, inputVars, wakeVars, batchVars, workVars>>

-----------------------------------------------------------------------------
(* Specialist launches.                                                    *)

(* reserveSpecialistLaunch: durable before any Flue run exists.            *)
ReserveSpecialistLaunch(w) ==
  /\ MayRecord(BatchOf(w))
  /\ IntentProvenance(BatchOf(w), w[2]) \/ EvidenceProvenance(BatchOf(w))
  /\ launch' = [launch EXCEPT ![w] = InsertOrIgnore(@, "pending")]
  /\ UNCHANGED <<now, inputVars, wakeVars, batchVars, effVars, runOf>>

(* markSpecialistLaunchAccepted: one run per launch, one launch per run.   *)
MarkSpecialistLaunchAccepted(w, r) ==
  /\ launch[w] # "absent"
  /\ runOf[w] \in {None, r}
  /\ \A v \in Work \ {w} : runOf[v] # r
  /\ launch' = [launch EXCEPT ![w] = Promote(@, "accepted")]
  /\ runOf' = [runOf EXCEPT ![w] = IF launch[w] = "pending" THEN r ELSE @]
  /\ UNCHANGED <<now, inputVars, wakeVars, batchVars, effVars>>

-----------------------------------------------------------------------------
(* The clock. Bound: MaxTime.                                              *)
Tick ==
  /\ now < MaxTime
  /\ now' = now + 1
  /\ UNCHANGED <<inputVars, wakeVars, batchVars, effVars, workVars>>

Admission ==
  \/ \E i \in Draft : AdmitDraft(i)
  \/ \E w \in Work : AdmitSpecialistResult(w)
  \/ RunProactiveClock

Batching ==
  \E b \in Batch : ClaimBatch(b) \/ MarkBatchDispatched(b) \/ SettleBatch(b)

Recording ==
  \E b \in Batch :
    \/ \E p \in Prompt : RecordPrompt(b, p) \/ MarkPromptAccepted(b, p)
    \/ \E q \in Silence : RecordSilence(b, q)
    \/ \E f \in Filing : CompleteIssueFiling(b, f)
    \/ \E f \in Filing, s \in Surface : RecordIssueFiling(b, f, s)
    \/ \E m \in Mutation, s \in Surface : RecordIssueMutation(b, m, s)
    \/ \E m \in Mutation, c \in Comment \cup {None} : CompleteIssueMutation(b, m, c)
    \/ \E reason \in Reason, dueAt \in Due, p \in scheduled \cup {None} :
         ScheduleWake(b, reason, dueAt, p)

Launching ==
  \E w \in Work :
    \/ ReserveSpecialistLaunch(w)
    \/ \E r \in Run : MarkSpecialistLaunchAccepted(w, r)

Next == Tick \/ Admission \/ Batching \/ Recording \/ Launching

Spec == Init /\ [][Next]_vars

-----------------------------------------------------------------------------
(* Properties.                                                             *)

StatusOf(x) ==
  CASE x \in Prompt  -> {"absent", "pending", "accepted"}
    [] x \in Silence -> {"absent", "completed"}
    [] OTHER         -> {"absent", "pending", "completed"}

(* Every Effect is in a status its kind has, so hydrateEffect never reads  *)
(* a combination it does not expect; the other columns have their types.   *)
TypeOK ==
  /\ now \in Time
  /\ admittedAt \in [Input -> Time \cup {None}]
  /\ assigned \in [Input -> Batch \cup {None}]
  /\ scheduled \subseteq Wake
  /\ cancelled \subseteq scheduled
  /\ created \subseteq Batch
  /\ dispatched \subseteq created
  /\ settled \subseteq created
  /\ effect \in [Effect -> {"absent", "pending", "accepted", "completed"}]
  /\ \A e \in Effect : effect[e] \in StatusOf(e[2])
  /\ commentOf \in [Batch \X Mutation -> Comment \cup {None}]
  /\ launch \in [Work -> {"absent", "pending", "accepted"}]
  /\ runOf \in [Work -> Run \cup {None}]

(* Who owns what: a claimed input was admitted and its Batch exists; an    *)
(* Effect, a launch and a wake belong to a Batch that was dispatched; a    *)
(* Specialist result has its launch and an admitted wake its schedule.     *)
Ownership ==
  /\ \A i \in Input : assigned[i] # None => assigned[i] \in created /\ admittedAt[i] # None
  /\ \A b \in Batch, x \in Payload : effect[<<b, x>>] # "absent" => b \in dispatched
  /\ \A w \in Work : launch[w] # "absent" => BatchOf(w) \in dispatched
  /\ \A w \in Work : admittedAt[w] # None => launch[w] # "absent"
  /\ \A w \in scheduled : BatchOf(w) \in dispatched
  /\ \A w \in Wake : admittedAt[w] # None => w \in scheduled

(* The Brain is one serial agent: whatever the order of claims, receipts   *)
(* and settlements, at most one Batch is open.                             *)
OneOpenBatch == \A b, c \in OpenBatches : b = c

(* A settled Batch was dispatched, has a durable consequence, and owes     *)
(* nothing, now or later: no Effect or launch is added or left pending     *)
(* behind a settlement.                                                    *)
SettledBatchesClean ==
  \A b \in settled : b \in dispatched /\ HasConsequence(b) /\ ~ HasPending(b)

(* A Batch is immutable and an input is consumed once: the inputs of a     *)
(* Batch never change after the claim that made it, whatever is admitted   *)
(* again, retried or rescheduled meanwhile.                                *)
Members(b) == {i \in Input : assigned[i] = b}
BatchesImmutable == [][\A b \in created : Members(b)' = Members(b)]_vars

(* First in, first out: a claim never takes an input and leaves behind one *)
(* that was ready and admitted strictly earlier, so nothing starves behind *)
(* a Batch of Limit newer inputs.                                          *)
NoOvertaking ==
  [][\A i, j \in Ready :
       assigned'[i] # None /\ assigned'[j] = None /\ j \notin cancelled'
         => admittedAt[i] <= admittedAt[j]]_vars

(* The Brain's own consequences come back to it in a later Batch: neither  *)
(* a Specialist result nor a wake is an input of the Batch that asked for  *)
(* it.                                                                     *)
NoSelfFeeding == \A x \in Work \cup Wake : assigned[x] # BatchOf(x)

(* A wake fires at its due time or later, and one cancelled before it was  *)
(* claimed is never claimed: the old wake never fires beside its           *)
(* replacement.                                                            *)
WakesFireAsScheduled ==
  [][\A w \in Wake :
       /\ admittedAt'[w] # admittedAt[w] => w \in scheduled \ cancelled /\ DueAt(w) <= now
       /\ assigned'[w] # assigned[w] => w \in scheduled \ cancelled]_vars

(* Sweeps coalesce: however often the clock runs, and in whatever Batch    *)
(* the last sweep is, one Proactive Sweep at most is outstanding.          *)
OneOutstandingSweep == \A s, t \in OutstandingSweeps : s = t

(* GitHub is written only on behalf of a conversation: a Batch that files  *)
(* or mutates an issue holds an Intent admitted before the Batch.          *)
WritesHaveProvenance ==
  \A b \in Batch, x \in Filing \cup Mutation :
    effect[<<b, x>>] # "absent" => \E i \in Intent : assigned[i] = b

(* A comment is edited or deleted only if an earlier, completed mutation   *)
(* of the Brain created it.                                                *)
EditsOwnComments ==
  \A b \in Batch, m \in Mutation :
    effect[<<b, m>>] # "absent" /\ Target[m] # None => Target[m] \in AuthoredComments

(* The store implements the abstract frontier: an input moves from ready   *)
(* to claimed to consumed once, only through a whole Batch, and a cancelled *)
(* wake is withdrawn.                                                      *)
PhaseOf(i) ==
  IF assigned[i] # None THEN IF assigned[i] \in settled THEN "consumed" ELSE "claimed"
  ELSE IF i \in cancelled THEN "withdrawn"
  ELSE IF admittedAt[i] # None THEN "ready" ELSE "absent"

Frontier == INSTANCE BrainFrontier WITH phase <- [i \in Input |-> PhaseOf(i)]

ImplementsFrontier == Frontier!Spec

(* Both together: whatever is written to GitHub traces back to somebody's  *)
(* Intent and never touches what others wrote.                             *)
WriteProvenance == WritesHaveProvenance /\ EditsOwnComments
=============================================================================
