------------------------------ MODULE BrainProofs ------------------------------
(***************************************************************************)
(* The properties of BrainInbox, and of BrainLoop above it, for every      *)
(* value of their constants: any store, any number of crashes and failing  *)
(* dispatches.                                                             *)
(*                                                                         *)
(* OneOpenBatch, SettledBatchesClean and NoSelfFeeding are not inductive   *)
(* by themselves: they need Ownership, which ties every row to a           *)
(* dispatched Batch, so that a fresh Batch owns nothing and a settled one  *)
(* can gain nothing. BrainInv is their conjunction. Every step of the loop *)
(* is a step of BrainInbox or leaves the store alone, so all of it holds   *)
(* of the store between the loop's callers as well.                        *)
(*                                                                         *)
(* Then the credential the Brain's model runs on, for any number of        *)
(* processes, calls, deaths, aborted signals and leases that run out. The  *)
(* argument is about the call in charge: the one whose process and whose   *)
(* lease let it work. There is one at most (OneInCharge), what it has read *)
(* is what the store holds (Current), and a call that lost its lease works *)
(* with a credential that has slipped (Displaced). A token that was        *)
(* presented and has not slipped is either no longer in the store, or held *)
(* by the call in charge on its way to an end (Once).                      *)
(***************************************************************************)
EXTENDS BrainLoop, ModelCredential, FiniteSetTheorems, TLAPS

BrainInv ==
  /\ TypeOK
  /\ Ownership
  /\ OneOpenBatch
  /\ SettledBatchesClean
  /\ NoSelfFeeding
  /\ OneOutstandingSweep
  /\ WritesHaveProvenance
  /\ EditsOwnComments

-----------------------------------------------------------------------------
(* Type correctness.                                                       *)

LEMMA InitTypeOK == Init => TypeOK
<1> SUFFICES ASSUME Init PROVE TypeOK
    OBVIOUS
<1>1. \A e \in Effect : effect[e] \in StatusOf(e[2])
    BY DEF Init, StatusOf, Effect
<1> QED
    BY <1>1, InboxConstants DEF Init, TypeOK, Time

(* Recording an Effect in a status its kind has keeps the types.           *)
LEMMA SetEffectTypeOK ==
  ASSUME TypeOK, NEW b \in Batch, NEW x \in Payload, NEW status \in StatusOf(x),
         SetEffect(b, x, status)
  PROVE  TypeOK'
<1>1. status \in {"absent", "pending", "accepted", "completed"}
    BY DEF StatusOf
<1>2. <<b, x>> \in Effect
    BY DEF Effect
<1>3. effect' \in [Effect -> {"absent", "pending", "accepted", "completed"}]
    BY <1>1, <1>2 DEF SetEffect, TypeOK
<1>4. \A e \in Effect : effect'[e] \in StatusOf(e[2])
  <2> TAKE e \in Effect
  <2>1. CASE e = <<b, x>>
      BY <2>1, <1>2 DEF SetEffect, TypeOK
  <2>2. CASE e # <<b, x>>
      BY <2>2, <1>2 DEF SetEffect, TypeOK
  <2> QED
      BY <2>1, <2>2
<1> QED
    BY <1>3, <1>4 DEF SetEffect, TypeOK, inputVars, wakeVars, batchVars, workVars

LEMMA AdmissionTypeOK == TypeOK /\ Admission => TypeOK'
<1> SUFFICES ASSUME TypeOK, Admission PROVE TypeOK'
    OBVIOUS
<1> USE DEF Time
<1>1. CASE \E i \in Draft : AdmitDraft(i)
    BY <1>1 DEF AdmitDraft, TypeOK, Input, wakeVars, batchVars, effVars, workVars
<1>2. CASE \E w \in Work : AdmitSpecialistResult(w)
    BY <1>2 DEF AdmitSpecialistResult, TypeOK, Input, wakeVars, batchVars, effVars, workVars
<1>3. CASE RunProactiveClock
    BY <1>3 DEF RunProactiveClock, TypeOK, wakeVars, batchVars, effVars, workVars
<1> QED
    BY <1>1, <1>2, <1>3 DEF Admission

LEMMA BatchingTypeOK == TypeOK /\ Batching => TypeOK'
<1> SUFFICES ASSUME TypeOK, NEW b \in Batch,
                    ClaimBatch(b) \/ MarkBatchDispatched(b) \/ SettleBatch(b)
             PROVE  TypeOK'
    BY DEF Batching
<1>1. CASE ClaimBatch(b)
    BY <1>1 DEF ClaimBatch, TypeOK, wakeVars, effVars, workVars
<1>2. CASE MarkBatchDispatched(b)
    BY <1>2 DEF MarkBatchDispatched, TypeOK, inputVars, wakeVars, effVars, workVars
<1>3. CASE SettleBatch(b)
    BY <1>3 DEF SettleBatch, TypeOK, inputVars, wakeVars, effVars, workVars
<1> QED
    BY <1>1, <1>2, <1>3

LEMMA LaunchingTypeOK == TypeOK /\ Launching => TypeOK'
<1> SUFFICES ASSUME TypeOK, NEW w \in Work,
                    \/ ReserveSpecialistLaunch(w)
                    \/ \E r \in Run : MarkSpecialistLaunchAccepted(w, r)
             PROVE  TypeOK'
    BY DEF Launching
<1>1. CASE ReserveSpecialistLaunch(w)
    BY <1>1 DEF ReserveSpecialistLaunch, InsertOrIgnore, TypeOK,
                inputVars, wakeVars, batchVars, effVars
<1>2. CASE \E r \in Run : MarkSpecialistLaunchAccepted(w, r)
    BY <1>2 DEF MarkSpecialistLaunchAccepted, Promote, TypeOK,
                inputVars, wakeVars, batchVars, effVars
<1> QED
    BY <1>1, <1>2

LEMMA RecordingTypeOK == TypeOK /\ Recording => TypeOK'
<1> SUFFICES ASSUME TypeOK, Recording PROVE TypeOK'
    OBVIOUS
<1> USE InboxDisjoint DEF Payload
<1>1. ASSUME NEW b \in Batch, NEW x \in Payload
      PROVE  /\ effect[<<b, x>>] \in StatusOf(x)
             /\ effect' = effect /\ commentOf' = commentOf /\ UNCHANGED <<now, inputVars, wakeVars, batchVars, workVars>>
                  => TypeOK'
  <2>1. <<b, x>> \in Effect
      BY DEF Effect
  <2> QED
      BY <2>1 DEF TypeOK, inputVars, wakeVars, batchVars, workVars
<1>2. ASSUME NEW b \in Batch, NEW p \in Prompt, RecordPrompt(b, p) \/ MarkPromptAccepted(b, p)
      PROVE  TypeOK'
  <2>1. StatusOf(p) = {"absent", "pending", "accepted"}
      BY DEF StatusOf
  <2>2. \E status \in StatusOf(p) : SetEffect(b, p, status)
      BY <1>1, <1>2, <2>1 DEF RecordPrompt, MarkPromptAccepted, InsertOrIgnore, Promote
  <2> QED
      BY <2>2, SetEffectTypeOK
<1>3. ASSUME NEW b \in Batch, NEW q \in Silence, RecordSilence(b, q)
      PROVE  TypeOK'
  <2>1. StatusOf(q) = {"absent", "completed"}
      BY DEF StatusOf
  <2>2. \E status \in StatusOf(q) : SetEffect(b, q, status)
      BY <1>1, <1>3, <2>1 DEF RecordSilence, InsertOrIgnore
  <2> QED
      BY <2>2, SetEffectTypeOK
<1>4. ASSUME NEW b \in Batch, NEW f \in Filing,
             CompleteIssueFiling(b, f) \/ \E s \in Surface : RecordIssueFiling(b, f, s)
      PROVE  TypeOK'
  <2>1. StatusOf(f) = {"absent", "pending", "completed"}
      BY DEF StatusOf
  <2>2. \E status \in StatusOf(f) : SetEffect(b, f, status)
      BY <1>1, <1>4, <2>1 DEF RecordIssueFiling, CompleteIssueFiling, InsertOrIgnore, Promote
  <2> QED
      BY <2>2, SetEffectTypeOK
<1>5. ASSUME NEW b \in Batch, NEW m \in Mutation, NEW s \in Surface, RecordIssueMutation(b, m, s)
      PROVE  TypeOK'
  <2>1. StatusOf(m) = {"absent", "pending", "completed"}
      BY DEF StatusOf
  <2>2. \E status \in StatusOf(m) : SetEffect(b, m, status)
      BY <1>1, <1>5, <2>1 DEF RecordIssueMutation, InsertOrIgnore
  <2> QED
      BY <2>2, SetEffectTypeOK
<1>6. ASSUME NEW b \in Batch, NEW m \in Mutation, NEW c \in Comment \cup {None},
             CompleteIssueMutation(b, m, c)
      PROVE  TypeOK'
  <2>1. StatusOf(m) = {"absent", "pending", "completed"}
      BY DEF StatusOf
  <2>2. Promote(effect[<<b, m>>], "completed") \in StatusOf(m)
      BY <1>1, <2>1 DEF Promote
  <2>3. effect' \in [Effect -> {"absent", "pending", "accepted", "completed"}]
      BY <1>6, <2>1, <2>2 DEF CompleteIssueMutation, TypeOK
  <2>4. \A e \in Effect : effect'[e] \in StatusOf(e[2])
    <3> TAKE e \in Effect
    <3>1. CASE e = <<b, m>>
        BY <3>1, <1>6, <2>2 DEF CompleteIssueMutation, TypeOK
    <3>2. CASE e # <<b, m>>
        BY <3>2, <1>6 DEF CompleteIssueMutation, TypeOK
    <3> QED
        BY <3>1, <3>2
  <2>5. commentOf' \in [Batch \X Mutation -> Comment \cup {None}]
      BY <1>6 DEF CompleteIssueMutation, TypeOK
  <2> QED
      BY <1>6, <2>3, <2>4, <2>5
      DEF CompleteIssueMutation, TypeOK, inputVars, wakeVars, batchVars, workVars
<1>7. ASSUME NEW b \in Batch, NEW reason \in Reason, NEW dueAt \in Due,
             NEW p \in scheduled \cup {None}, ScheduleWake(b, reason, dueAt, p)
      PROVE  TypeOK'
    BY <1>7 DEF ScheduleWake, Wake, TypeOK, inputVars, batchVars, effVars, workVars
<1> QED
    BY <1>2, <1>3, <1>4, <1>5, <1>6, <1>7 DEF Recording

LEMMA NextTypeOK == TypeOK /\ [Next]_vars => TypeOK'
<1>1. TypeOK /\ Tick => TypeOK'
    BY InboxConstants DEF TypeOK, Tick, Time, inputVars, wakeVars, batchVars, effVars, workVars
<1>2. TypeOK /\ UNCHANGED vars => TypeOK'
    BY DEF TypeOK, vars, inputVars, wakeVars, batchVars, effVars, workVars
<1> QED
    BY <1>1, <1>2, AdmissionTypeOK, BatchingTypeOK, RecordingTypeOK, LaunchingTypeOK DEF Next

(* Every column of every table keeps its type, and every Effect a status   *)
(* its kind has.                                                           *)
THEOREM TypeCorrect == Spec => []TypeOK
    BY InitTypeOK, NextTypeOK, PTL DEF Spec

-----------------------------------------------------------------------------
(* What each group of actions may change, once for all the invariants.     *)

(* An admission stamps inputs that were not admitted before: a Specialist  *)
(* result whose launch was accepted, a wake that is due and live, the one  *)
(* sweep of this instant.                                                  *)
MayAdmit(i) ==
  /\ admittedAt[i] = None
  /\ i \in Work => launch[i] = "accepted"
  /\ i \in Wake => i \in scheduled \ cancelled /\ DueAt(i) <= now
  /\ i \in Sweep => i = <<"sweep", now>> /\ OutstandingSweeps = {}

LEMMA AdmissionStep ==
  ASSUME TypeOK, Admission
  PROVE  /\ UNCHANGED <<now, assigned, wakeVars, batchVars, effVars, workVars>>
         /\ \A i \in Input : admittedAt'[i] # admittedAt[i] => MayAdmit(i) /\ admittedAt'[i] = now
<1> USE InboxDisjoint DEF MayAdmit, Input, TypeOK
<1>1. CASE \E i \in Draft : AdmitDraft(i)
    BY <1>1 DEF AdmitDraft
<1>2. CASE \E w \in Work : AdmitSpecialistResult(w)
    BY <1>2 DEF AdmitSpecialistResult
<1>3. CASE RunProactiveClock
  <2>1. DueWakes \subseteq Wake
      BY DEF DueWakes
  <2>2. <<"sweep", now>> \in Sweep
      BY DEF Sweep
  <2> QED
      BY <1>3, <2>1, <2>2 DEF RunProactiveClock, DueWakes
<1> QED
    BY <1>1, <1>2, <1>3 DEF Admission

(* A recording adds Effects and wakes only to a Batch that is dispatched   *)
(* and open, GitHub writes only on provenance, and otherwise promotes      *)
(* pending Effects.                                                        *)
MayInsert(b, x) ==
  /\ effect[<<b, x>>] = "absent"
  /\ MayRecord(b)
  /\ x \in Filing \cup Mutation => \E s \in Surface : IntentProvenance(b, s)
  /\ x \in Mutation /\ Target[x] # None => Target[x] \in AuthoredComments

LEMMA RecordingStep ==
  ASSUME TypeOK, Recording
  PROVE  /\ UNCHANGED <<now, inputVars, batchVars, workVars>>
         /\ scheduled \subseteq scheduled'
         /\ \A w \in scheduled' \ scheduled : MayRecord(BatchOf(w))
         /\ cancelled \subseteq cancelled'
         /\ \A b \in Batch, x \in Payload : effect'[<<b, x>>] # effect[<<b, x>>] =>
              /\ effect'[<<b, x>>] # "absent"
              /\ \/ MayInsert(b, x)
                 \/ effect[<<b, x>>] = "pending" /\ effect'[<<b, x>>] # "pending"
         /\ \A e \in Batch \X Mutation : commentOf'[e] # commentOf[e] => effect[e] = "pending"
<1> DEFINE Goal ==
         /\ UNCHANGED <<now, inputVars, batchVars, workVars>>
         /\ scheduled \subseteq scheduled'
         /\ \A w \in scheduled' \ scheduled : MayRecord(BatchOf(w))
         /\ cancelled \subseteq cancelled'
         /\ \A b \in Batch, x \in Payload : effect'[<<b, x>>] # effect[<<b, x>>] =>
              /\ effect'[<<b, x>>] # "absent"
              /\ \/ MayInsert(b, x)
                 \/ effect[<<b, x>>] = "pending" /\ effect'[<<b, x>>] # "pending"
         /\ \A e \in Batch \X Mutation : commentOf'[e] # commentOf[e] => effect[e] = "pending"
<1> SUFFICES Goal
    OBVIOUS
<1> USE InboxDisjoint DEF Payload
<1>1. ASSUME NEW b \in Batch, NEW x \in Payload, NEW status,
             SetEffect(b, x, status),
             \/ status = effect[<<b, x>>]
             \/ MayInsert(b, x) /\ status # "absent"
             \/ effect[<<b, x>>] = "pending" /\ status \notin {"absent", "pending"}
      PROVE  Goal
  <2> SUFFICES ASSUME NEW c \in Batch, NEW y \in Payload, effect'[<<c, y>>] # effect[<<c, y>>]
               PROVE  /\ effect'[<<c, y>>] # "absent"
                      /\ \/ MayInsert(c, y)
                         \/ effect[<<c, y>>] = "pending" /\ effect'[<<c, y>>] # "pending"
      BY <1>1 DEF SetEffect, wakeVars
  <2>1. <<c, y>> \in Effect /\ <<b, x>> \in Effect
      BY DEF Effect
  <2>2. c = b /\ y = x /\ effect'[<<b, x>>] = status
      BY <1>1, <2>1 DEF SetEffect, TypeOK
  <2> QED
      BY <1>1, <2>2
<1>2. ASSUME NEW b \in Batch, NEW p \in Prompt, RecordPrompt(b, p) \/ MarkPromptAccepted(b, p)
      PROVE  Goal
    BY <1>1, <1>2 DEF RecordPrompt, MarkPromptAccepted, InsertOrIgnore, Promote, MayInsert
<1>3. ASSUME NEW b \in Batch, NEW q \in Silence, RecordSilence(b, q)
      PROVE  Goal
    BY <1>1, <1>3 DEF RecordSilence, InsertOrIgnore, MayInsert
<1>4. ASSUME NEW b \in Batch, NEW f \in Filing,
             CompleteIssueFiling(b, f) \/ \E s \in Surface : RecordIssueFiling(b, f, s)
      PROVE  Goal
    BY <1>1, <1>4 DEF RecordIssueFiling, CompleteIssueFiling, InsertOrIgnore, Promote, MayInsert
<1>5. ASSUME NEW b \in Batch, NEW m \in Mutation, NEW s \in Surface, RecordIssueMutation(b, m, s)
      PROVE  Goal
    BY <1>1, <1>5 DEF RecordIssueMutation, InsertOrIgnore, MayInsert
<1>6. ASSUME NEW b \in Batch, NEW m \in Mutation, NEW c \in Comment \cup {None},
             CompleteIssueMutation(b, m, c)
      PROVE  Goal
  <2>1. UNCHANGED <<now, inputVars, wakeVars, batchVars, workVars>>
      BY <1>6 DEF CompleteIssueMutation
  <2>2. \A d \in Batch, x \in Payload : effect'[<<d, x>>] # effect[<<d, x>>] =>
          /\ effect[<<d, x>>] = "pending"
          /\ effect'[<<d, x>>] = "completed"
      BY <1>6 DEF CompleteIssueMutation, TypeOK, Effect, Promote
  <2>3. \A e \in Batch \X Mutation : commentOf'[e] # commentOf[e] => effect[e] = "pending"
      BY <1>6 DEF CompleteIssueMutation, TypeOK
  <2> QED
      BY <2>1, <2>2, <2>3 DEF wakeVars
<1>7. ASSUME NEW b \in Batch, NEW reason \in Reason, NEW dueAt \in Due,
             NEW p \in scheduled \cup {None}, ScheduleWake(b, reason, dueAt, p)
      PROVE  Goal
    BY <1>7 DEF ScheduleWake, BatchOf, effVars
<1> QED
    BY <1>2, <1>3, <1>4, <1>5, <1>6, <1>7 DEF Recording

(* A launch is reserved in an open Batch, then accepted once.              *)
LEMMA LaunchingStep ==
  ASSUME TypeOK, Launching
  PROVE  /\ UNCHANGED <<now, inputVars, wakeVars, batchVars, effVars>>
         /\ \A w \in Work : launch'[w] # launch[w] =>
              \/ launch[w] = "absent" /\ launch'[w] = "pending" /\ MayRecord(BatchOf(w))
              \/ launch[w] = "pending" /\ launch'[w] = "accepted"
<1> SUFFICES ASSUME NEW w \in Work,
                    \/ ReserveSpecialistLaunch(w)
                    \/ \E r \in Run : MarkSpecialistLaunchAccepted(w, r)
             PROVE  /\ UNCHANGED <<now, inputVars, wakeVars, batchVars, effVars>>
                    /\ \A v \in Work : launch'[v] # launch[v] =>
                        \/ launch[v] = "absent" /\ launch'[v] = "pending" /\ MayRecord(BatchOf(v))
                        \/ launch[v] = "pending" /\ launch'[v] = "accepted"
    BY DEF Launching
<1> QED
    BY DEF ReserveSpecialistLaunch, MarkSpecialistLaunchAccepted, InsertOrIgnore, Promote, TypeOK

(* A claim takes ready inputs, at least one and at most Limit, into a      *)
(* Batch that did not exist, while none is open.                           *)
LEMMA ClaimStep ==
  ASSUME TypeOK, NEW b \in Batch, ClaimBatch(b)
  PROVE  /\ UNCHANGED <<now, admittedAt, wakeVars, dispatched, settled, effVars, workVars>>
         /\ created' = created \cup {b}
         /\ OpenBatches = {}
         /\ b \notin created
         /\ \E chosen \in SUBSET Ready :
              /\ chosen # {}
              /\ Cardinality(chosen) <= Limit
              /\ \A i \in Input : assigned'[i] = IF i \in chosen THEN b ELSE assigned[i]
<1>1. PICK chosen \in SUBSET Ready :
        /\ OldestOf(chosen)
        /\ assigned' = [i \in Input |-> IF i \in chosen THEN b ELSE assigned[i]]
    BY DEF ClaimBatch
<1>2. IsFiniteSet(Ready)
    BY InboxFinite, FS_Subset DEF Ready
<1>3. Cardinality(Ready) \in Nat /\ Cardinality(Ready) # 0
    BY <1>2, FS_CardinalityType, FS_EmptySet DEF ClaimBatch
<1>4. Cardinality(chosen) <= Limit /\ Cardinality(chosen) # 0
    BY <1>1, <1>3, InboxConstants DEF OldestOf
<1>5. chosen # {}
    BY <1>4, FS_EmptySet
<1> QED
    BY <1>1, <1>4, <1>5 DEF ClaimBatch

-----------------------------------------------------------------------------
(* The inductive invariant, conjunct by conjunct.                          *)

LEMMA InitBrainInv == Init => BrainInv
<1> SUFFICES ASSUME Init PROVE BrainInv
    OBVIOUS
<1>1. Ownership
    BY DEF Init, Ownership, Input, Effect
<1>2. OneOpenBatch /\ SettledBatchesClean
    BY DEF Init, OneOpenBatch, OpenBatches, SettledBatchesClean
<1>3. NoSelfFeeding
  <2>1. ASSUME NEW x \in Work \cup Wake PROVE BatchOf(x) \in Batch /\ x \in Input
      BY DEF Work, Wake, BatchOf, Input
  <2> QED
      BY <2>1, InboxConstants DEF Init, NoSelfFeeding
<1>4. OneOutstandingSweep
    BY DEF Init, OneOutstandingSweep, OutstandingSweeps, Input
<1>5. WritesHaveProvenance /\ EditsOwnComments
    BY DEF Init, WritesHaveProvenance, EditsOwnComments, Effect, Payload
<1> QED
    BY InitTypeOK, <1>1, <1>2, <1>3, <1>4, <1>5 DEF BrainInv

LEMMA OwnershipStep == TypeOK /\ Ownership /\ [Next]_vars => Ownership'
<1> SUFFICES ASSUME TypeOK, Ownership, [Next]_vars PROVE Ownership'
    OBVIOUS
<1>1. CASE Admission
    BY <1>1, AdmissionStep DEF MayAdmit, Ownership, Input, wakeVars, batchVars, effVars, workVars
<1>2. CASE Batching
  <2>1. PICK b \in Batch : ClaimBatch(b) \/ MarkBatchDispatched(b) \/ SettleBatch(b)
      BY <1>2 DEF Batching
  <2>2. CASE ClaimBatch(b)
      BY <2>2, ClaimStep DEF Ownership, Ready, wakeVars, effVars, workVars
  <2>3. CASE MarkBatchDispatched(b)
      BY <2>3 DEF MarkBatchDispatched, Ownership, inputVars, wakeVars, effVars, workVars
  <2>4. CASE SettleBatch(b)
      BY <2>4 DEF SettleBatch, Ownership, inputVars, wakeVars, effVars, workVars
  <2> QED
      BY <2>1, <2>2, <2>3, <2>4
<1>3. CASE Recording
    BY <1>3, RecordingStep DEF MayInsert, MayRecord, Ownership, inputVars, batchVars, workVars
<1>4. CASE Launching
    BY <1>4, LaunchingStep DEF MayRecord, Ownership, inputVars, wakeVars, batchVars, effVars
<1>5. CASE Tick \/ UNCHANGED vars
    BY <1>5 DEF Tick, vars, Ownership, inputVars, wakeVars, batchVars, effVars, workVars
<1> QED
    BY <1>1, <1>2, <1>3, <1>4, <1>5 DEF Next

LEMMA OneOpenBatchStep == TypeOK /\ OneOpenBatch /\ [Next]_vars => OneOpenBatch'
<1> SUFFICES ASSUME TypeOK, OneOpenBatch, [Next]_vars PROVE OneOpenBatch'
    OBVIOUS
<1> USE DEF OneOpenBatch, OpenBatches
<1>1. CASE Batching
  <2>1. PICK b \in Batch : ClaimBatch(b) \/ MarkBatchDispatched(b) \/ SettleBatch(b)
      BY <1>1 DEF Batching
  <2>2. CASE ClaimBatch(b)
      BY <2>2 DEF ClaimBatch
  <2>3. CASE MarkBatchDispatched(b)
      BY <2>3 DEF MarkBatchDispatched
  <2>4. CASE SettleBatch(b)
      BY <2>4 DEF SettleBatch
  <2> QED
      BY <2>1, <2>2, <2>3, <2>4
<1>2. CASE Admission \/ Recording \/ Launching
    BY <1>2, AdmissionStep, RecordingStep, LaunchingStep DEF batchVars
<1>3. CASE Tick \/ UNCHANGED vars
    BY <1>3 DEF Tick, vars, batchVars
<1> QED
    BY <1>1, <1>2, <1>3 DEF Next

(* A Batch that is settled can gain no consequence and lose none; one that *)
(* settles has one and owes nothing.                                       *)
LEMMA SettledBatchesCleanStep ==
  TypeOK /\ Ownership /\ SettledBatchesClean /\ [Next]_vars => SettledBatchesClean'
<1> SUFFICES ASSUME TypeOK, Ownership, SettledBatchesClean, [Next]_vars
             PROVE  SettledBatchesClean'
    OBVIOUS
<1>1. CASE Admission
    BY <1>1, AdmissionStep
    DEF SettledBatchesClean, HasConsequence, HasPending, wakeVars, batchVars, effVars, workVars
<1>2. CASE Batching
  <2>1. PICK b \in Batch : ClaimBatch(b) \/ MarkBatchDispatched(b) \/ SettleBatch(b)
      BY <1>2 DEF Batching
  <2>2. CASE ClaimBatch(b)
      BY <2>2, ClaimStep
      DEF SettledBatchesClean, HasConsequence, HasPending, wakeVars, effVars, workVars
  <2>3. CASE MarkBatchDispatched(b)
      BY <2>3 DEF MarkBatchDispatched, SettledBatchesClean, HasConsequence, HasPending,
                  wakeVars, effVars, workVars
  <2>4. CASE SettleBatch(b)
    <3>1. b \in dispatched
        BY <2>4 DEF SettleBatch, HasConsequence, Ownership
    <3> QED
        BY <2>4, <3>1 DEF SettleBatch, SettledBatchesClean, HasConsequence, HasPending,
                          wakeVars, effVars, workVars
  <2> QED
      BY <2>1, <2>2, <2>3, <2>4
<1>3. CASE Recording
    BY SMTT(40), <1>3, RecordingStep
    DEF MayInsert, MayRecord, TypeOK, SettledBatchesClean, HasConsequence, HasPending,
        batchVars, workVars
<1>4. CASE Launching
  <2>1. /\ UNCHANGED <<wakeVars, batchVars, effVars>>
        /\ \A w \in Work : launch'[w] # launch[w] =>
             \/ launch[w] = "absent" /\ launch'[w] = "pending" /\ MayRecord(BatchOf(w))
             \/ launch[w] = "pending" /\ launch'[w] = "accepted"
      BY <1>4, LaunchingStep
  <2> SUFFICES ASSUME NEW b \in settled
               PROVE  b \in dispatched /\ HasConsequence(b)' /\ ~ HasPending(b)'
      BY <2>1 DEF SettledBatchesClean, batchVars
  <2>2. b \in dispatched /\ HasConsequence(b) /\ ~ HasPending(b)
      BY DEF SettledBatchesClean
  <2>3. \A w \in Work : BatchOf(w) = b => launch'[w] = launch[w]
      BY <2>1, <2>2 DEF MayRecord, HasPending
  <2>4. effect' = effect /\ scheduled' = scheduled
      BY <2>1 DEF wakeVars, effVars
  <2>5. HasConsequence(b)'
      BY <2>2, <2>3, <2>4 DEF HasConsequence, BatchOf
  <2>6. ~ HasPending(b)'
      BY <2>2, <2>3, <2>4 DEF HasPending, BatchOf
  <2> QED
      BY <2>2, <2>5, <2>6
<1>5. CASE Tick \/ UNCHANGED vars
    BY <1>5 DEF Tick, vars, SettledBatchesClean, HasConsequence, HasPending,
                wakeVars, batchVars, effVars, workVars
<1> QED
    BY <1>1, <1>2, <1>3, <1>4, <1>5 DEF Next

(* A claim makes a fresh Batch, and by Ownership a fresh Batch owns no     *)
(* admitted result or wake.                                                *)
LEMMA NoSelfFeedingStep ==
  TypeOK /\ Ownership /\ NoSelfFeeding /\ [Next]_vars => NoSelfFeeding'
<1> SUFFICES ASSUME TypeOK, Ownership, NoSelfFeeding, [Next]_vars
             PROVE  NoSelfFeeding'
    OBVIOUS
<1>1. CASE Batching
  <2>1. PICK b \in Batch : ClaimBatch(b) \/ MarkBatchDispatched(b) \/ SettleBatch(b)
      BY <1>1 DEF Batching
  <2>2. CASE ClaimBatch(b)
    <3> SUFFICES ASSUME NEW x \in Work \cup Wake PROVE assigned'[x] # BatchOf(x)
        BY DEF NoSelfFeeding, BatchOf
    <3>1. x \in Input
        BY DEF Input
    <3>2. CASE admittedAt[x] = None
        BY <2>2, <3>1, <3>2, ClaimStep DEF Ready, NoSelfFeeding
    <3>3. CASE admittedAt[x] # None
      <4>1. BatchOf(x) \in created
          BY <3>3 DEF Ownership, TypeOK
      <4> QED
          BY <2>2, <3>1, <4>1, ClaimStep DEF NoSelfFeeding
    <3> QED
        BY <3>2, <3>3
  <2>3. CASE MarkBatchDispatched(b) \/ SettleBatch(b)
      BY <2>3 DEF MarkBatchDispatched, SettleBatch, NoSelfFeeding, BatchOf, inputVars
  <2> QED
      BY <2>1, <2>2, <2>3
<1>2. CASE Admission \/ Recording \/ Launching
    BY <1>2, AdmissionStep, RecordingStep, LaunchingStep DEF NoSelfFeeding, BatchOf, inputVars
<1>3. CASE Tick \/ UNCHANGED vars
    BY <1>3 DEF Tick, vars, NoSelfFeeding, BatchOf, inputVars
<1> QED
    BY <1>1, <1>2, <1>3 DEF Next

LEMMA OneOutstandingSweepStep ==
  TypeOK /\ OneOutstandingSweep /\ [Next]_vars => OneOutstandingSweep'
<1> SUFFICES ASSUME TypeOK, OneOutstandingSweep, [Next]_vars
             PROVE  OneOutstandingSweep'
    OBVIOUS
<1> USE DEF OneOutstandingSweep, OutstandingSweeps
<1>1. CASE Admission
  <2>1. UNCHANGED <<assigned, settled>>
      BY <1>1, AdmissionStep DEF batchVars
  <2>2. \A s \in Sweep : admittedAt'[s] # admittedAt[s] => s = <<"sweep", now>> /\ OutstandingSweeps = {}
      BY <1>1, AdmissionStep DEF MayAdmit, Input
  <2> QED
      BY <2>1, <2>2
<1>2. CASE Batching
  <2>1. PICK b \in Batch : ClaimBatch(b) \/ MarkBatchDispatched(b) \/ SettleBatch(b)
      BY <1>2 DEF Batching
  <2>2. CASE ClaimBatch(b)
    <3>1. Sweep \subseteq Input /\ UNCHANGED <<admittedAt, settled>> /\ None \notin settled
        BY <2>2, ClaimStep, InboxConstants DEF Input, TypeOK
    <3>2. \A s \in Sweep : assigned'[s] # assigned[s] => assigned[s] = None
        BY <2>2, <3>1, ClaimStep DEF Ready
    <3> QED
        BY <3>1, <3>2
  <2>3. CASE MarkBatchDispatched(b) \/ SettleBatch(b)
      BY <2>3 DEF MarkBatchDispatched, SettleBatch, inputVars
  <2> QED
      BY <2>1, <2>2, <2>3
<1>3. CASE Recording \/ Launching
    BY <1>3, RecordingStep, LaunchingStep DEF inputVars, batchVars
<1>4. CASE Tick \/ UNCHANGED vars
    BY <1>4 DEF Tick, vars, inputVars, batchVars
<1> QED
    BY <1>1, <1>2, <1>3, <1>4 DEF Next

(* No step unclaims an input or moves it to another Batch.                 *)
LEMMA AssignedOnce ==
  ASSUME TypeOK, [Next]_vars, NEW i \in Input, assigned[i] # None
  PROVE  assigned'[i] = assigned[i]
<1>1. CASE Batching
  <2>1. PICK b \in Batch : ClaimBatch(b) \/ MarkBatchDispatched(b) \/ SettleBatch(b)
      BY <1>1 DEF Batching
  <2>2. CASE ClaimBatch(b)
      BY <2>2, ClaimStep DEF Ready
  <2>3. CASE MarkBatchDispatched(b) \/ SettleBatch(b)
      BY <2>3 DEF MarkBatchDispatched, SettleBatch, inputVars
  <2> QED
      BY <2>1, <2>2, <2>3
<1>2. CASE Admission \/ Recording \/ Launching
    BY <1>2, AdmissionStep, RecordingStep, LaunchingStep DEF inputVars
<1>3. CASE Tick \/ UNCHANGED vars
    BY <1>3 DEF Tick, vars, inputVars
<1> QED
    BY <1>1, <1>2, <1>3 DEF Next

LEMMA EffectsUnchanged ==
  ASSUME TypeOK, [Next]_vars, ~ Recording
  PROVE  UNCHANGED effVars
<1>1. CASE Batching
    BY <1>1 DEF Batching, ClaimBatch, MarkBatchDispatched, SettleBatch
<1>2. CASE Admission \/ Launching
    BY <1>2, AdmissionStep, LaunchingStep
<1>3. CASE Tick \/ UNCHANGED vars
    BY <1>3 DEF Tick, vars
<1> QED
    BY <1>1, <1>2, <1>3 DEF Next

LEMMA WritesHaveProvenanceStep ==
  TypeOK /\ WritesHaveProvenance /\ [Next]_vars => WritesHaveProvenance'
<1> SUFFICES ASSUME TypeOK, WritesHaveProvenance, [Next]_vars,
                    NEW b \in Batch, NEW x \in Filing \cup Mutation,
                    effect'[<<b, x>>] # "absent"
             PROVE  \E i \in Intent : assigned'[i] = b
    BY DEF WritesHaveProvenance
<1>1. \E i \in Intent : assigned[i] = b
  <2>1. CASE effect[<<b, x>>] # "absent"
      BY <2>1 DEF WritesHaveProvenance
  <2>2. CASE effect[<<b, x>>] = "absent"
    <3>1. Recording
        BY <2>2, EffectsUnchanged DEF effVars
    <3>2. MayInsert(b, x)
        BY <2>2, <3>1, RecordingStep DEF Payload
    <3> QED
        BY <3>2 DEF MayInsert, IntentProvenance
  <2> QED
      BY <2>1, <2>2
<1>2. \A i \in Intent : i \in Input
    BY DEF Input, Draft
<1> QED
    BY <1>1, <1>2, AssignedOnce, InboxConstants

LEMMA AuthoredCommentsGrow ==
  ASSUME TypeOK, [Next]_vars
  PROVE  AuthoredComments \subseteq AuthoredComments'
<1>1. CASE Recording
  <2>1. \A e \in Batch \X Mutation :
          effect[e] = "completed" => effect'[e] = "completed" /\ commentOf'[e] = commentOf[e]
    <3> TAKE e \in Batch \X Mutation
    <3>1. PICK b \in Batch, m \in Mutation : e = <<b, m>>
        OBVIOUS
    <3> QED
        BY <1>1, <3>1, RecordingStep DEF MayInsert, Payload
  <2> QED
      BY <2>1 DEF AuthoredComments
<1>2. CASE ~ Recording
    BY <1>2, EffectsUnchanged DEF effVars, AuthoredComments
<1> QED
    BY <1>1, <1>2

LEMMA EditsOwnCommentsStep == TypeOK /\ EditsOwnComments /\ [Next]_vars => EditsOwnComments'
<1> SUFFICES ASSUME TypeOK, EditsOwnComments, [Next]_vars,
                    NEW b \in Batch, NEW m \in Mutation,
                    effect'[<<b, m>>] # "absent", Target[m] # None
             PROVE  Target[m] \in AuthoredComments'
    BY DEF EditsOwnComments
<1>1. Target[m] \in AuthoredComments
  <2>1. CASE effect[<<b, m>>] # "absent"
      BY <2>1 DEF EditsOwnComments
  <2>2. CASE effect[<<b, m>>] = "absent"
    <3>1. Recording
        BY <2>2, EffectsUnchanged DEF effVars
    <3> QED
        BY <2>2, <3>1, RecordingStep DEF MayInsert, Payload
  <2> QED
      BY <2>1, <2>2
<1> QED
    BY <1>1, AuthoredCommentsGrow

LEMMA BrainInvStep == BrainInv /\ [Next]_vars => BrainInv'
    BY NextTypeOK, OwnershipStep, OneOpenBatchStep, SettledBatchesCleanStep, NoSelfFeedingStep,
       OneOutstandingSweepStep, WritesHaveProvenanceStep, EditsOwnCommentsStep
    DEF BrainInv

THEOREM BrainInvariant == Spec => []BrainInv
    BY InitBrainInv, BrainInvStep, PTL DEF Spec

-----------------------------------------------------------------------------
(* The safety properties.                                                  *)

(* In every reachable state at most one Batch is open.                     *)
THEOREM OneOpenBatchAlways == Spec => []OneOpenBatch
    BY BrainInvariant, PTL DEF BrainInv

(* A settled Batch was dispatched, did something and owes nothing.         *)
THEOREM SettledBatchesCleanAlways == Spec => []SettledBatchesClean
    BY BrainInvariant, PTL DEF BrainInv

(* No Specialist result and no wake is an input of the Batch that asked    *)
(* for it.                                                                 *)
THEOREM NoSelfFeedingAlways == Spec => []NoSelfFeeding
    BY BrainInvariant, PTL DEF BrainInv

(* One Proactive Sweep at most is outstanding.                             *)
THEOREM OneOutstandingSweepAlways == Spec => []OneOutstandingSweep
    BY BrainInvariant, PTL DEF BrainInv

(* A Batch that writes to GitHub holds an Intent, and an edited or deleted *)
(* comment is one the Brain created.                                       *)
THEOREM WriteProvenanceAlways == Spec => []WriteProvenance
    BY BrainInvariant, PTL DEF BrainInv, WriteProvenance

-----------------------------------------------------------------------------
(* The action properties.                                                  *)

(* No step changes the inputs of a Batch that exists.                      *)
LEMMA BatchesImmutableStep ==
  ASSUME BrainInv, [Next]_vars, NEW b \in created
  PROVE  Members(b)' = Members(b)
<1> USE DEF BrainInv
<1>1. \A i \in Input : assigned[i] = b => assigned'[i] = b
    BY AssignedOnce, InboxConstants DEF TypeOK
<1>2. ASSUME NEW i \in Input, assigned'[i] = b, assigned[i] # b PROVE FALSE
  <2>1. assigned[i] = None
      BY <1>2, AssignedOnce
  <2>2. CASE Batching
    <3>1. PICK c \in Batch : ClaimBatch(c) \/ MarkBatchDispatched(c) \/ SettleBatch(c)
        BY <2>2 DEF Batching
    <3>2. CASE ClaimBatch(c)
        BY <1>2, <3>2, ClaimStep
    <3>3. CASE MarkBatchDispatched(c) \/ SettleBatch(c)
        BY <1>2, <3>3 DEF MarkBatchDispatched, SettleBatch, inputVars
    <3> QED
        BY <3>1, <3>2, <3>3
  <2>3. CASE Admission \/ Recording \/ Launching
      BY <1>2, <2>3, AdmissionStep, RecordingStep, LaunchingStep DEF inputVars
  <2>4. CASE Tick \/ UNCHANGED vars
      BY <1>2, <2>4 DEF Tick, vars, inputVars
  <2> QED
      BY <2>2, <2>3, <2>4 DEF Next
<1> QED
    BY <1>1, <1>2 DEF Members

(* A Batch is immutable from the claim that makes it.                      *)
THEOREM BatchesAreImmutable == Spec => BatchesImmutable
<1>1. BrainInv /\ [Next]_vars => [\A b \in created : Members(b)' = Members(b)]_vars
    BY BatchesImmutableStep
<1> QED
    BY <1>1, BrainInvariant, PTL DEF Spec, BatchesImmutable

(* A claim takes the oldest ready inputs: what it leaves is no older than  *)
(* what it takes.                                                          *)
LEMMA NoOvertakingStep ==
  ASSUME BrainInv, [Next]_vars, NEW i \in Ready, NEW j \in Ready,
         assigned'[i] # None, assigned'[j] = None
  PROVE  admittedAt[i] <= admittedAt[j]
<1>1. i \in Input /\ j \in Input /\ assigned[i] = None
    BY DEF Ready
<1>2. CASE Batching
  <2>1. PICK b \in Batch : ClaimBatch(b) \/ MarkBatchDispatched(b) \/ SettleBatch(b)
      BY <1>2 DEF Batching
  <2>2. CASE ClaimBatch(b)
    <3>1. PICK chosen \in SUBSET Ready :
            /\ OldestOf(chosen)
            /\ assigned' = [k \in Input |-> IF k \in chosen THEN b ELSE assigned[k]]
        BY <2>2 DEF ClaimBatch
    <3>2. i \in chosen /\ j \notin chosen
        BY <1>1, <3>1, InboxConstants
    <3> QED
        BY <3>1, <3>2 DEF OldestOf
  <2>3. CASE MarkBatchDispatched(b) \/ SettleBatch(b)
      BY <1>1, <2>3 DEF MarkBatchDispatched, SettleBatch, inputVars
  <2> QED
      BY <2>1, <2>2, <2>3
<1>3. CASE Admission \/ Recording \/ Launching
    BY <1>1, <1>3, AdmissionStep, RecordingStep, LaunchingStep DEF inputVars, BrainInv
<1>4. CASE Tick \/ UNCHANGED vars
    BY <1>1, <1>4 DEF Tick, vars, inputVars
<1> QED
    BY <1>2, <1>3, <1>4 DEF Next

(* Claims are first in, first out.                                         *)
THEOREM ClaimsDoNotOvertake == Spec => NoOvertaking
<1>1. BrainInv /\ [Next]_vars =>
        [\A i, j \in Ready :
           assigned'[i] # None /\ assigned'[j] = None /\ j \notin cancelled'
             => admittedAt[i] <= admittedAt[j]]_vars
    BY NoOvertakingStep
<1> QED
    BY <1>1, BrainInvariant, PTL DEF Spec, NoOvertaking

LEMMA WakesFireStep ==
  ASSUME BrainInv, [Next]_vars, NEW w \in Wake
  PROVE  /\ admittedAt'[w] # admittedAt[w] => w \in scheduled \ cancelled /\ DueAt(w) <= now
         /\ assigned'[w] # assigned[w] => w \in scheduled \ cancelled
<1> USE DEF BrainInv
<1>1. w \in Input
    BY DEF Input
<1>2. CASE Admission
    BY <1>1, <1>2, AdmissionStep DEF MayAdmit
<1>3. CASE Batching
  <2>1. PICK b \in Batch : ClaimBatch(b) \/ MarkBatchDispatched(b) \/ SettleBatch(b)
      BY <1>3 DEF Batching
  <2>2. CASE ClaimBatch(b)
      BY <1>1, <2>2, ClaimStep DEF Ready, Ownership
  <2>3. CASE MarkBatchDispatched(b) \/ SettleBatch(b)
      BY <2>3 DEF MarkBatchDispatched, SettleBatch, inputVars
  <2> QED
      BY <2>1, <2>2, <2>3
<1>4. CASE Recording \/ Launching
    BY <1>4, RecordingStep, LaunchingStep DEF inputVars
<1>5. CASE Tick \/ UNCHANGED vars
    BY <1>5 DEF Tick, vars, inputVars
<1> QED
    BY <1>2, <1>3, <1>4, <1>5 DEF Next

(* A wake fires when it is due and live, and a cancelled one is not        *)
(* claimed.                                                                *)
THEOREM WakesFireOnSchedule == Spec => WakesFireAsScheduled
<1>1. BrainInv /\ [Next]_vars =>
        [\A w \in Wake :
           /\ admittedAt'[w] # admittedAt[w] => w \in scheduled \ cancelled /\ DueAt(w) <= now
           /\ assigned'[w] # assigned[w] => w \in scheduled \ cancelled]_vars
    BY WakesFireStep
<1> QED
    BY <1>1, BrainInvariant, PTL DEF Spec, WakesFireAsScheduled

-----------------------------------------------------------------------------
(* The refinement: every step of the store is a step of the frontier, or   *)
(* leaves every phase as it was.                                           *)

Phases == [i \in Input |-> PhaseOf(i)]

LEMMA InitRefines == Init => Frontier!Init
<1> SUFFICES ASSUME Init PROVE Phases = [i \in Input |-> "absent"]
    BY DEF Frontier!Init, Phases
<1> QED
    BY DEF Init, Phases, PhaseOf

LEMMA SamePhases ==
  ASSUME \A i \in Input : PhaseOf(i)' = PhaseOf(i)
  PROVE  Phases' = Phases
    BY DEF Phases

(* New admissions arrive together.                                         *)
LEMMA AdmissionRefines ==
  ASSUME BrainInv, Admission
  PROVE  Frontier!Arrive
<1> DEFINE S == {i \in Input : PhaseOf(i) = "absent" /\ admittedAt'[i] # None}
<1> USE DEF BrainInv
<1>1. \A i \in S : PhaseOf(i) = "absent"
    OBVIOUS
<1>2. \A i \in Input : PhaseOf(i)' = IF i \in S THEN "ready" ELSE PhaseOf(i)
  <2> TAKE i \in Input
  <2>1. UNCHANGED <<assigned, cancelled, settled>>
      BY AdmissionStep DEF wakeVars, batchVars
  <2>2. admittedAt'[i] # admittedAt[i] => admittedAt[i] = None /\ admittedAt'[i] = now
      BY AdmissionStep DEF MayAdmit
  <2>3. now # None
      BY InboxConstants DEF TypeOK, Time
  <2> QED
      BY <2>1, <2>2, <2>3 DEF PhaseOf
<1> HIDE DEF S
<1>3. \A i \in Input : PhaseOf(i)' \in Frontier!Phase
    BY DEF PhaseOf, Frontier!Phase
<1> QED
    BY <1>1, <1>2, <1>3 DEF Frontier!Arrive

LEMMA ClaimRefines ==
  ASSUME BrainInv, NEW b \in Batch, ClaimBatch(b)
  PROVE  \E S \in SUBSET Frontier!In("ready") : Frontier!Claim(S)
<1> USE DEF BrainInv
<1>1. PICK chosen \in SUBSET Ready :
        /\ chosen # {}
        /\ Cardinality(chosen) <= Limit
        /\ \A i \in Input : assigned'[i] = IF i \in chosen THEN b ELSE assigned[i]
    BY ClaimStep
<1>2. chosen \subseteq Input
    BY <1>1 DEF Ready
<1>3. \A i \in Input : PhaseOf(i) # "claimed"
    BY ClaimStep, InboxConstants DEF PhaseOf, OpenBatches, Ownership
<1>4. \A i \in chosen : PhaseOf(i) = "ready"
    BY <1>1, <1>2 DEF PhaseOf, Ready
<1>5. b # None /\ b \notin settled
    BY ClaimStep, InboxConstants DEF TypeOK
<1>6. \A i \in Input : PhaseOf(i)' = IF i \in chosen THEN "claimed" ELSE PhaseOf(i)
    BY <1>1, <1>5, ClaimStep DEF PhaseOf, wakeVars
<1>7. Frontier!Cardinality(chosen) = Cardinality(chosen)
    BY Zenon DEF Frontier!Cardinality, Cardinality
<1>8. Frontier!Claim(chosen)
    BY <1>1, <1>2, <1>3, <1>4, <1>6, <1>7 DEF Frontier!Claim, Frontier!In, Frontier!Move
<1>9. chosen \subseteq Frontier!In("ready")
    BY <1>8 DEF Frontier!Claim
<1> QED
    BY <1>8, <1>9

(* Settling the open Batch consumes what stood before the Brain, which is  *)
(* what that Batch claimed because no other is open.                       *)
LEMMA SettleRefines ==
  ASSUME BrainInv, NEW b \in Batch, SettleBatch(b)
  PROVE  Frontier!Consume \/ UNCHANGED Phases
<1> USE DEF BrainInv
<1>1. UNCHANGED <<admittedAt, assigned, cancelled>> /\ settled' = settled \cup {b}
    BY DEF SettleBatch, inputVars, wakeVars
<1>2. \A i \in Input : PhaseOf(i) = "claimed" <=> assigned[i] = b
    BY InboxConstants DEF PhaseOf, Ownership, OneOpenBatch, OpenBatches, SettleBatch
<1>3. \A i \in Input : PhaseOf(i)' = IF PhaseOf(i) = "claimed" THEN "consumed" ELSE PhaseOf(i)
    BY <1>1, <1>2, InboxConstants DEF PhaseOf
<1>4. CASE \E i \in Input : PhaseOf(i) = "claimed"
    BY <1>3, <1>4 DEF Frontier!Consume, Frontier!In, Frontier!Move
<1>5. CASE \A i \in Input : PhaseOf(i) # "claimed"
    BY <1>3, <1>5, SamePhases
<1> QED
    BY <1>4, <1>5

(* A cancellation withdraws a wake that no Batch claimed; one that was     *)
(* claimed is past recall.                                                 *)
LEMMA RecordingRefines ==
  ASSUME BrainInv, Recording
  PROVE  (\E i \in Input : Frontier!Withdraw(i)) \/ UNCHANGED Phases
<1> USE DEF BrainInv
<1>1. UNCHANGED <<admittedAt, assigned, settled>>
    BY RecordingStep DEF inputVars, batchVars
<1>2. CASE cancelled' = cancelled
    BY <1>1, <1>2, SamePhases DEF PhaseOf
<1>3. CASE cancelled' # cancelled
  <2>1. PICK p \in scheduled \cup {None} : cancelled' = cancelled \cup ({p} \ {None})
      BY <1>3 DEF Recording, RecordPrompt, MarkPromptAccepted, RecordSilence, RecordIssueFiling,
                  CompleteIssueFiling, RecordIssueMutation, CompleteIssueMutation, ScheduleWake,
                  SetEffect, wakeVars
  <2>2. p \in scheduled /\ p \notin cancelled /\ p \in Input /\ cancelled' = cancelled \cup {p}
      BY <1>3, <2>1 DEF TypeOK, Input
  <2>3. CASE assigned[p] # None
      BY <1>1, <2>2, <2>3, SamePhases DEF PhaseOf
  <2>4. CASE assigned[p] = None
    <3>1. \A i \in Input : PhaseOf(i)' = IF i \in {p} THEN "withdrawn" ELSE PhaseOf(i)
        BY <1>1, <2>2, <2>4 DEF PhaseOf
    <3>2. PhaseOf(p) \in {"absent", "ready"}
        BY <2>2, <2>4 DEF PhaseOf
    <3>3. Frontier!Withdraw(p)
        BY <2>2, <3>1, <3>2 DEF Frontier!Withdraw, Frontier!In, Frontier!Move
    <3> QED
        BY <2>2, <3>3
  <2> QED
      BY <2>3, <2>4
<1> QED
    BY <1>2, <1>3

LEMMA NextRefines == BrainInv /\ [Next]_vars => [Frontier!Next]_Phases
<1> SUFFICES ASSUME BrainInv, [Next]_vars PROVE [Frontier!Next]_Phases
    OBVIOUS
<1>1. CASE Admission
    BY <1>1, AdmissionRefines DEF Frontier!Next
<1>2. CASE Batching
  <2>1. PICK b \in Batch : ClaimBatch(b) \/ MarkBatchDispatched(b) \/ SettleBatch(b)
      BY <1>2 DEF Batching
  <2>2. CASE ClaimBatch(b)
      BY <2>2, ClaimRefines DEF Frontier!Next
  <2>3. CASE MarkBatchDispatched(b)
      BY <2>3, SamePhases DEF MarkBatchDispatched, PhaseOf, inputVars, wakeVars
  <2>4. CASE SettleBatch(b)
      BY <2>4, SettleRefines DEF Frontier!Next
  <2> QED
      BY <2>1, <2>2, <2>3, <2>4
<1>3. CASE Recording
    BY <1>3, RecordingRefines DEF Frontier!Next
<1>4. CASE Launching
  <2>1. UNCHANGED <<admittedAt, assigned, cancelled, settled>>
      BY <1>4, LaunchingStep DEF BrainInv, inputVars, wakeVars, batchVars
  <2> QED
      BY <2>1, SamePhases DEF PhaseOf
<1>5. CASE Tick \/ UNCHANGED vars
  <2>1. UNCHANGED <<admittedAt, assigned, cancelled, settled>>
      BY <1>5 DEF Tick, vars, inputVars, wakeVars, batchVars
  <2> QED
      BY <2>1, SamePhases DEF PhaseOf
<1> QED
    BY <1>1, <1>2, <1>3, <1>4, <1>5 DEF Next

(* The durable store implements the abstract frontier: an input is put     *)
(* before the Brain once, with its Batch, and never after it was           *)
(* withdrawn.                                                              *)
THEOREM InboxImplementsFrontier == Spec => ImplementsFrontier
<1>1. BrainInv /\ [Next]_vars => [Frontier!Next]_[i \in Input |-> PhaseOf(i)]
    BY NextRefines DEF Phases
<1> QED
    BY <1>1, InitRefines, BrainInvariant, PTL DEF Spec, ImplementsFrontier, Frontier!Spec

-----------------------------------------------------------------------------
(* The loop.                                                               *)

LoopInv == BrainInv /\ LoopTypeOK

-----------------------------------------------------------------------------
(* The store inside the loop.                                              *)

LEMMA InitLoop == LoopInit => LoopInv
<1> SUFFICES ASSUME LoopInit PROVE LoopInv
    OBVIOUS
<1>1. BrainInv
    BY InitBrainInv DEF LoopInit
<1>2. LoopTypeOK
    BY LoopConstants DEF LoopInit, LoopTypeOK, BootPhase
<1> QED
    BY <1>1, <1>2 DEF LoopInv, BrainInv

(* The id of a new Batch is one, and new, as long as ids are left.         *)
LEMMA FreshBatchIsFresh == TypeOK /\ created # Batch => FreshBatch \in Batch \ created
  BY DEF TypeOK, FreshBatch

(* The Batch of a running turn, and of a wake in flight, exists.           *)
LEMMA KnownBatches ==
  ASSUME LoopInv
  PROVE  /\ turn = "running" => This \in created /\ This \in Batch
         /\ waking # None => waking.batch \in created /\ waking.batch \in Batch
<1>1. created \subseteq Batch
    BY DEF LoopInv, BrainInv, TypeOK
<1>2. turn = "running" => Head(lane) \in created
    BY DEF LoopInv, BrainInv, LoopTypeOK
<1> QED
    BY <1>1, <1>2 DEF LoopInv, BrainInv, LoopTypeOK, This

LEMMA StoreUnchanged == UNCHANGED store => UNCHANGED vars
  BY DEF store

(* Each step of the loop is one transaction of the store at most.          *)
LEMMA ArrivalsStore == LoopInv /\ (Arrivals \/ ClockTick \/ LoopTick) => [Next]_vars
<1> SUFFICES ASSUME Arrivals \/ ClockTick \/ LoopTick PROVE [Next]_vars
    OBVIOUS
<1>1. CASE \E d \in Delta : AdmitDelta(d)
    BY <1>1 DEF AdmitDelta, Next, Admission, Draft
<1>2. CASE \E i \in Intent : EscalateIntent(i)
    BY <1>2 DEF EscalateIntent, Next, Admission, Draft
<1>3. CASE \E e \in Event : AdmitEvent(e)
    BY <1>3 DEF AdmitEvent, Next, Admission, Draft
<1>4. CASE ClockTick
    BY <1>4 DEF ClockTick, Next, Admission
<1>5. CASE LoopTick
    BY <1>5 DEF LoopTick, Next
<1> QED
    BY <1>1, <1>2, <1>3, <1>4, <1>5 DEF Arrivals

LEMMA WakeStore == LoopInv /\ WakeStep => [Next]_vars
<1> SUFFICES ASSUME LoopInv, WakeStep PROVE [Next]_vars
    OBVIOUS
<1>1. ASSUME NEW by \in {"boot", "caller"}, WakeClaims(by)
      PROVE  [Next]_vars
    BY <1>1, FreshBatchIsFresh, StoreUnchanged DEF WakeClaims, Next, Batching, LoopInv, BrainInv
<1>2. CASE WakeMarks
    BY <1>2, KnownBatches DEF WakeMarks, Next, Batching
<1>3. ASSUME NEW by \in {"boot", "caller"}, WakeFindsNothing(by)
      PROVE  [Next]_vars
    BY <1>3, StoreUnchanged DEF WakeFindsNothing
<1>4. CASE FlueAdmits \/ ReceiptLost
    BY <1>4, StoreUnchanged DEF FlueAdmits, ReceiptLost
<1> QED
    BY <1>1, <1>2, <1>3, <1>4 DEF WakeStep

LEMMA BootStore == LoopInv /\ (BootStep \/ Trouble) => [Next]_vars
<1> SUFFICES ASSUME BootStep \/ Trouble PROVE [Next]_vars
    OBVIOUS
<1>1. ASSUME NEW e \in Batch \X Prompt, RecoverPrompt(e)
      PROVE  [Next]_vars
  <2>1. e[1] \in Batch /\ e[2] \in Prompt
      OBVIOUS
  <2> QED
      BY <1>1, <2>1, StoreUnchanged DEF RecoverPrompt, Next, Recording
<1>2. CASE Configure \/ BeginRecovery \/ BootSweeps \/ Trouble
    BY <1>2, StoreUnchanged
    DEF Configure, BeginRecovery, BootSweeps, Trouble, WakeThrows, RecoveryThrows, RetireSurface, Crash
<1> QED
    BY <1>1, <1>2 DEF BootStep

LEMMA TurnStore == LoopInv /\ TurnStep => [Next]_vars
<1> SUFFICES ASSUME LoopInv, TurnStep PROVE [Next]_vars
    OBVIOUS
<1>1. CASE TurnRecords
    BY <1>1, KnownBatches DEF TurnRecords, TurnSchedules, Running, Next, Recording
<1>2. ASSUME NEW p \in Prompt, TurnDelivers(p)
      PROVE  [Next]_vars
    BY <1>2, KnownBatches DEF TurnDelivers, Running, Next, Recording
<1>3. CASE TurnSettles
    BY <1>3, KnownBatches DEF TurnSettles, Running, Next, Batching
<1>4. CASE TurnReadsGraph
    BY <1>4, FreshBatchIsFresh DEF TurnReadsGraph, Next, Batching, LoopInv, BrainInv
<1>5. CASE TurnStarts \/ TurnEnds
    BY <1>5, StoreUnchanged DEF TurnStarts, TurnEnds
<1>6. CASE TurnSchedules
    BY <1>6, KnownBatches DEF TurnSchedules, Running, Next, Recording
<1> QED
    BY <1>1, <1>2, <1>3, <1>4, <1>5, <1>6 DEF TurnStep

LEMMA LoopStepsStore == LoopInv /\ [LoopNext]_loopVars => [Next]_vars
<1>1. UNCHANGED loopVars => UNCHANGED vars
    BY StoreUnchanged DEF loopVars
<1> QED
    BY <1>1, ArrivalsStore, WakeStore, BootStore, TurnStore DEF LoopNext

-----------------------------------------------------------------------------
(* Type correctness of what is around the store.                           *)

(* Batches are never deleted.                                              *)
LEMMA CreatedGrows == TypeOK /\ [Next]_vars => created \subseteq created'
<1> SUFFICES ASSUME TypeOK, [Next]_vars PROVE created \subseteq created'
    OBVIOUS
<1>1. CASE Recording
    BY <1>1, RecordingStep DEF batchVars
<1>2. CASE Launching
    BY <1>2, LaunchingStep DEF batchVars
<1>3. CASE Batching
    BY <1>3, ClaimStep DEF Batching, MarkBatchDispatched, SettleBatch
<1>4. CASE Tick \/ Admission \/ UNCHANGED vars
    BY <1>4 DEF Tick, Admission, AdmitDraft, AdmitSpecialistResult, RunProactiveClock, batchVars, vars
<1> QED
    BY <1>1, <1>2, <1>3, <1>4 DEF Next

LEMMA CallWakeTyped == wakes \in 0..MaxWakes /\ CallWake => wakes' \in 0..MaxWakes
  BY LoopConstants DEF CallWake

(* The lane holds Batches, whoever appends to it or takes its head.        *)
LEMMA LaneTyped ==
  ASSUME LoopInv, [LoopNext]_loopVars
  PROVE  lane' \in Seq(created') /\ (turn' = "running" => lane' # <<>>)
<1>1. created \subseteq created'
    BY LoopStepsStore, CreatedGrows DEF LoopInv, BrainInv
<1>2. lane \in Seq(created) /\ lane \in Seq(created')
    BY <1>1 DEF LoopInv, BrainInv, LoopTypeOK
<1>3. CASE FlueAdmits
  <2>1. waking.batch \in created'
      BY <1>1, <1>3, KnownBatches DEF FlueAdmits
  <2>2. lane' = Append(lane, waking.batch) /\ turn' = turn
      BY <1>3 DEF FlueAdmits
  <2> QED
      BY <1>2, <2>1, <2>2
<1>4. CASE TurnEnds
  <2>1. lane # <<>> /\ lane' = Tail(lane) /\ turn' = "idle"
      BY <1>4 DEF TurnEnds, Running, LoopInv, BrainInv, LoopTypeOK
  <2> QED
      BY <1>2, <2>1
<1>5. CASE TurnStarts
    BY <1>2, <1>5 DEF TurnStarts
<1>6. CASE lane' = lane /\ turn' \in {turn, "idle"}
    BY <1>2, <1>6 DEF LoopInv, BrainInv, LoopTypeOK
<1> QED
    BY <1>3, <1>4, <1>5, <1>6
    DEF LoopNext, loopVars, flueVars, Arrivals, AdmitDelta, EscalateIntent, AdmitEvent, ClockTick,
        WakeStep, WakeFindsNothing, WakeClaims, WakeMarks, ReceiptLost, BootStep, Configure,
        BeginRecovery, RecoverPrompt, BootSweeps, TurnStep, TurnRecords, TurnSchedules, TurnDelivers, TurnSettles,
        TurnReadsGraph, Trouble, WakeThrows, RecoveryThrows, RetireSurface, Crash, LoopTick

(* How a step changes the wake in flight.                                  *)
LEMMA WakingSteps ==
  ASSUME LoopInv, [LoopNext]_loopVars
  PROVE  \/ waking' = waking
         \/ waking' = None
         \/ FlueAdmits
         \/ \E by \in {"boot", "caller"} : WakeClaims(by)
  BY DEF LoopNext, loopVars, wakeCall, Arrivals, AdmitDelta, EscalateIntent, AdmitEvent, ClockTick,
         WakeStep, WakeFindsNothing, WakeMarks, ReceiptLost, BootStep, Configure,
         BeginRecovery, RecoverPrompt, BootSweeps, TurnStep, TurnStarts, TurnRecords, TurnSchedules, TurnDelivers,
         TurnSettles, TurnReadsGraph, TurnEnds, Trouble, WakeThrows, RecoveryThrows, RetireSurface,
         Crash, LoopTick

(* What a wake claims is the Batch it submits: an open one or a new one,   *)
(* without a receipt, because no other is open.                            *)
LEMMA WakeClaimsTyped ==
  ASSUME LoopInv, NEW by \in {"boot", "caller"}, WakeClaims(by)
  PROVE  \E b \in created' \ dispatched' :
           waking' = [batch |-> b, admitted |-> FALSE, by |-> by]
<1>1. CASE created # Batch /\ ClaimBatch(FreshBatch)
           /\ waking' = [batch |-> FreshBatch, admitted |-> FALSE, by |-> by]
  <2>1. FreshBatch \in Batch \ created
      BY <1>1, FreshBatchIsFresh DEF LoopInv, BrainInv
  <2>2. created' = created \cup {FreshBatch} /\ dispatched' = dispatched /\ dispatched \subseteq created
      BY <1>1 DEF ClaimBatch, LoopInv, BrainInv, TypeOK
  <2> QED
      BY <1>1, <2>1, <2>2
<1>2. ASSUME NEW b \in OpenBatches \ dispatched, UNCHANGED store,
             waking' = [batch |-> b, admitted |-> FALSE, by |-> by]
      PROVE  \E c \in created' \ dispatched' :
               waking' = [batch |-> c, admitted |-> FALSE, by |-> by]
    BY <1>2 DEF OpenBatches, store, vars, batchVars
<1>3. CASE \E b \in OpenBatches \ dispatched :
             UNCHANGED store /\ waking' = [batch |-> b, admitted |-> FALSE, by |-> by]
    BY <1>2, <1>3
<1>4. \A b \in OpenBatches : OpenBatches \ dispatched # {} => b \in OpenBatches \ dispatched
    BY DEF LoopInv, BrainInv, OneOpenBatch
<1> QED
    BY <1>1, <1>3, <1>4 DEF WakeClaims

LEMMA LoopTypeStep == LoopInv /\ [LoopNext]_loopVars => LoopTypeOK'
<1> SUFFICES ASSUME LoopInv, [LoopNext]_loopVars PROVE LoopTypeOK'
    OBVIOUS
<1>1. created \subseteq created'
    BY LoopStepsStore, CreatedGrows DEF LoopInv, BrainInv
<1>2. waking' # None =>
        waking' \in [batch : created', admitted : BOOLEAN, by : {"boot", "caller"}]
  <2>1. CASE waking' = waking \/ waking' = None
      BY <1>1, <2>1 DEF LoopInv, LoopTypeOK
  <2>2. CASE FlueAdmits
    <3>1. waking \in [batch : created, admitted : BOOLEAN, by : {"boot", "caller"}]
        BY <2>2 DEF FlueAdmits, LoopInv, LoopTypeOK
    <3>2. waking' = [waking EXCEPT !.admitted = TRUE]
        BY <2>2 DEF FlueAdmits
    <3> QED
        BY <1>1, <3>1, <3>2
  <2>3. ASSUME NEW by \in {"boot", "caller"}, WakeClaims(by)
        PROVE  waking' \in [batch : created', admitted : BOOLEAN, by : {"boot", "caller"}]
    <3>1. PICK b \in created' \ dispatched' :
            waking' = [batch |-> b, admitted |-> FALSE, by |-> by]
        BY <2>3, WakeClaimsTyped
    <3> QED
        BY <3>1
  <2> QED
      BY <2>1, <2>2, <2>3, WakingSteps
<1>3. boot' \in BootPhase
    BY DEF LoopInv, LoopTypeOK, BootPhase, LoopNext, loopVars, bootVars, Arrivals, AdmitDelta,
           EscalateIntent, AdmitEvent, ClockTick, WakeStep, WakeFindsNothing, WakeClaims, FlueAdmits,
           WakeMarks, Returned, ReceiptLost, BootStep, Configure, BeginRecovery, RecoverPrompt,
           FailBoot, BootSweeps, TurnStep, TurnStarts, TurnRecords, TurnSchedules, TurnDelivers, TurnSettles,
           TurnReadsGraph, TurnEnds, Trouble, WakeThrows, RecoveryThrows, RetireSurface, Crash,
           LoopTick
<1>4. recovering' \subseteq Batch \X Prompt
    BY DEF LoopInv, LoopTypeOK, LoopNext, loopVars, bootVars, Arrivals, AdmitDelta,
           EscalateIntent, AdmitEvent, ClockTick, WakeStep, WakeFindsNothing, WakeClaims, FlueAdmits,
           WakeMarks, ReceiptLost, BootStep, Configure, BeginRecovery, RecoverPrompt,
           FailBoot, BootSweeps, TurnStep, TurnStarts, TurnRecords, TurnSchedules, TurnDelivers, TurnSettles,
           TurnReadsGraph, TurnEnds, Trouble, WakeThrows, RecoveryThrows, RetireSurface, Crash,
           LoopTick
<1>5. wakes' \in 0..MaxWakes
  <2>1. CASE wakes' \in {wakes, 0} \/ CallWake
      BY <2>1, CallWakeTyped, LoopConstants DEF LoopInv, LoopTypeOK
  <2>2. CASE wakes > 0 /\ wakes' = wakes - 1
      BY <2>2, LoopConstants DEF LoopInv, LoopTypeOK
  <2> QED
      BY <2>1, <2>2
      DEF LoopNext, loopVars, wakeCall, Arrivals, AdmitDelta, EscalateIntent, AdmitEvent, ClockTick,
          WakeStep, WakeFindsNothing, WakeClaims, Begin, FlueAdmits, WakeMarks, ReceiptLost, BootStep,
          Configure, BeginRecovery, RecoverPrompt, FailBoot, BootSweeps, TurnStep, TurnStarts,
          TurnRecords, TurnSchedules, TurnDelivers, TurnSettles, TurnReadsGraph, TurnEnds, Trouble, WakeThrows,
          RecoveryThrows, RetireSurface, Crash, LoopTick
<1>6. sent' \in [Batch -> Nat]
  <2>1. CASE sent' = sent
      BY <2>1 DEF LoopInv, LoopTypeOK
  <2>2. CASE FlueAdmits
      BY <2>2, KnownBatches DEF FlueAdmits, LoopInv, LoopTypeOK
  <2> QED
      BY <2>1, <2>2
      DEF LoopNext, loopVars, flueVars, Arrivals, AdmitDelta, EscalateIntent, AdmitEvent, ClockTick,
          WakeStep, WakeFindsNothing, WakeClaims, WakeMarks, ReceiptLost, BootStep,
          Configure, BeginRecovery, RecoverPrompt, BootSweeps, TurnStep, TurnStarts,
          TurnRecords, TurnSchedules, TurnDelivers, TurnSettles, TurnReadsGraph, TurnEnds, Trouble, WakeThrows,
          RecoveryThrows, RetireSurface, Crash, LoopTick
<1> QED
    BY <1>2, <1>3, <1>4, <1>5, <1>6, LaneTyped DEF LoopTypeOK

LEMMA LoopInvStep == LoopInv /\ [LoopNext]_loopVars => LoopInv'
  BY LoopStepsStore, BrainInvStep, LoopTypeStep DEF LoopInv

(* The store is itself inside the loop: its invariants and the types of    *)
(* wakes, turns and lane.                                                  *)
THEOREM LoopInvariant == LoopSpec => []LoopInv
<1> QED
    BY InitLoop, LoopInvStep, PTL DEF LoopSpec

(* Every step of the composed system is one transaction of the store or    *)
(* none, so whatever was proved above of the store holds of it between its *)
(* callers.                                                                *)
THEOREM LoopImplementsStore == LoopSpec => Spec
<1>1. LoopInit => Init
    BY DEF LoopInit
<1> QED
    BY <1>1, LoopStepsStore, LoopInvariant, PTL DEF LoopSpec, Spec

(* The types of the composed system.                                       *)
THEOREM LoopTypeCorrect == LoopSpec => []LoopTypeOK
<1>1. LoopInv => LoopTypeOK
    BY DEF LoopInv
<1> QED
    BY <1>1, LoopInvariant, PTL

-----------------------------------------------------------------------------
(* A settled Batch is frozen.                                              *)

Frozen == \A b \in settled, x \in Payload : effect'[<<b, x>>] = effect[<<b, x>>]

(* No recording is allowed for a settled Batch, and no completion finds    *)
(* anything pending in it.                                                 *)
LEMMA FrozenStep == BrainInv /\ [Next]_vars => Frozen
<1> SUFFICES ASSUME BrainInv, [Next]_vars, NEW b \in settled, NEW x \in Payload
             PROVE  effect'[<<b, x>>] = effect[<<b, x>>]
    BY DEF Frozen
<1>1. b \in Batch /\ effect[<<b, x>>] # "pending"
    BY DEF BrainInv, TypeOK, SettledBatchesClean, HasPending
<1>2. CASE Recording
  <2>1. ~ MayInsert(b, x)
      BY DEF MayInsert, MayRecord
  <2> QED
      BY <1>1, <1>2, <2>1, RecordingStep DEF BrainInv
<1>3. CASE ~ Recording
    BY <1>3, EffectsUnchanged DEF BrainInv, effVars
<1> QED
    BY <1>2, <1>3

(* The turn of a duplicate submission, a recovery or a late completion     *)
(* cannot change the Effects of a Batch that has settled.                  *)
THEOREM SettledBatchesStayFrozen == LoopSpec => SettledBatchesFrozen
<1>1. LoopInv /\ [LoopNext]_loopVars => [Frozen]_loopVars
    BY LoopStepsStore, FrozenStep DEF LoopInv
<1> QED
    BY <1>1, LoopInvariant, PTL DEF LoopSpec, SettledBatchesFrozen, Frozen

-----------------------------------------------------------------------------
(* How often a Batch is submitted.                                         *)

(* A Batch whose next submission is still to come: it has no receipt, and  *)
(* either the wake in flight has not submitted it yet, or no wake holds it *)
(* and this process can start one.                                         *)
Unsubmitted(b) ==
  /\ b \notin dispatched
  /\ \/ waking # None /\ waking.batch = b /\ ~ waking.admitted
     \/ boot # "failed" /\ (waking = None \/ waking.batch # b)

Submissions ==
  /\ crashes \in Nat
  /\ faults \in Nat
  /\ waking # None /\ ~ waking.admitted => waking.batch \notin dispatched
  /\ \A b \in Batch :
       /\ sent[b] <= 1 + crashes + faults
       /\ Unsubmitted(b) => sent[b] <= crashes + faults

LEMMA InitSubmissions == LoopInit => Submissions
  BY DEF LoopInit, Submissions

(* A step that neither submits, nor starts or ends a wake, nor is trouble. *)
QuietStep ==
  /\ UNCHANGED <<waking, sent, crashes, faults, dispatched>>
  /\ boot = "failed" => boot' = "failed"

LEMMA QuietSteps ==
  [LoopNext]_loopVars =>
    \/ QuietStep
    \/ \E by \in {"boot", "caller"} : WakeClaims(by)
    \/ FlueAdmits \/ WakeMarks \/ ReceiptLost
    \/ WakeThrows \/ RecoveryThrows \/ Crash
<1> SUFFICES ASSUME [LoopNext]_loopVars
             PROVE  \/ QuietStep
                    \/ \E by \in {"boot", "caller"} : WakeClaims(by)
                    \/ FlueAdmits \/ WakeMarks \/ ReceiptLost
                    \/ WakeThrows \/ RecoveryThrows \/ Crash
    OBVIOUS
<1> USE DEF QuietStep, store, vars, batchVars, bootVars, wakeCall, flueVars, envVars
<1>1. CASE Arrivals \/ ClockTick \/ LoopTick
    BY <1>1 DEF Arrivals, AdmitDelta, EscalateIntent, AdmitEvent, ClockTick, LoopTick, AdmitDraft,
                RunProactiveClock, Tick
<1>2. CASE WakeStep
    BY <1>2 DEF WakeStep, WakeFindsNothing, Begin, Returned
<1>3. CASE BootStep
    BY <1>3 DEF BootStep, Configure, BeginRecovery, RecoverPrompt, FailBoot, BootSweeps,
                MarkPromptAccepted, SetEffect
<1>4. CASE TurnStep
    BY <1>4 DEF TurnStep, TurnStarts, TurnRecords, TurnSchedules, TurnDelivers, TurnSettles, TurnReadsGraph, TurnEnds,
                RecordPrompt, RecordSilence, ScheduleWake, MarkPromptAccepted, SetEffect, SettleBatch, ClaimBatch
<1>5. CASE Trouble \/ UNCHANGED loopVars
    BY <1>5 DEF Trouble, RetireSurface, loopVars
<1> QED
    BY <1>1, <1>2, <1>3, <1>4, <1>5 DEF LoopNext

LEMMA SubmissionsStep == LoopInv /\ Submissions /\ [LoopNext]_loopVars => Submissions'
<1> SUFFICES ASSUME LoopInv, Submissions, [LoopNext]_loopVars PROVE Submissions'
    OBVIOUS
<1>1. CASE QuietStep
    BY <1>1 DEF QuietStep, Submissions, Unsubmitted
<1>2. CASE WakeThrows \/ RecoveryThrows \/ Crash
  <2>1. /\ crashes' \in Nat /\ faults' \in Nat
        /\ crashes' + faults' = 1 + crashes + faults
        /\ sent' = sent /\ dispatched' = dispatched
      BY <1>2 DEF WakeThrows, RecoveryThrows, Crash, Submissions, store, vars, batchVars, flueVars
  <2>2. waking' \in {waking, None}
      BY <1>2 DEF WakeThrows, RecoveryThrows, Crash
  <2>3. \A b \in Batch : sent[b] \in Nat
      BY DEF LoopInv, LoopTypeOK
  <2>4. waking' # None /\ ~ waking'.admitted => waking'.batch \notin dispatched'
      BY <2>1, <2>2 DEF Submissions
  <2>5. \A b \in Batch : sent'[b] <= crashes' + faults'
      BY <2>1, <2>3 DEF Submissions
  <2>6. \A b \in Batch : sent'[b] <= 1 + crashes' + faults'
      BY <2>1, <2>3, <2>5
  <2> QED
      BY <2>1, <2>4, <2>5, <2>6 DEF Submissions
<1>3. ASSUME NEW by \in {"boot", "caller"}, WakeClaims(by)
      PROVE  Submissions'
  <2>1. PICK b \in created' \ dispatched' : waking' = [batch |-> b, admitted |-> FALSE, by |-> by]
      BY <1>3, WakeClaimsTyped
  <2>2. /\ UNCHANGED <<sent, crashes, faults, dispatched>>
        /\ waking = None /\ boot # "failed"
      BY <1>3 DEF WakeClaims, Begin, InboxOpen, ClaimBatch, store, vars, batchVars, flueVars, envVars
  <2>3. \A c \in Batch : Unsubmitted(c)' => Unsubmitted(c)
      BY <2>2 DEF Unsubmitted
  <2>4. waking'.batch \notin dispatched'
      BY <2>1
  <2>5. crashes' = crashes /\ faults' = faults /\ sent' = sent
      BY <2>2
  <2> QED
      BY <2>3, <2>4, <2>5 DEF Submissions
<1>4. CASE FlueAdmits
  <2>1. /\ waking # None /\ ~ waking.admitted
        /\ waking' = [waking EXCEPT !.admitted = TRUE]
        /\ sent' = [sent EXCEPT ![waking.batch] = @ + 1]
        /\ UNCHANGED <<crashes, faults, dispatched, boot>>
      BY <1>4 DEF FlueAdmits, store, vars, batchVars, bootVars, envVars
  <2>2. waking \in [batch : created, admitted : BOOLEAN, by : {"boot", "caller"}]
      BY <2>1 DEF LoopInv, LoopTypeOK
  <2>3. waking'.admitted /\ waking'.batch = waking.batch /\ waking' # None
      BY <2>1, <2>2, LoopConstants, KnownBatches
  <2>4. sent[waking.batch] <= crashes + faults
      BY <2>1, KnownBatches DEF Submissions, Unsubmitted
  <2>5. \A b \in Batch : sent[b] \in Nat /\ sent'[b] = IF b = waking.batch THEN sent[b] + 1 ELSE sent[b]
      BY <2>1 DEF LoopInv, LoopTypeOK
  <2>6. \A c \in Batch \ {waking.batch} : Unsubmitted(c)' => Unsubmitted(c)
      BY <2>1, <2>3 DEF Unsubmitted
  <2>7. \A c \in Batch : sent'[c] <= 1 + crashes + faults
      BY <2>4, <2>5 DEF Submissions
  <2>8. ASSUME NEW c \in Batch, Unsubmitted(c)'  PROVE sent'[c] <= crashes + faults
    <3>1. c # waking.batch
        BY <2>1, <2>3, <2>8 DEF Unsubmitted
    <3> QED
        BY <2>5, <2>6, <2>8, <3>1 DEF Submissions
  <2> QED
      BY <2>1, <2>3, <2>7, <2>8 DEF Submissions
<1>5. CASE WakeMarks
  <2>1. /\ waking # None /\ waking' = None /\ boot # "failed"
        /\ dispatched' = dispatched \cup {waking.batch}
        /\ UNCHANGED <<sent, crashes, faults>>
      BY <1>5 DEF WakeMarks, InboxOpen, MarkBatchDispatched, flueVars, envVars
  <2> QED
      BY <2>1 DEF Submissions, Unsubmitted
<1>6. CASE ReceiptLost
  <2>1. waking' = None /\ boot' = "failed" /\ UNCHANGED <<sent, crashes, faults, dispatched>>
      BY <1>6 DEF ReceiptLost, InboxOpen, store, vars, batchVars, bootVars, flueVars, envVars
  <2> QED
      BY <2>1 DEF Submissions, Unsubmitted
<1> QED
    BY <1>1, <1>2, <1>3, <1>4, <1>5, <1>6, QuietSteps

(* However many wakes are called and however they interleave with turns    *)
(* and boots, only a crash or a failed dispatch submits a Batch again.     *)
THEOREM DuplicatesAreBounded == LoopSpec => []DuplicatesBounded
<1>1. LoopInv /\ Submissions => DuplicatesBounded
    BY DEF Submissions, DuplicatesBounded
<1> QED
    BY <1>1, InitSubmissions, SubmissionsStep, LoopInvariant, PTL DEF LoopSpec


-----------------------------------------------------------------------------
(* The life of the credential.                                             *)

Begun == {"reading", "refreshing", "answered", "saving", "releasing", "abandoning"}
InCharge(c) == step[c] \in Begun /\ (Leased => lease.owner = c)
Outcome(c) == IF next[c] = 0 THEN seen[c] ELSE next[c]

CredentialTyped ==
  /\ storage \in {"file", "tenant"}
  /\ lease \in [owner : Call \cup {NoCall}, left : 0..Lease]
  /\ issued \in Credential
  /\ stored \in 1..issued
  /\ usable \subseteq 1..issued
  /\ expired \subseteq 1..issued
  /\ everSaved \subseteq 1..issued
  /\ step \in [Call -> Step]
  /\ seen \in [Call -> 0..issued]
  /\ next \in [Call -> 0..issued]
  /\ answer \in [Call -> {"none", "ok", "failed", "died"}]
  /\ presented \in [Credential -> Nat]
  /\ chain \in [Process -> Seq(Call)]
  /\ kills \in 0..MaxKills

(* The calls of a process stand in line, and the first of them works.      *)
Lined ==
  /\ \A p \in Process : \A k \in DOMAIN chain[p] :
       LET c == chain[p][k]
       IN  /\ ProcessOf[c] = p
           /\ step[c] \notin {"idle", "done"}
           /\ k > 1 => step[c] = "queued"
           /\ \A j \in DOMAIN chain[p] : chain[p][j] = c => j = k
  /\ \A c \in Call : step[c] \in Begun => InTurn(c)
  /\ ~Leased => \A c, d \in Call : ProcessOf[c] = ProcessOf[d]

(* What a call knows at its stage.                                         *)
Known ==
  \A c \in Call :
    /\ step[c] = "idle" => seen[c] = 0 /\ next[c] = 0
    /\ step[c] = "queued" => seen[c] = 0 \/ next[c] = 0
    /\ step[c] \in {"reading", "refreshing"} => next[c] = 0
    /\ step[c] = "refreshing" => seen[c] \in everSaved
    /\ step[c] \in {"answered", "saving"} => next[c] # 0
    /\ step[c] = "releasing" => Outcome(c) \in everSaved
    /\ answer[c] = "ok" => step[c] = "done" /\ Outcome(c) \in everSaved

(* A successor that waits to be saved is nobody else's.                    *)
Unsaved ==
  \A c \in Call : next[c] # 0 =>
    /\ step[c] \in {"queued", "answered", "saving"} => next[c] \notin everSaved
    /\ \A d \in Call : next[d] = next[c] => d = c

Displaced ==
  \A c \in Call : (Leased /\ lease.owner # c /\ step[c] \in Begun \ {"reading"}) => seen[c] \in slipped

Current ==
  \A c \in Call :
    (InCharge(c) /\ seen[c] # 0 /\ step[c] \in {"refreshing", "answered", "saving"}) => stored = seen[c]

Once ==
  /\ stored \in everSaved
  /\ \A n \in Credential : presented[n] > 0 =>
       /\ n \in everSaved
       /\ \/ n \in slipped
          \/ /\ presented[n] = 1
             /\ n = stored => \E c \in Call :
                  InCharge(c) /\ seen[c] = n /\ step[c] \in {"answered", "saving", "abandoning"}

CredentialInv == CredentialTyped /\ Lined /\ Known /\ Unsaved /\ Displaced /\ Current /\ Once

LEMMA InitCredential == CredentialInit => CredentialInv
<1> SUFFICES ASSUME CredentialInit PROVE CredentialInv
    OBVIOUS
<1> USE DEF CredentialInit, CredentialInitAt
<1>1. CredentialTyped
    BY CredentialConstants DEF CredentialTyped, Credential, Step
<1>2. Lined
    BY DEF Lined, Begun, Leased
<1>3. Known /\ Unsaved /\ Displaced /\ Current
    BY DEF Known, Unsaved, Displaced, Current, InCharge, Begun
<1>4. Once
    BY DEF Once
<1> QED
    BY <1>1, <1>2, <1>3, <1>4 DEF CredentialInv

(* Two calls in charge would be the first of one line, or hold one lease.  *)
LEMMA OneInCharge ==
  ASSUME CredentialInv, NEW c \in Call, NEW d \in Call, InCharge(c), InCharge(d)
  PROVE  c = d
<1>1. CASE Leased
    BY <1>1 DEF InCharge
<1>2. CASE ~Leased
    BY <1>2 DEF CredentialInv, Lined, InCharge, InTurn
<1> QED
    BY <1>1, <1>2

LEMMA InLine ==
  ASSUME CredentialTyped, Lined, NEW p \in Process, NEW k \in DOMAIN chain[p]
  PROVE  /\ chain[p][k] \in Call
         /\ step[chain[p][k]] \notin {"idle", "done"}
<1>1. chain[p] \in Seq(Call)
    BY DEF CredentialTyped
<1>2. chain[p][k] \in Call
    BY <1>1
<1>3. step[chain[p][k]] \notin {"idle", "done"}
    BY DEF Lined
<1> QED
    BY <1>2, <1>3

LEMMA GoTyped ==
  ASSUME CredentialTyped, NEW c \in Call, NEW to \in Step, Go(c, to)
  PROVE  /\ step' \in [Call -> Step] /\ step'[c] = to
         /\ \A d \in Call : d # c => step'[d] = step[d]
BY DEF CredentialTyped, Go

LEMMA QueueTyped ==
  ASSUME CredentialTyped, NEW c \in Call, Queue(c)
  PROVE  /\ chain' \in [Process -> Seq(Call)]
         /\ chain'[ProcessOf[c]] = Append(chain[ProcessOf[c]], c)
         /\ \A p \in Process : p # ProcessOf[c] => chain'[p] = chain[p]
<1>1. ProcessOf[c] \in Process /\ chain[ProcessOf[c]] \in Seq(Call)
    BY CredentialConstants DEF CredentialTyped
<1> QED
    BY <1>1 DEF CredentialTyped, Queue

LEMMA LeaveTyped ==
  ASSUME CredentialTyped, NEW c \in Call, NEW how \in {"ok", "failed"}, InTurn(c), Leave(c, how)
  PROVE  /\ chain' \in [Process -> Seq(Call)]
         /\ chain'[ProcessOf[c]] = Tail(chain[ProcessOf[c]])
         /\ \A p \in Process : p # ProcessOf[c] => chain'[p] = chain[p]
         /\ step' \in [Call -> Step] /\ step'[c] = "done"
         /\ \A d \in Call : d # c => step'[d] = step[d]
         /\ answer' \in [Call -> {"none", "ok", "failed", "died"}]
         /\ answer'[c] \in {answer[c], how}
         /\ \A d \in Call : d # c => answer'[d] = answer[d]
<1>1. ProcessOf[c] \in Process /\ chain[ProcessOf[c]] \in Seq(Call) /\ chain[ProcessOf[c]] # <<>>
    BY CredentialConstants DEF CredentialTyped, InTurn
<1>2. Tail(chain[ProcessOf[c]]) \in Seq(Call)
    BY <1>1
<1>3. step' \in [Call -> Step] /\ step'[c] = "done" /\ \A d \in Call : d # c => step'[d] = step[d]
    BY DEF Leave, Go, CredentialTyped, Step
<1> QED
    BY <1>1, <1>2, <1>3 DEF CredentialTyped, Leave

-----------------------------------------------------------------------------
(* Type correctness.                                                       *)

LEMMA TypedStep == CredentialInv /\ [CredentialNext]_credentialVars => CredentialTyped'
<1> SUFFICES ASSUME CredentialInv, [CredentialNext]_credentialVars PROVE CredentialTyped'
    OBVIOUS
<1>0. CredentialTyped /\ Lined /\ Known /\ Unsaved /\ Displaced /\ Current /\ Once
    BY DEF CredentialInv
<1> USE DEF provider, callVars, Credential
<1>1. ASSUME NEW c \in Call, Authorize(c) PROVE CredentialTyped'
  <2>1. step' \in [Call -> Step] /\ chain' \in [Process -> Seq(Call)]
      BY <1>0, <1>1, GoTyped, QueueTyped DEF Authorize, CredentialTyped, Step
  <2>2. stored \in 0..issued
      BY <1>0 DEF CredentialTyped
  <2>3. seen' = [seen EXCEPT ![c] = stored] /\ (answer' = answer \/ answer' = [answer EXCEPT ![c] = "ok"])
        /\ UNCHANGED <<storage, stored, lease, provider, next, everSaved, kills>>
      BY <1>1 DEF Authorize
  <2> QED
      BY <1>0, <2>1, <2>2, <2>3 DEF CredentialTyped
<1>2. ASSUME NEW c \in Call, Authenticate(c) PROVE CredentialTyped'
  <2>1. step' \in [Call -> Step] /\ chain' \in [Process -> Seq(Call)]
      BY <1>0, <1>2, GoTyped, QueueTyped DEF Authenticate, Step
  <2>2. issued' = issued + 1 /\ issued' \in Credential /\ next' = [next EXCEPT ![c] = issued']
        /\ usable' = usable \cup {issued'}
      BY <1>0, <1>2, CredentialConstants DEF Authenticate, CredentialTyped
  <2>3. 0..issued \subseteq 0..issued' /\ 1..issued \subseteq 1..issued' /\ issued' \in 0..issued' /\ issued' \in 1..issued'
      BY <1>0, <2>2, CredentialConstants DEF CredentialTyped
  <2>4. UNCHANGED <<storage, stored, lease, expired, presented, seen, answer, everSaved, kills>>
      BY <1>2 DEF Authenticate
  <2> QED
      BY <1>0, <2>1, <2>2, <2>3, <2>4 DEF CredentialTyped
<1>3. ASSUME NEW c \in Call, Acquire(c) PROVE CredentialTyped'
  <2>1. step' \in [Call -> Step]
      BY <1>0, <1>3, GoTyped DEF Acquire, Starts, Step
  <2>2. lease' \in [owner : Call \cup {NoCall}, left : 0..Lease]
      BY <1>0, <1>3, CredentialConstants DEF Acquire, Starts, CredentialTyped
  <2> QED
      BY <1>0, <1>3, <2>1, <2>2 DEF Acquire, Starts, CredentialTyped
<1>4. ASSUME NEW c \in Call, AbortedWaiting(c) PROVE CredentialTyped'
  <2>1. InTurn(c) /\ Leave(c, "failed")
      BY <1>0, <1>4 DEF AbortedWaiting, Lined, Begun
  <2> QED
      BY <1>0, <1>4, <2>1, LeaveTyped DEF AbortedWaiting, CredentialTyped
<1>5. ASSUME NEW c \in Call, ReadLatest(c) PROVE CredentialTyped'
  <2>1. step' \in [Call -> Step]
      BY <1>0, <1>5, GoTyped DEF ReadLatest, Reads, Step
  <2>2. stored \in 0..issued
      BY <1>0 DEF CredentialTyped
  <2> QED
      BY <1>0, <1>5, <2>1, <2>2 DEF ReadLatest, Reads, CredentialTyped
<1>6. ASSUME NEW c \in Call, Present(c) PROVE CredentialTyped'
  <2>1. step' \in [Call -> Step]
      BY <1>0, <1>6, GoTyped DEF Present, Step
  <2>2. presented' \in [Credential -> Nat]
    <3>1. seen[c] \in Credential
        BY <1>0, <1>6, CredentialConstants DEF Present, Known, CredentialTyped
    <3>2. presented' = [presented EXCEPT ![seen[c]] = presented[seen[c]] + 1]
        BY <1>6 DEF Present
    <3> QED
        BY <1>0, <3>1, <3>2 DEF CredentialTyped
  <2>3. CASE UNCHANGED <<issued, usable, next>>
      BY <1>0, <1>6, <2>1, <2>2, <2>3 DEF Present, CredentialTyped
  <2>4. CASE issued' = issued + 1
    <3>1. issued' \in Credential /\ usable' \subseteq usable \cup {issued'}
          /\ (next' = [next EXCEPT ![c] = issued'] \/ next' = next)
        BY <1>0, <1>6, <2>4, CredentialConstants DEF Present, CredentialTyped
    <3>2. 0..issued \subseteq 0..issued' /\ 1..issued \subseteq 1..issued' /\ issued' \in 0..issued' /\ issued' \in 1..issued'
        BY <1>0, <2>4, <3>1, CredentialConstants DEF CredentialTyped
    <3>3. UNCHANGED <<storage, stored, lease, expired, chain, seen, answer, everSaved, kills>>
        BY <1>6 DEF Present
    <3> QED
        BY <1>0, <2>1, <2>2, <3>1, <3>2, <3>3 DEF CredentialTyped
  <2> QED
      BY <1>6, <2>3, <2>4 DEF Present
<1>7. ASSUME NEW c \in Call, RefreshFails(c) PROVE CredentialTyped'
    BY <1>0, <1>7, GoTyped DEF RefreshFails, CredentialTyped, Step
<1>8. ASSUME NEW c \in Call, Finish(c) PROVE CredentialTyped'
    BY <1>0, <1>8, GoTyped DEF Finish, CredentialTyped, Step
<1>9. ASSUME NEW c \in Call, Save(c) PROVE CredentialTyped'
  <2>1. step' \in [Call -> Step]
      BY <1>0, <1>9, GoTyped DEF Save, Saves, Step
  <2>2. next[c] \in 1..issued
      BY <1>0, <1>9 DEF Save, Saves, Known, CredentialTyped
  <2> QED
      BY <1>0, <1>9, <2>1, <2>2 DEF Save, Saves, CredentialTyped
<1>10. ASSUME NEW c \in Call, SaveFails(c) PROVE CredentialTyped'
    BY <1>0, <1>10, GoTyped DEF SaveFails, CredentialTyped, Step
<1>11. ASSUME NEW c \in Call, Release(c) PROVE CredentialTyped'
  <2>1. CASE Leave(c, "ok")
    <3>1. InTurn(c)
        BY <1>0, <1>11 DEF Release, Lined, Begun
    <3>2. lease' \in [owner : Call \cup {NoCall}, left : 0..Lease]
        BY <1>0, <1>11, CredentialConstants DEF Release, CredentialTyped
    <3> QED
        BY <1>0, <1>11, <2>1, <3>1, <3>2, LeaveTyped DEF Release, CredentialTyped
  <2>2. CASE Go(c, "abandoning") /\ UNCHANGED <<lease, chain, answer>>
      BY <1>0, <1>11, <2>2, GoTyped DEF Release, CredentialTyped, Step
  <2> QED
      BY <1>11, <2>1, <2>2 DEF Release
<1>12. ASSUME NEW c \in Call, Abandon(c) PROVE CredentialTyped'
  <2>1. InTurn(c) /\ Leave(c, "failed")
      BY <1>0, <1>12 DEF Abandon, Lined, Begun
  <2>2. lease' \in [owner : Call \cup {NoCall}, left : 0..Lease]
      BY <1>0, <1>12, CredentialConstants DEF Abandon, CredentialTyped
  <2> QED
      BY <1>0, <1>12, <2>1, <2>2, LeaveTyped DEF Abandon, CredentialTyped
<1>13. ASSUME NEW c \in Call, Heartbeat(c) PROVE CredentialTyped'
  <2>1. lease' = lease \/ lease' = [lease EXCEPT !.left = Lease]
      BY <1>13 DEF Heartbeat
  <2>2. lease' \in [owner : Call \cup {NoCall}, left : 0..Lease]
      BY <1>0, <2>1, CredentialConstants DEF CredentialTyped
  <2> QED
      BY <1>0, <1>13, <2>2 DEF Heartbeat, CredentialTyped
<1>14. ASSUME NEW c \in Call, Abort(c) PROVE CredentialTyped'
    BY <1>0, <1>14, CredentialConstants DEF Abort, CredentialTyped, Step
<1>15. ASSUME NEW p \in Process, Kill(p) PROVE CredentialTyped'
  <2>1. step' \in [Call -> Step] /\ answer' \in [Call -> {"none", "ok", "failed", "died"}]
      BY <1>0, <1>15 DEF Kill, CredentialTyped, Step
  <2>2. chain' \in [Process -> Seq(Call)] /\ kills' \in 0..MaxKills
      BY <1>0, <1>15, CredentialConstants DEF Kill, CredentialTyped
  <2> QED
      BY <1>0, <1>15, <2>1, <2>2 DEF Kill, CredentialTyped
<1>16. ASSUME LeaseRunsDown PROVE CredentialTyped'
  <2>1. lease' \in [owner : Call \cup {NoCall}, left : 0..Lease]
    <3>1. lease.left \in 0..Lease /\ lease.left - 1 \in 0..Lease
        BY <1>0, <1>16, CredentialConstants DEF LeaseRunsDown, CredentialTyped
    <3>2. lease' = [lease EXCEPT !.left = lease.left - 1]
        BY <1>16 DEF LeaseRunsDown
    <3> QED
        BY <1>0, <3>1, <3>2 DEF CredentialTyped
  <2> QED
      BY <1>0, <1>16, <2>1 DEF LeaseRunsDown, CredentialTyped
<1>17. ASSUME ExpireCredential PROVE CredentialTyped'
    BY <1>0, <1>17, CredentialConstants DEF ExpireCredential, CredentialTyped, Step
<1>18. CASE UNCHANGED credentialVars
    BY <1>0, <1>18, CredentialConstants DEF credentialVars, CredentialTyped, Step
<1> QED
    BY <1>1, <1>2, <1>3, <1>4, <1>5, <1>6, <1>7, <1>8, <1>9, <1>10, <1>11, <1>12, <1>13,
       <1>14, <1>15, <1>16, <1>17, <1>18 DEF CredentialNext, Proceed


-----------------------------------------------------------------------------
(* The lines of the processes.                                             *)

Stays(c, s) == step' = [step EXCEPT ![c] = s] /\ chain' = chain
LineMoves ==
  /\ storage' = storage
  /\ \/ chain' = chain /\ step' = step
     \/ \E c \in Call : InTurn(c) /\ step[c] \in Begun \cup {"queued"} /\ \E s \in Begun : Stays(c, s)
     \/ \E c \in Call : step[c] = "idle" /\ Stays(c, "done")
     \/ \E c \in Call : step[c] = "idle" /\ step' = [step EXCEPT ![c] = "queued"] /\ Queue(c)
     \/ \E c \in Call : /\ InTurn(c) /\ step' = [step EXCEPT ![c] = "done"]
                        /\ chain' = [chain EXCEPT ![ProcessOf[c]] = Tail(chain[ProcessOf[c]])]
     \/ \E p \in Process :
          /\ chain' = [chain EXCEPT ![p] = <<>>]
          /\ step' = [c \in Call |-> IF ProcessOf[c] = p /\ step[c] \notin {"idle", "done"} THEN "done" ELSE step[c]]

LEMMA LineStep == CredentialInv /\ [CredentialNext]_credentialVars => LineMoves
<1> SUFFICES ASSUME CredentialInv, [CredentialNext]_credentialVars PROVE LineMoves
    OBVIOUS
<1>0. CredentialTyped /\ Lined /\ Known /\ Unsaved /\ Displaced /\ Current /\ Once
    BY DEF CredentialInv
<1> USE DEF callVars
<1>1. ASSUME NEW c \in Call, Authorize(c) PROVE LineMoves
    BY <1>0, <1>1 DEF Authorize, LineMoves, Stays, Go, Queue, Leave, Begun, Lined
<1>2. ASSUME NEW c \in Call, Authenticate(c) PROVE LineMoves
    BY <1>0, <1>2 DEF Authenticate, LineMoves, Stays, Go, Queue, Leave, Begun, Lined
<1>3. ASSUME NEW c \in Call, Acquire(c) PROVE LineMoves
    BY <1>0, <1>3 DEF Acquire, Starts, LineMoves, Stays, Go, Queue, Leave, Begun, Lined
<1>4. ASSUME NEW c \in Call, AbortedWaiting(c) PROVE LineMoves
    BY <1>0, <1>4 DEF AbortedWaiting, LineMoves, Stays, Go, Queue, Leave, Begun, Lined
<1>5. ASSUME NEW c \in Call, ReadLatest(c) PROVE LineMoves
  <2>1. InTurn(c)
      BY <1>0, <1>5 DEF ReadLatest, Reads, Lined, Begun
  <2> QED
      BY <1>5, <2>1 DEF ReadLatest, Reads, LineMoves, Stays, Go, Leave, Begun
<1>6. ASSUME NEW c \in Call, Present(c) PROVE LineMoves
  <2>1. InTurn(c)
      BY <1>0, <1>6 DEF Present, Lined, Begun
  <2> QED
      BY <1>6, <2>1 DEF Present, LineMoves, Stays, Go, Leave, Begun
<1>7. ASSUME NEW c \in Call, RefreshFails(c) PROVE LineMoves
  <2>1. InTurn(c)
      BY <1>0, <1>7 DEF RefreshFails, Lined, Begun
  <2> QED
      BY <1>7, <2>1 DEF RefreshFails, LineMoves, Stays, Go, Leave, Begun
<1>8. ASSUME NEW c \in Call, Finish(c) PROVE LineMoves
  <2>1. InTurn(c)
      BY <1>0, <1>8 DEF Finish, Lined, Begun
  <2> QED
      BY <1>8, <2>1 DEF Finish, LineMoves, Stays, Go, Leave, Begun
<1>9. ASSUME NEW c \in Call, Save(c) PROVE LineMoves
  <2>1. InTurn(c)
      BY <1>0, <1>9 DEF Save, Saves, Lined, Begun
  <2> QED
      BY <1>9, <2>1 DEF Save, Saves, LineMoves, Stays, Go, Leave, Begun
<1>10. ASSUME NEW c \in Call, SaveFails(c) PROVE LineMoves
  <2>1. InTurn(c)
      BY <1>0, <1>10 DEF SaveFails, Lined, Begun
  <2> QED
      BY <1>10, <2>1 DEF SaveFails, LineMoves, Stays, Go, Leave, Begun
<1>11. ASSUME NEW c \in Call, Release(c) PROVE LineMoves
  <2>1. InTurn(c)
      BY <1>0, <1>11 DEF Release, Lined, Begun
  <2> QED
      BY <1>11, <2>1 DEF Release, LineMoves, Stays, Go, Leave, Begun
<1>12. ASSUME NEW c \in Call, Abandon(c) PROVE LineMoves
  <2>1. InTurn(c)
      BY <1>0, <1>12 DEF Abandon, Lined, Begun
  <2> QED
      BY <1>12, <2>1 DEF Abandon, LineMoves, Stays, Go, Leave, Begun
<1>13. ASSUME NEW c \in Call, Heartbeat(c) PROVE LineMoves
    BY <1>0, <1>13 DEF Heartbeat, LineMoves, Stays, Go, Queue, Leave, Begun, Lined
<1>14. ASSUME NEW c \in Call, Abort(c) PROVE LineMoves
    BY <1>0, <1>14 DEF Abort, LineMoves, Stays, Go, Queue, Leave, Begun, Lined
<1>15. ASSUME NEW p \in Process, Kill(p) PROVE LineMoves
    BY <1>0, <1>15, ZenonT(60) DEF Kill, LineMoves, Stays, Go, Queue, Leave, Begun, Lined
<1>16. ASSUME LeaseRunsDown PROVE LineMoves
    BY <1>0, <1>16 DEF LeaseRunsDown, LineMoves, Stays, Go, Queue, Leave, Begun, Lined
<1>17. ASSUME ExpireCredential PROVE LineMoves
    BY <1>0, <1>17 DEF ExpireCredential, LineMoves, Stays, Go, Queue, Leave, Begun, Lined
<1>18. CASE UNCHANGED credentialVars
    BY <1>0, <1>18 DEF LineMoves, credentialVars, callVars
<1> QED
    BY <1>1, <1>2, <1>3, <1>4, <1>5, <1>6, <1>7, <1>8, <1>9, <1>10, <1>11, <1>12, <1>13,
       <1>14, <1>15, <1>16, <1>17, <1>18 DEF CredentialNext, Proceed

LEMMA LinedStep ==
  ASSUME CredentialInv, LineMoves, CredentialTyped'
  PROVE  Lined'
<1>0. /\ CredentialTyped /\ Lined
      /\ ProcessOf \in [Call -> Process] /\ storage' = storage
    BY CredentialConstants DEF CredentialInv, LineMoves
<1>1. CASE chain' = chain /\ step' = step
    BY <1>0, <1>1 DEF Lined, Leased, InTurn
<1>2. ASSUME NEW c \in Call, InTurn(c), step[c] \in Begun \cup {"queued"}, NEW s \in Begun, Stays(c, s)
      PROVE  Lined'
  <2>1. /\ chain' = chain /\ step'[c] = s /\ \A d \in Call : d # c => step'[d] = step[d]
        /\ s \notin {"idle", "done"}
      BY <1>0, <1>2 DEF Stays, CredentialTyped, Begun
  <2>2. ASSUME NEW p \in Process, NEW k \in DOMAIN chain[p], chain[p][k] = c PROVE k = 1
    <3>0. p = ProcessOf[c] /\ chain[p] \in Seq(Call)
        BY <1>0, <2>2 DEF Lined, CredentialTyped
    <3>1. chain[p] # <<>> /\ chain[p][1] = c /\ 1 \in DOMAIN chain[p]
        BY <1>2, <3>0 DEF InTurn
    <3> QED
        BY <1>0, <2>2, <3>1 DEF Lined
  <2>3. ASSUME NEW p \in Process, NEW k \in DOMAIN chain[p]
        PROVE  /\ ProcessOf[chain[p][k]] = p
               /\ step'[chain[p][k]] \notin {"idle", "done"}
               /\ k > 1 => step'[chain[p][k]] = "queued"
               /\ \A j \in DOMAIN chain[p] : chain[p][j] = chain[p][k] => j = k
    <3>1. chain[p][k] \in Call
        BY <1>0 DEF CredentialTyped
    <3> QED
        BY <1>0, <2>1, <2>2, <3>1 DEF Lined
  <2>4. \A d \in Call : step'[d] \in Begun => InTurn(d)'
      BY <1>0, <1>2, <2>1 DEF Lined, InTurn
  <2> QED
      BY <1>0, <2>1, <2>3, <2>4 DEF Lined, Leased
<1>3. ASSUME NEW c \in Call, step[c] = "idle", Stays(c, "done") PROVE Lined'
  <2>1. /\ chain' = chain /\ step'[c] = "done" /\ \A d \in Call : d # c => step'[d] = step[d]
      BY <1>0, <1>3 DEF Stays, CredentialTyped
  <2>2. ASSUME NEW p \in Process, NEW k \in DOMAIN chain[p] PROVE chain[p][k] \in Call \ {c}
      BY <1>0, <1>3, InLine
  <2> QED
      BY <1>0, <2>1, <2>2 DEF Lined, Leased, InTurn, Begun
<1>4. ASSUME NEW c \in Call, step[c] = "idle", step' = [step EXCEPT ![c] = "queued"], Queue(c) PROVE Lined'
  <2> DEFINE line == chain[ProcessOf[c]]
  <2>1. /\ step'[c] = "queued" /\ \A d \in Call : d # c => step'[d] = step[d]
      BY <1>0, <1>4 DEF CredentialTyped
  <2>2. /\ line \in Seq(Call) /\ chain'[ProcessOf[c]] = Append(line, c)
        /\ \A p \in Process : p # ProcessOf[c] => chain'[p] = chain[p]
      BY <1>0, <1>4, QueueTyped DEF CredentialTyped
  <2>3. ASSUME NEW p \in Process, NEW k \in DOMAIN chain[p] PROVE chain[p][k] \in Call \ {c}
      BY <1>0, <1>4, InLine
  <2>4. ASSUME NEW p \in Process, NEW k \in DOMAIN chain'[p]
        PROVE  /\ ProcessOf[chain'[p][k]] = p
               /\ step'[chain'[p][k]] \notin {"idle", "done"}
               /\ k > 1 => step'[chain'[p][k]] = "queued"
               /\ \A j \in DOMAIN chain'[p] : chain'[p][j] = chain'[p][k] => j = k
    <3>1. CASE p # ProcessOf[c]
        BY <1>0, <2>1, <2>2, <2>3, <2>4, <3>1 DEF Lined
    <3>2. CASE p = ProcessOf[c]
      <4>1. /\ DOMAIN chain'[p] = 1..(Len(line) + 1) /\ DOMAIN line = 1..Len(line) /\ Len(line) \in Nat
            /\ \A i \in 1..Len(line) : chain'[p][i] = line[i]
            /\ chain'[p][Len(line) + 1] = c
          BY <2>2, <3>2
      <4>2. \A i \in 1..Len(line) : line[i] \in Call \ {c}
          BY <1>0, <2>3, <4>1
      <4> HIDE DEF line
      <4>3. CASE k = Len(line) + 1
        <5>1. \A j \in DOMAIN chain'[p] : chain'[p][j] = c => j = k
            BY <4>1, <4>2, <4>3
        <5> QED
            BY <2>1, <3>2, <4>1, <4>3, <5>1
      <4>4. CASE k \in 1..Len(line)
        <5>1. /\ ProcessOf[line[k]] = p /\ step[line[k]] \notin {"idle", "done"}
              /\ k > 1 => step[line[k]] = "queued"
              /\ \A j \in 1..Len(line) : line[j] = line[k] => j = k
            BY <1>0, <3>2, <4>1, <4>4 DEF Lined, line
        <5>2. chain'[p][k] = line[k] /\ line[k] \in Call \ {c} /\ step'[line[k]] = step[line[k]]
            BY <2>1, <4>1, <4>2, <4>4
        <5>3. \A j \in DOMAIN chain'[p] : chain'[p][j] = line[k] => j = k
            BY <4>1, <4>2, <4>4, <5>1
        <5> QED
            BY <5>1, <5>2, <5>3
      <4> QED
          BY <2>4, <4>1, <4>3, <4>4
    <3> QED
        BY <3>1, <3>2
  <2>5. ASSUME NEW d \in Call, step'[d] \in Begun PROVE InTurn(d)'
    <3>1. d # c /\ step[d] \in Begun /\ InTurn(d) /\ ProcessOf[d] \in Process
        BY <1>0, <2>1, <2>5 DEF Lined, Begun
    <3>2. CASE ProcessOf[d] # ProcessOf[c]
        BY <2>2, <3>1, <3>2 DEF InTurn
    <3>3. CASE ProcessOf[d] = ProcessOf[c]
        BY <2>2, <3>1, <3>3 DEF InTurn
    <3> QED
        BY <3>2, <3>3
  <2> QED
      BY <1>0, <2>4, <2>5 DEF Lined, Leased
<1>5. ASSUME NEW c \in Call, InTurn(c), step' = [step EXCEPT ![c] = "done"],
             chain' = [chain EXCEPT ![ProcessOf[c]] = Tail(chain[ProcessOf[c]])]
      PROVE  Lined'
  <2> DEFINE line == chain[ProcessOf[c]]
  <2>1. /\ step'[c] = "done" /\ \A d \in Call : d # c => step'[d] = step[d]
      BY <1>0, <1>5 DEF CredentialTyped
  <2>2. /\ line \in Seq(Call) /\ line # <<>> /\ line[1] = c
        /\ chain'[ProcessOf[c]] = Tail(line)
        /\ \A p \in Process : p # ProcessOf[c] => chain'[p] = chain[p]
      BY <1>0, <1>5 DEF CredentialTyped, InTurn
  <2>3. /\ Len(line) \in Nat \ {0} /\ DOMAIN line = 1..Len(line) /\ DOMAIN Tail(line) = 1..(Len(line) - 1)
        /\ \A i \in 1..(Len(line) - 1) : Tail(line)[i] = line[i + 1]
      BY <2>2
  <2>4. \A i \in 1..Len(line) : /\ line[i] \in Call /\ ProcessOf[line[i]] = ProcessOf[c]
                              /\ (i > 1 => step[line[i]] = "queued" /\ line[i] # c)
                              /\ \A j \in 1..Len(line) : line[j] = line[i] => j = i
    <3>1. \A i \in 1..Len(line) : /\ line[i] \in Call /\ ProcessOf[line[i]] = ProcessOf[c]
                              /\ (i > 1 => step[line[i]] = "queued")
                              /\ \A j \in 1..Len(line) : line[j] = line[i] => j = i
        BY <1>0, <2>2, <2>3 DEF Lined
    <3> QED
        BY <2>2, <2>3, <3>1
  <2>5. ASSUME NEW p \in Process, NEW k \in DOMAIN chain'[p]
        PROVE  /\ ProcessOf[chain'[p][k]] = p
               /\ step'[chain'[p][k]] \notin {"idle", "done"}
               /\ k > 1 => step'[chain'[p][k]] = "queued"
               /\ \A j \in DOMAIN chain'[p] : chain'[p][j] = chain'[p][k] => j = k
    <3>1. CASE p # ProcessOf[c]
      <4>1. chain'[p] = chain[p] /\ chain[p][k] \in Call /\ ProcessOf[chain[p][k]] = p
          BY <1>0, <2>2, <2>5, <3>1 DEF Lined, CredentialTyped
      <4>2. step'[chain[p][k]] = step[chain[p][k]]
          BY <2>1, <3>1, <4>1
      <4> QED
          BY <1>0, <2>5, <4>1, <4>2 DEF Lined
    <3>2. CASE p = ProcessOf[c]
      <4>0. chain'[p] = Tail(line)
          BY <2>2, <3>2
      <4> HIDE DEF line
      <4>1. k \in 1..(Len(line) - 1) /\ k + 1 \in 1..Len(line) /\ k + 1 > 1 /\ chain'[p][k] = line[k + 1]
          BY <2>3, <2>5, <4>0
      <4>2. step'[line[k + 1]] = "queued" /\ ProcessOf[line[k + 1]] = p
          BY <2>1, <2>4, <3>2, <4>1
      <4>3. ASSUME NEW j \in DOMAIN chain'[p], chain'[p][j] = chain'[p][k] PROVE j = k
        <5>1. j \in 1..(Len(line) - 1) /\ j + 1 \in 1..Len(line) /\ line[j + 1] = line[k + 1]
            BY <2>3, <4>0, <4>1, <4>3
        <5>2. j + 1 = k + 1
            BY <2>4, <4>1, <5>1
        <5> QED
            BY <2>3, <4>1, <5>1, <5>2
      <4> QED
          BY <4>1, <4>2, <4>3
    <3> QED
        BY <3>1, <3>2
  <2>6. ASSUME NEW d \in Call, step'[d] \in Begun PROVE InTurn(d)'
    <3>1. d # c /\ step[d] \in Begun /\ InTurn(d) /\ ProcessOf[d] \in Process
        BY <1>0, <2>1, <2>6 DEF Lined, Begun
    <3>2. ProcessOf[d] # ProcessOf[c]
        BY <1>5, <3>1 DEF InTurn
    <3> QED
        BY <2>2, <3>1, <3>2 DEF InTurn
  <2> QED
      BY <1>0, <2>5, <2>6 DEF Lined, Leased
<1>6. ASSUME NEW p \in Process, chain' = [chain EXCEPT ![p] = <<>>],
             step' = [c \in Call |-> IF ProcessOf[c] = p /\ step[c] \notin {"idle", "done"} THEN "done" ELSE step[c]]
      PROVE  Lined'
  <2>1. /\ chain'[p] = <<>> /\ \A q \in Process : q # p => chain'[q] = chain[q]
        /\ \A c \in Call : step'[c] = IF ProcessOf[c] = p /\ step[c] \notin {"idle", "done"} THEN "done" ELSE step[c]
      BY <1>0, <1>6 DEF CredentialTyped
  <2>2. ASSUME NEW q \in Process, NEW k \in DOMAIN chain'[q]
        PROVE  /\ ProcessOf[chain'[q][k]] = q
               /\ step'[chain'[q][k]] \notin {"idle", "done"}
               /\ k > 1 => step'[chain'[q][k]] = "queued"
               /\ \A j \in DOMAIN chain'[q] : chain'[q][j] = chain'[q][k] => j = k
    <3>1. q # p
        BY <2>1, <2>2
    <3>2. chain'[q] = chain[q] /\ chain[q][k] \in Call /\ ProcessOf[chain[q][k]] = q
        BY <1>0, <2>1, <2>2, <3>1 DEF Lined, CredentialTyped
    <3>3. step'[chain[q][k]] = step[chain[q][k]]
        BY <2>1, <3>1, <3>2
    <3> QED
        BY <1>0, <2>2, <3>2, <3>3 DEF Lined
  <2>3. ASSUME NEW d \in Call, step'[d] \in Begun PROVE InTurn(d)'
    <3>1. ProcessOf[d] # p /\ step[d] \in Begun /\ InTurn(d) /\ ProcessOf[d] \in Process
        BY <1>0, <2>1, <2>3 DEF Lined, Begun
    <3> QED
        BY <2>1, <3>1 DEF InTurn
  <2> QED
      BY <1>0, <2>2, <2>3 DEF Lined, Leased
<1> QED
    BY <1>1, <1>2, <1>3, <1>4, <1>5, <1>6 DEF LineMoves


-----------------------------------------------------------------------------
(* What the calls know and hold.                                           *)

LEMMA KnownStep == CredentialInv /\ [CredentialNext]_credentialVars => Known'
<1> SUFFICES ASSUME CredentialInv, [CredentialNext]_credentialVars PROVE Known'
    OBVIOUS
<1>0. CredentialTyped /\ Lined /\ Known /\ Unsaved /\ Displaced /\ Current /\ Once
    BY DEF CredentialInv
<1> USE DEF provider, callVars
<1>98. stored \in everSaved
    BY <1>0 DEF Once
<1>1. ASSUME NEW c \in Call, Authorize(c) PROVE Known'
  <2>1. /\ seen' = [seen EXCEPT ![c] = stored] /\ next' = next /\ everSaved' = everSaved
        /\ next[c] = 0 /\ seen'[c] \in everSaved'
        /\ \/ step' = [step EXCEPT ![c] = "queued"] /\ answer' = answer
           \/ step' = [step EXCEPT ![c] = "done"] /\ answer' = [answer EXCEPT ![c] = "ok"]
      BY <1>0, <1>98, <1>1 DEF Authorize, Go, Known, CredentialTyped
  <2>2. answer[c] # "ok"
      BY <1>0, <1>1 DEF Authorize, Known
  <2> QED
      BY <1>0, <2>1, <2>2 DEF Known, Outcome, CredentialTyped
<1>2. ASSUME NEW c \in Call, Authenticate(c) PROVE Known'
    BY <1>0, <1>2 DEF Authenticate, Known, Outcome, CredentialTyped, Go, Queue, Leave
<1>3. ASSUME NEW c \in Call, Acquire(c) PROVE Known'
    BY <1>0, <1>3 DEF Acquire, Starts, Known, Outcome, CredentialTyped, Go, Queue, Leave
<1>4. ASSUME NEW c \in Call, AbortedWaiting(c) PROVE Known'
    BY <1>0, <1>4 DEF AbortedWaiting, Known, Outcome, CredentialTyped, Go, Queue, Leave
<1>5. ASSUME NEW c \in Call, ReadLatest(c) PROVE Known'
  <2>1. /\ seen' = [seen EXCEPT ![c] = stored] /\ UNCHANGED <<next, everSaved, answer>>
        /\ next[c] = 0 /\ seen'[c] \in everSaved' /\ answer[c] # "ok"
        /\ \E s \in {"refreshing", "releasing"} : step' = [step EXCEPT ![c] = s]
      BY <1>0, <1>98, <1>5 DEF ReadLatest, Reads, Go, Known, CredentialTyped
  <2> QED
      BY <1>0, <2>1 DEF Known, Outcome, CredentialTyped
<1>6. ASSUME NEW c \in Call, Present(c) PROVE Known'
  <2>1. /\ UNCHANGED <<seen, everSaved, answer>> /\ answer[c] # "ok"
        /\ \/ next' = next /\ step' = [step EXCEPT ![c] = "abandoning"]
           \/ next' = [next EXCEPT ![c] = issued'] /\ issued' # 0 /\ step' = [step EXCEPT ![c] = "answered"]
      BY <1>0, <1>6 DEF Present, Go, Known, CredentialTyped, Credential
  <2> QED
      BY <1>0, <2>1 DEF Known, Outcome, CredentialTyped
<1>7. ASSUME NEW c \in Call, RefreshFails(c) PROVE Known'
    BY <1>0, <1>7 DEF RefreshFails, Known, Outcome, CredentialTyped, Go, Queue, Leave
<1>8. ASSUME NEW c \in Call, Finish(c) PROVE Known'
    BY <1>0, <1>8 DEF Finish, Known, Outcome, CredentialTyped, Go, Queue, Leave
<1>9. ASSUME NEW c \in Call, Save(c) PROVE Known'
    BY <1>0, <1>9 DEF Save, Saves, Known, Outcome, CredentialTyped, Go, Queue, Leave
<1>10. ASSUME NEW c \in Call, SaveFails(c) PROVE Known'
    BY <1>0, <1>10 DEF SaveFails, Known, Outcome, CredentialTyped, Go, Queue, Leave
<1>11. ASSUME NEW c \in Call, Release(c) PROVE Known'
    BY <1>0, <1>11 DEF Release, Known, Outcome, CredentialTyped, Go, Queue, Leave
<1>12. ASSUME NEW c \in Call, Abandon(c) PROVE Known'
    BY <1>0, <1>12 DEF Abandon, Known, Outcome, CredentialTyped, Go, Queue, Leave
<1>13. ASSUME NEW c \in Call, Heartbeat(c) PROVE Known'
    BY <1>0, <1>13 DEF Heartbeat, Known, Outcome, CredentialTyped, Go, Queue, Leave
<1>14. ASSUME NEW c \in Call, Abort(c) PROVE Known'
    BY <1>0, <1>14 DEF Abort, Known, Outcome, CredentialTyped, Go, Queue, Leave
<1>15. ASSUME NEW p \in Process, Kill(p) PROVE Known'
    BY <1>0, <1>15 DEF Kill, Known, Outcome, CredentialTyped, Go, Queue, Leave
<1>16. ASSUME LeaseRunsDown PROVE Known'
    BY <1>0, <1>16 DEF LeaseRunsDown, Known, Outcome, CredentialTyped, Go, Queue, Leave
<1>17. ASSUME ExpireCredential PROVE Known'
    BY <1>0, <1>17 DEF ExpireCredential, Known, Outcome, CredentialTyped, Go, Queue, Leave
<1>18. CASE UNCHANGED credentialVars
    BY <1>0, <1>18 DEF credentialVars, Known, Outcome, CredentialTyped, Go, Queue, Leave
<1> QED
    BY <1>1, <1>2, <1>3, <1>4, <1>5, <1>6, <1>7, <1>8, <1>9, <1>10, <1>11, <1>12, <1>13,
       <1>14, <1>15, <1>16, <1>17, <1>18 DEF CredentialNext, Proceed

LEMMA UnsavedStep == CredentialInv /\ [CredentialNext]_credentialVars => Unsaved'
<1> SUFFICES ASSUME CredentialInv, [CredentialNext]_credentialVars PROVE Unsaved'
    OBVIOUS
<1>0. CredentialTyped /\ Lined /\ Known /\ Unsaved /\ Displaced /\ Current /\ Once
    BY DEF CredentialInv
<1> USE DEF provider, callVars
<1>1. ASSUME NEW c \in Call, Authorize(c) PROVE Unsaved'
    BY <1>0, <1>1 DEF Authorize, Unsaved, Known, CredentialTyped, Go, Queue, Leave
<1>2. ASSUME NEW c \in Call, Authenticate(c) PROVE Unsaved'
  <2>1. issued' = issued + 1
      BY <1>2 DEF Authenticate
  <2>2. issued' \notin everSaved /\ \A d \in Call : next[d] # issued'
      BY <1>0, <2>1 DEF CredentialTyped, Credential
  <2>3. /\ everSaved' = everSaved /\ next' = [next EXCEPT ![c] = issued'] /\ step' = [step EXCEPT ![c] = "queued"]
      BY <1>2 DEF Authenticate, Go
  <2> QED
      BY <1>0, <2>2, <2>3 DEF Unsaved, CredentialTyped
<1>3. ASSUME NEW c \in Call, Acquire(c) PROVE Unsaved'
    BY <1>0, <1>3 DEF Acquire, Starts, Unsaved, Known, CredentialTyped, Go, Queue, Leave
<1>4. ASSUME NEW c \in Call, AbortedWaiting(c) PROVE Unsaved'
    BY <1>0, <1>4 DEF AbortedWaiting, Unsaved, Known, CredentialTyped, Go, Queue, Leave
<1>5. ASSUME NEW c \in Call, ReadLatest(c) PROVE Unsaved'
    BY <1>0, <1>5 DEF ReadLatest, Reads, Unsaved, Known, CredentialTyped, Go, Queue, Leave
<1>6. ASSUME NEW c \in Call, Present(c) PROVE Unsaved'
  <2>1. /\ everSaved' = everSaved
        /\ \/ next' = next /\ step' = [step EXCEPT ![c] = "abandoning"]
           \/ /\ issued' = issued + 1 /\ next' = [next EXCEPT ![c] = issued']
              /\ step' = [step EXCEPT ![c] = "answered"]
      BY <1>6 DEF Present, Go
  <2>2. CASE next' = next /\ step' = [step EXCEPT ![c] = "abandoning"]
      BY <1>0, <2>1, <2>2 DEF Unsaved, CredentialTyped
  <2>3. CASE /\ issued' = issued + 1 /\ next' = [next EXCEPT ![c] = issued']
             /\ step' = [step EXCEPT ![c] = "answered"]
    <3>1. issued' \notin everSaved /\ \A d \in Call : next[d] # issued'
        BY <1>0, <2>3 DEF CredentialTyped, Credential
    <3> QED
        BY <1>0, <2>1, <2>3, <3>1 DEF Unsaved, CredentialTyped
  <2> QED
      BY <2>1, <2>2, <2>3
<1>7. ASSUME NEW c \in Call, RefreshFails(c) PROVE Unsaved'
    BY <1>0, <1>7 DEF RefreshFails, Unsaved, Known, CredentialTyped, Go, Queue, Leave
<1>8. ASSUME NEW c \in Call, Finish(c) PROVE Unsaved'
    BY <1>0, <1>8 DEF Finish, Unsaved, Known, CredentialTyped, Go, Queue, Leave
<1>9. ASSUME NEW c \in Call, Save(c) PROVE Unsaved'
    BY <1>0, <1>9 DEF Save, Saves, Unsaved, Known, CredentialTyped, Go, Queue, Leave
<1>10. ASSUME NEW c \in Call, SaveFails(c) PROVE Unsaved'
    BY <1>0, <1>10 DEF SaveFails, Unsaved, Known, CredentialTyped, Go, Queue, Leave
<1>11. ASSUME NEW c \in Call, Release(c) PROVE Unsaved'
    BY <1>0, <1>11 DEF Release, Unsaved, Known, CredentialTyped, Go, Queue, Leave
<1>12. ASSUME NEW c \in Call, Abandon(c) PROVE Unsaved'
    BY <1>0, <1>12 DEF Abandon, Unsaved, Known, CredentialTyped, Go, Queue, Leave
<1>13. ASSUME NEW c \in Call, Heartbeat(c) PROVE Unsaved'
    BY <1>0, <1>13 DEF Heartbeat, Unsaved, Known, CredentialTyped, Go, Queue, Leave
<1>14. ASSUME NEW c \in Call, Abort(c) PROVE Unsaved'
    BY <1>0, <1>14 DEF Abort, Unsaved, Known, CredentialTyped, Go, Queue, Leave
<1>15. ASSUME NEW p \in Process, Kill(p) PROVE Unsaved'
    BY <1>0, <1>15 DEF Kill, Unsaved, Known, CredentialTyped, Go, Queue, Leave
<1>16. ASSUME LeaseRunsDown PROVE Unsaved'
    BY <1>0, <1>16 DEF LeaseRunsDown, Unsaved, Known, CredentialTyped, Go, Queue, Leave
<1>17. ASSUME ExpireCredential PROVE Unsaved'
    BY <1>0, <1>17 DEF ExpireCredential, Unsaved, Known, CredentialTyped, Go, Queue, Leave
<1>18. CASE UNCHANGED credentialVars
    BY <1>0, <1>18 DEF credentialVars, Unsaved, Known, CredentialTyped, Go, Queue, Leave
<1> QED
    BY <1>1, <1>2, <1>3, <1>4, <1>5, <1>6, <1>7, <1>8, <1>9, <1>10, <1>11, <1>12, <1>13,
       <1>14, <1>15, <1>16, <1>17, <1>18 DEF CredentialNext, Proceed

LEMMA DisplacedStep == CredentialInv /\ [CredentialNext]_credentialVars => Displaced'
<1> SUFFICES ASSUME CredentialInv, [CredentialNext]_credentialVars PROVE Displaced'
    OBVIOUS
<1>0. CredentialTyped /\ Lined /\ Known /\ Unsaved /\ Displaced /\ Current /\ Once
    BY DEF CredentialInv
<1> USE DEF provider, callVars
<1>1. ASSUME NEW c \in Call, Authorize(c) PROVE Displaced'
    BY <1>0, <1>1 DEF Authorize, Displaced, CredentialTyped, Go, Queue, Leave, Begun,
       Leased, Holds
<1>2. ASSUME NEW c \in Call, Authenticate(c) PROVE Displaced'
    BY <1>0, <1>2 DEF Authenticate, Displaced, CredentialTyped, Go, Queue, Leave, Begun,
       Leased, Holds
<1>3. ASSUME NEW c \in Call, Acquire(c) PROVE Displaced'
  <2>1. /\ UNCHANGED <<storage, seen>> /\ \E s \in Begun : step' = [step EXCEPT ![c] = s]
        /\ slipped \subseteq slipped'
        /\ Leased => /\ lease' = [owner |-> c, left |-> Lease]
                     /\ lease.owner # NoCall => seen[lease.owner] \in slipped'
      BY <1>3 DEF Acquire, Starts, Go, Begun
  <2>2. ASSUME NEW d \in Call, Leased, lease'.owner # d, step'[d] \in Begun \ {"reading"}
        PROVE  seen[d] \in slipped'
    <3>1. d # c /\ step[d] \in Begun \ {"reading"}
        BY <1>0, <2>1, <2>2 DEF CredentialTyped
    <3>2. CASE lease.owner = d
        BY <2>1, <2>2, <3>2, CredentialConstants
    <3>3. CASE lease.owner # d
        BY <1>0, <2>1, <2>2, <3>1, <3>3 DEF Displaced
    <3> QED
        BY <3>2, <3>3
  <2> QED
      BY <2>1, <2>2 DEF Displaced, Leased
<1>4. ASSUME NEW c \in Call, AbortedWaiting(c) PROVE Displaced'
    BY <1>0, <1>4 DEF AbortedWaiting, Displaced, CredentialTyped, Go, Queue, Leave, Begun,
       Leased, Holds
<1>5. ASSUME NEW c \in Call, ReadLatest(c) PROVE Displaced'
    BY <1>0, <1>5 DEF ReadLatest, Reads, Displaced, CredentialTyped, Go, Queue, Leave,
       Begun, Leased, Holds
<1>6. ASSUME NEW c \in Call, Present(c) PROVE Displaced'
    BY <1>0, <1>6 DEF Present, Displaced, CredentialTyped, Go, Queue, Leave, Begun, Leased,
       Holds
<1>7. ASSUME NEW c \in Call, RefreshFails(c) PROVE Displaced'
    BY <1>0, <1>7 DEF RefreshFails, Displaced, CredentialTyped, Go, Queue, Leave, Begun,
       Leased, Holds
<1>8. ASSUME NEW c \in Call, Finish(c) PROVE Displaced'
    BY <1>0, <1>8 DEF Finish, Displaced, CredentialTyped, Go, Queue, Leave, Begun, Leased,
       Holds
<1>9. ASSUME NEW c \in Call, Save(c) PROVE Displaced'
    BY <1>0, <1>9 DEF Save, Saves, Displaced, CredentialTyped, Go, Queue, Leave, Begun,
       Leased, Holds
<1>10. ASSUME NEW c \in Call, SaveFails(c) PROVE Displaced'
    BY <1>0, <1>10 DEF SaveFails, Displaced, CredentialTyped, Go, Queue, Leave, Begun,
       Leased, Holds
<1>11. ASSUME NEW c \in Call, Release(c) PROVE Displaced'
  <2>1. /\ step[c] = "releasing" /\ UNCHANGED <<storage, seen, slipped>>
        /\ \/ lease' = lease /\ \E s \in {"done", "abandoning"} : step' = [step EXCEPT ![c] = s]
           \/ (Leased => lease.owner = c) /\ step' = [step EXCEPT ![c] = "done"]
      BY <1>11 DEF Release, Go, Leave, Holds
  <2>2. ASSUME NEW d \in Call, Leased, lease'.owner # d, step'[d] \in Begun \ {"reading"}
        PROVE  lease.owner # d /\ step[d] \in Begun \ {"reading"}
      BY <1>0, <2>1, <2>2 DEF CredentialTyped, Begun
  <2> QED
      BY <1>0, <2>1, <2>2 DEF Displaced, Leased
<1>12. ASSUME NEW c \in Call, Abandon(c) PROVE Displaced'
    BY <1>0, <1>12 DEF Abandon, Displaced, CredentialTyped, Go, Queue, Leave, Begun,
       Leased, Holds
<1>13. ASSUME NEW c \in Call, Heartbeat(c) PROVE Displaced'
    BY <1>0, <1>13 DEF Heartbeat, Displaced, CredentialTyped, Go, Queue, Leave, Begun,
       Leased, Holds
<1>14. ASSUME NEW c \in Call, Abort(c) PROVE Displaced'
    BY <1>0, <1>14 DEF Abort, Displaced, CredentialTyped, Go, Queue, Leave, Begun, Leased,
       Holds
<1>15. ASSUME NEW p \in Process, Kill(p) PROVE Displaced'
    BY <1>0, <1>15 DEF Kill, Displaced, CredentialTyped, Go, Queue, Leave, Begun, Leased,
       Holds
<1>16. ASSUME LeaseRunsDown PROVE Displaced'
    BY <1>0, <1>16 DEF LeaseRunsDown, Displaced, CredentialTyped, Go, Queue, Leave, Begun,
       Leased, Holds
<1>17. ASSUME ExpireCredential PROVE Displaced'
    BY <1>0, <1>17 DEF ExpireCredential, Displaced, CredentialTyped, Go, Queue, Leave,
       Begun, Leased, Holds
<1>18. CASE UNCHANGED credentialVars
    BY <1>0, <1>18 DEF credentialVars, Displaced, CredentialTyped, Go, Queue, Leave, Begun,
       Leased, Holds
<1> QED
    BY <1>1, <1>2, <1>3, <1>4, <1>5, <1>6, <1>7, <1>8, <1>9, <1>10, <1>11, <1>12, <1>13,
       <1>14, <1>15, <1>16, <1>17, <1>18 DEF CredentialNext, Proceed

LEMMA CurrentStep == CredentialInv /\ [CredentialNext]_credentialVars => Current'
<1> SUFFICES ASSUME CredentialInv, [CredentialNext]_credentialVars PROVE Current'
    OBVIOUS
<1>0. CredentialTyped /\ Lined /\ Known /\ Unsaved /\ Displaced /\ Current /\ Once
    BY DEF CredentialInv
<1> USE DEF provider, callVars
<1>1. ASSUME NEW c \in Call, Authorize(c) PROVE Current'
    BY <1>0, <1>1 DEF Authorize, Current, Known, InCharge, CredentialTyped, Go, Queue,
       Leave, Begun, Leased, Holds
<1>2. ASSUME NEW c \in Call, Authenticate(c) PROVE Current'
    BY <1>0, <1>2 DEF Authenticate, Current, Known, InCharge, CredentialTyped, Go, Queue,
       Leave, Begun, Leased, Holds
<1>3. ASSUME NEW c \in Call, Acquire(c) PROVE Current'
    BY <1>0, <1>3 DEF Acquire, Starts, Current, Known, InCharge, CredentialTyped, Go,
       Queue, Leave, Begun, Leased, Holds
<1>4. ASSUME NEW c \in Call, AbortedWaiting(c) PROVE Current'
    BY <1>0, <1>4 DEF AbortedWaiting, Current, Known, InCharge, CredentialTyped, Go, Queue,
       Leave, Begun, Leased, Holds
<1>5. ASSUME NEW c \in Call, ReadLatest(c) PROVE Current'
    BY <1>0, <1>5 DEF ReadLatest, Reads, Current, Known, InCharge, CredentialTyped, Go,
       Queue, Leave, Begun, Leased, Holds
<1>6. ASSUME NEW c \in Call, Present(c) PROVE Current'
    BY <1>0, <1>6 DEF Present, Current, Known, InCharge, CredentialTyped, Go, Queue, Leave,
       Begun, Leased, Holds
<1>7. ASSUME NEW c \in Call, RefreshFails(c) PROVE Current'
    BY <1>0, <1>7 DEF RefreshFails, Current, Known, InCharge, CredentialTyped, Go, Queue,
       Leave, Begun, Leased, Holds
<1>8. ASSUME NEW c \in Call, Finish(c) PROVE Current'
    BY <1>0, <1>8 DEF Finish, Current, Known, InCharge, CredentialTyped, Go, Queue, Leave,
       Begun, Leased, Holds
<1>9. ASSUME NEW c \in Call, Save(c) PROVE Current'
  <2>1. /\ UNCHANGED <<storage, lease, seen>> /\ step[c] = "saving"
        /\ \E s \in {"releasing", "abandoning"} : step' = [step EXCEPT ![c] = s]
        /\ stored' # stored => Holds(c)
      BY <1>9 DEF Save, Saves, Go
  <2>2. ASSUME NEW d \in Call, InCharge(d)', step'[d] \in {"refreshing", "answered", "saving"}
        PROVE  d # c /\ InCharge(d) /\ step[d] = step'[d]
      BY <1>0, <2>1, <2>2 DEF CredentialTyped, InCharge, Leased
  <2>3. Holds(c) => InCharge(c)
      BY <2>1 DEF Holds, InCharge, Begun
  <2>4. ASSUME NEW d \in Call, InCharge(d)', step'[d] \in {"refreshing", "answered", "saving"}
        PROVE  stored' = stored
      BY <2>1, <2>2, <2>3, <2>4, OneInCharge
  <2> QED
      BY <1>0, <2>1, <2>2, <2>4 DEF Current
<1>10. ASSUME NEW c \in Call, SaveFails(c) PROVE Current'
    BY <1>0, <1>10 DEF SaveFails, Current, Known, InCharge, CredentialTyped, Go, Queue,
       Leave, Begun, Leased, Holds
<1>11. ASSUME NEW c \in Call, Release(c) PROVE Current'
  <2>1. /\ UNCHANGED <<storage, stored, seen>> /\ lease' \in {lease, [owner |-> NoCall, left |-> 0]}
        /\ \E s \in {"done", "abandoning"} : step' = [step EXCEPT ![c] = s]
      BY <1>11 DEF Release, Abandon, Go, Leave
  <2>2. ASSUME NEW d \in Call, InCharge(d)', step'[d] \in {"refreshing", "answered", "saving"}
        PROVE  InCharge(d) /\ step[d] = step'[d]
    <3>1. d # c /\ step[d] = step'[d]
        BY <1>0, <2>1, <2>2 DEF CredentialTyped
    <3>2. Leased => lease.owner = d
        BY <2>1, <2>2, CredentialConstants DEF InCharge, Leased
    <3> QED
        BY <2>2, <3>1, <3>2 DEF InCharge
  <2> QED
      BY <1>0, <2>1, <2>2 DEF Current
<1>12. ASSUME NEW c \in Call, Abandon(c) PROVE Current'
  <2>1. /\ UNCHANGED <<storage, stored, seen>> /\ lease' \in {lease, [owner |-> NoCall, left |-> 0]}
        /\ \E s \in {"done", "abandoning"} : step' = [step EXCEPT ![c] = s]
      BY <1>12 DEF Release, Abandon, Go, Leave
  <2>2. ASSUME NEW d \in Call, InCharge(d)', step'[d] \in {"refreshing", "answered", "saving"}
        PROVE  InCharge(d) /\ step[d] = step'[d]
    <3>1. d # c /\ step[d] = step'[d]
        BY <1>0, <2>1, <2>2 DEF CredentialTyped
    <3>2. Leased => lease.owner = d
        BY <2>1, <2>2, CredentialConstants DEF InCharge, Leased
    <3> QED
        BY <2>2, <3>1, <3>2 DEF InCharge
  <2> QED
      BY <1>0, <2>1, <2>2 DEF Current
<1>13. ASSUME NEW c \in Call, Heartbeat(c) PROVE Current'
    BY <1>0, <1>13 DEF Heartbeat, Current, Known, InCharge, CredentialTyped, Go, Queue,
       Leave, Begun, Leased, Holds
<1>14. ASSUME NEW c \in Call, Abort(c) PROVE Current'
    BY <1>0, <1>14 DEF Abort, Current, Known, InCharge, CredentialTyped, Go, Queue, Leave,
       Begun, Leased, Holds
<1>15. ASSUME NEW p \in Process, Kill(p) PROVE Current'
    BY <1>0, <1>15 DEF Kill, Current, Known, InCharge, CredentialTyped, Go, Queue, Leave,
       Begun, Leased, Holds
<1>16. ASSUME LeaseRunsDown PROVE Current'
    BY <1>0, <1>16 DEF LeaseRunsDown, Current, Known, InCharge, CredentialTyped, Go, Queue,
       Leave, Begun, Leased, Holds
<1>17. ASSUME ExpireCredential PROVE Current'
    BY <1>0, <1>17 DEF ExpireCredential, Current, Known, InCharge, CredentialTyped, Go,
       Queue, Leave, Begun, Leased, Holds
<1>18. CASE UNCHANGED credentialVars
    BY <1>0, <1>18 DEF credentialVars, Current, Known, InCharge, CredentialTyped, Go,
       Queue, Leave, Begun, Leased, Holds
<1> QED
    BY <1>1, <1>2, <1>3, <1>4, <1>5, <1>6, <1>7, <1>8, <1>9, <1>10, <1>11, <1>12, <1>13,
       <1>14, <1>15, <1>16, <1>17, <1>18 DEF CredentialNext, Proceed

LEMMA OnceStep == CredentialInv /\ [CredentialNext]_credentialVars => Once'
<1> SUFFICES ASSUME CredentialInv, [CredentialNext]_credentialVars PROVE Once'
    OBVIOUS
<1>0. CredentialTyped /\ Lined /\ Known /\ Unsaved /\ Displaced /\ Current /\ Once
    BY DEF CredentialInv
<1> USE DEF provider, callVars
<1>1. ASSUME NEW c \in Call, Authorize(c) PROVE Once'
  <2>1. /\ UNCHANGED <<stored, everSaved, presented>> /\ slipped \subseteq slipped'
      BY <1>1 DEF Authorize
  <2>2. ASSUME NEW d \in Call, InCharge(d), step[d] \in {"answered", "saving", "abandoning"}, seen[d] \in Credential
        PROVE  \/ seen[d] \in slipped'
               \/ InCharge(d)' /\ seen'[d] = seen[d] /\ step'[d] \in {"answered", "saving", "abandoning"}
    <3>1. d # c /\ step'[d] = step[d] /\ seen'[d] = seen[d] /\ UNCHANGED <<storage, lease>>
        BY <1>0, <1>1, <2>2 DEF Authorize, Go, CredentialTyped
    <3> QED
        BY <2>2, <3>1 DEF InCharge, Leased
  <2> QED
      BY <1>0, <2>1, <2>2 DEF Once
<1>2. ASSUME NEW c \in Call, Authenticate(c) PROVE Once'
    BY <1>0, <1>2 DEF Authenticate, Once, Known, InCharge, CredentialTyped, Go, Queue,
       Leave, Begun, Leased
<1>3. ASSUME NEW c \in Call, Acquire(c) PROVE Once'
  <2>1. /\ UNCHANGED <<stored, everSaved, presented>> /\ slipped \subseteq slipped'
      BY <1>3 DEF Acquire, Starts
  <2>2. ASSUME NEW d \in Call, InCharge(d), step[d] \in {"answered", "saving", "abandoning"}, seen[d] \in Credential
        PROVE  \/ seen[d] \in slipped'
               \/ InCharge(d)' /\ seen'[d] = seen[d] /\ step'[d] \in {"answered", "saving", "abandoning"}
    <3>1. CASE Leased
      <4>1. lease.owner = d /\ d # NoCall
          BY <2>2, <3>1, CredentialConstants DEF InCharge
      <4> QED
          BY <1>3, <3>1, <4>1 DEF Acquire, Starts
    <3>2. CASE ~Leased
      <4>1. ProcessOf[c] = ProcessOf[d] /\ InTurn(c) /\ InTurn(d) /\ step[c] = "queued"
          BY <1>0, <1>3, <2>2, <3>2 DEF Acquire, Starts, Lined, InCharge
      <4>2. c = d
          BY <4>1 DEF InTurn
      <4> QED
          BY <2>2, <4>1, <4>2
    <3> QED
        BY <3>1, <3>2
  <2> QED
      BY <1>0, <2>1, <2>2 DEF Once
<1>4. ASSUME NEW c \in Call, AbortedWaiting(c) PROVE Once'
    BY <1>0, <1>4 DEF AbortedWaiting, Once, Known, InCharge, CredentialTyped, Go, Queue,
       Leave, Begun, Leased
<1>5. ASSUME NEW c \in Call, ReadLatest(c) PROVE Once'
    BY <1>0, <1>5 DEF ReadLatest, Reads, Once, Known, InCharge, CredentialTyped, Go, Queue,
       Leave, Begun, Leased
<1>6. ASSUME NEW c \in Call, Present(c) PROVE Once'
  <2> DEFINE n == seen[c]
  <2>1. /\ UNCHANGED <<storage, stored, lease, everSaved, slipped, seen>>
        /\ presented' = [presented EXCEPT ![n] = presented[n] + 1]
        /\ step[c] = "refreshing"
        /\ \E s \in {"answered", "abandoning"} : step' = [step EXCEPT ![c] = s]
      BY <1>6 DEF Present, Go
  <2>2. n \in everSaved /\ n \in Credential
      BY <1>0, <2>1, CredentialConstants DEF Known, CredentialTyped, Credential
  <2>3. step'[c] \in {"answered", "abandoning"} /\ \A d \in Call : d # c => step'[d] = step[d]
      BY <1>0, <2>1 DEF CredentialTyped
  <2>4. presented'[n] = presented[n] + 1 /\ \A m \in Credential : m # n => presented'[m] = presented[m]
      BY <1>0, <2>1, <2>2 DEF CredentialTyped
  <2> HIDE DEF n
  <2>5. ASSUME NEW m \in Credential, m # n, presented'[m] > 0
        PROVE  /\ m \in everSaved
               /\ \/ m \in slipped
                  \/ /\ presented'[m] = 1
                     /\ m = stored => \E d \in Call :
                          InCharge(d)' /\ seen[d] = m /\ step'[d] \in {"answered", "saving", "abandoning"}
      BY <1>0, <2>1, <2>3, <2>4, <2>5 DEF Once, InCharge, Leased
  <2>6. CASE InCharge(c)
    <3>1. stored = n /\ n # 0
        BY <1>0, <2>1, <2>2, <2>6 DEF Current, n, Credential
    <3>2. ASSUME NEW d \in Call, InCharge(d), step[d] \in {"answered", "saving", "abandoning"} PROVE FALSE
        BY <2>1, <2>6, <3>2, OneInCharge
    <3>3. presented[n] \in Nat /\ (presented[n] > 0 => n \in slipped)
        BY <1>0, <2>2, <3>1, <3>2 DEF Once, CredentialTyped
    <3>4. InCharge(c)' /\ seen[c] = n
        BY <2>1, <2>3, <2>6 DEF InCharge, Leased, Begun, n
    <3>5. n \in slipped \/ presented'[n] = 1
        BY <2>4, <3>3
    <3> QED
        BY <1>0, <2>1, <2>2, <2>3, <2>5, <3>4, <3>5 DEF Once
  <2>7. CASE ~InCharge(c)
    <3>1. n \in slipped
        BY <1>0, <2>1, <2>7 DEF Displaced, InCharge, Begun, n
    <3> QED
        BY <1>0, <2>1, <2>2, <2>5, <3>1 DEF Once
  <2> QED
      BY <2>6, <2>7
<1>7. ASSUME NEW c \in Call, RefreshFails(c) PROVE Once'
    BY <1>0, <1>7 DEF RefreshFails, Once, Known, InCharge, CredentialTyped, Go, Queue,
       Leave, Begun, Leased
<1>8. ASSUME NEW c \in Call, Finish(c) PROVE Once'
    BY <1>0, <1>8 DEF Finish, Once, Known, InCharge, CredentialTyped, Go, Queue, Leave,
       Begun, Leased
<1>9. ASSUME NEW c \in Call, Save(c) PROVE Once'
  <2>1. /\ UNCHANGED <<storage, lease, presented, slipped, seen>> /\ step[c] = "saving"
        /\ \/ /\ stored' = next[c] /\ everSaved' = everSaved \cup {next[c]}
              /\ step' = [step EXCEPT ![c] = "releasing"]
           \/ UNCHANGED <<stored, everSaved>> /\ step' = [step EXCEPT ![c] = "abandoning"]
      BY <1>9 DEF Save, Saves, Go
  <2>2. CASE UNCHANGED <<stored, everSaved>> /\ step' = [step EXCEPT ![c] = "abandoning"]
      BY <1>0, <2>1, <2>2 DEF Once, InCharge, Leased, CredentialTyped, Begun
  <2>3. CASE /\ stored' = next[c] /\ everSaved' = everSaved \cup {next[c]}
             /\ step' = [step EXCEPT ![c] = "releasing"]
    <3>1. next[c] \notin everSaved
        BY <1>0, <2>1 DEF Known, Unsaved
    <3>2. \A m \in Credential : presented[m] > 0 => m # next[c]
        BY <1>0, <3>1 DEF Once
    <3> QED
        BY <1>0, <2>1, <2>3, <3>2 DEF Once
  <2> QED
      BY <2>1, <2>2, <2>3
<1>10. ASSUME NEW c \in Call, SaveFails(c) PROVE Once'
    BY <1>0, <1>10 DEF SaveFails, Once, Known, InCharge, CredentialTyped, Go, Queue, Leave,
       Begun, Leased
<1>11. ASSUME NEW c \in Call, Release(c) PROVE Once'
  <2>1. /\ UNCHANGED <<stored, everSaved, presented>> /\ slipped \subseteq slipped'
      BY <1>11 DEF Release
  <2>2. ASSUME NEW d \in Call, InCharge(d), step[d] \in {"answered", "saving", "abandoning"}, seen[d] \in Credential
        PROVE  \/ seen[d] \in slipped'
               \/ InCharge(d)' /\ seen'[d] = seen[d] /\ step'[d] \in {"answered", "saving", "abandoning"}
    <3>1. d # c
      <4>1. step[c] = "releasing"
          BY <1>11 DEF Release
      <4> QED
          BY <2>2, <4>1
    <3>2. step'[d] = step[d] /\ UNCHANGED <<storage, seen>>
        BY <1>0, <1>11, <3>1 DEF Release, Go, Leave, CredentialTyped
    <3>3. Holds(c) => InCharge(c)
        BY <1>11 DEF Release, Holds, InCharge, Begun
    <3>4. ~Holds(c)
        BY <2>2, <3>1, <3>3, OneInCharge
    <3>5. lease' = lease
        BY <1>11, <3>4 DEF Release
    <3> QED
        BY <2>2, <3>2, <3>5 DEF InCharge, Leased
  <2> QED
      BY <1>0, <2>1, <2>2 DEF Once
<1>12. ASSUME NEW c \in Call, Abandon(c) PROVE Once'
    BY <1>0, <1>12 DEF Abandon, Once, Known, InCharge, CredentialTyped, Go, Queue, Leave,
       Begun, Leased
<1>13. ASSUME NEW c \in Call, Heartbeat(c) PROVE Once'
  <2>1. /\ UNCHANGED <<stored, everSaved, presented>> /\ slipped \subseteq slipped'
      BY <1>13 DEF Heartbeat
  <2>2. ASSUME NEW d \in Call, InCharge(d), step[d] \in {"answered", "saving", "abandoning"}, seen[d] \in Credential
        PROVE  \/ seen[d] \in slipped'
               \/ InCharge(d)' /\ seen'[d] = seen[d] /\ step'[d] \in {"answered", "saving", "abandoning"}
    <3>1. /\ UNCHANGED <<storage, step, seen>>
          /\ lease'.owner = lease.owner
        BY <1>0, <1>13 DEF Heartbeat, CredentialTyped
    <3> QED
        BY <2>2, <3>1 DEF InCharge, Leased
  <2> QED
      BY <1>0, <2>1, <2>2 DEF Once
<1>14. ASSUME NEW c \in Call, Abort(c) PROVE Once'
    BY <1>0, <1>14 DEF Abort, Once, Known, InCharge, CredentialTyped, Go, Queue, Leave,
       Begun, Leased
<1>15. ASSUME NEW p \in Process, Kill(p) PROVE Once'
    BY <1>0, <1>15 DEF Kill, Once, Known, InCharge, CredentialTyped, Go, Queue, Leave,
       Begun, Leased
<1>16. ASSUME LeaseRunsDown PROVE Once'
    BY <1>0, <1>16 DEF LeaseRunsDown, Once, Known, InCharge, CredentialTyped, Go, Queue,
       Leave, Begun, Leased
<1>17. ASSUME ExpireCredential PROVE Once'
    BY <1>0, <1>17 DEF ExpireCredential, Once, Known, InCharge, CredentialTyped, Go, Queue,
       Leave, Begun, Leased
<1>18. CASE UNCHANGED credentialVars
    BY <1>0, <1>18 DEF credentialVars, Once, Known, InCharge, CredentialTyped, Go, Queue,
       Leave, Begun, Leased
<1> QED
    BY <1>1, <1>2, <1>3, <1>4, <1>5, <1>6, <1>7, <1>8, <1>9, <1>10, <1>11, <1>12, <1>13,
       <1>14, <1>15, <1>16, <1>17, <1>18 DEF CredentialNext, Proceed

(* Who writes the store has read what it replaces, or replaces blindly.    *)
Replaced ==
  \A c \in Call :
    stored' # stored /\ step[c] = "saving" /\ step'[c] = "releasing" /\ seen[c] # 0 => stored = seen[c]

LEMMA SaveReplacesItsOwn == CredentialInv /\ [CredentialNext]_credentialVars => Replaced
<1> SUFFICES ASSUME CredentialInv, [CredentialNext]_credentialVars PROVE Replaced
    OBVIOUS
<1>0. CredentialTyped /\ Lined /\ Known /\ Unsaved /\ Displaced /\ Current /\ Once
    BY DEF CredentialInv
<1>1. ASSUME NEW c \in Call, Authorize(c) PROVE Replaced
  <2>1. stored' = stored
      BY <1>1 DEF Authorize, provider, callVars
  <2> QED
      BY <2>1 DEF Replaced
<1>2. ASSUME NEW c \in Call, Authenticate(c) PROVE Replaced
  <2>1. stored' = stored
      BY <1>2 DEF Authenticate, provider, callVars
  <2> QED
      BY <2>1 DEF Replaced
<1>3. ASSUME NEW c \in Call, Acquire(c) PROVE Replaced
  <2>1. stored' = stored
      BY <1>3 DEF Acquire, Starts, provider, callVars
  <2> QED
      BY <2>1 DEF Replaced
<1>4. ASSUME NEW c \in Call, AbortedWaiting(c) PROVE Replaced
  <2>1. stored' = stored
      BY <1>4 DEF AbortedWaiting, provider, callVars
  <2> QED
      BY <2>1 DEF Replaced
<1>5. ASSUME NEW c \in Call, ReadLatest(c) PROVE Replaced
  <2>1. stored' = stored
      BY <1>5 DEF ReadLatest, Reads, provider, callVars
  <2> QED
      BY <2>1 DEF Replaced
<1>6. ASSUME NEW c \in Call, Present(c) PROVE Replaced
  <2>1. stored' = stored
      BY <1>6 DEF Present, provider, callVars
  <2> QED
      BY <2>1 DEF Replaced
<1>7. ASSUME NEW c \in Call, RefreshFails(c) PROVE Replaced
  <2>1. stored' = stored
      BY <1>7 DEF RefreshFails, provider, callVars
  <2> QED
      BY <2>1 DEF Replaced
<1>8. ASSUME NEW c \in Call, Finish(c) PROVE Replaced
  <2>1. stored' = stored
      BY <1>8 DEF Finish, provider, callVars
  <2> QED
      BY <2>1 DEF Replaced
<1>9. ASSUME NEW c \in Call, Save(c) PROVE Replaced
  <2>1. /\ step[c] = "saving" /\ \E s \in Step : step' = [step EXCEPT ![c] = s]
        /\ stored' # stored => Holds(c)
      BY <1>9 DEF Save, Saves, Go, Step
  <2>2. ASSUME NEW d \in Call, step[d] = "saving", step'[d] = "releasing" PROVE d = c
      BY <1>0, <2>1, <2>2 DEF CredentialTyped
  <2>3. Holds(c) => InCharge(c)
      BY <2>1 DEF Holds, InCharge, Begun
  <2> QED
      BY <1>0, <2>1, <2>2, <2>3 DEF Current, Replaced
<1>10. ASSUME NEW c \in Call, SaveFails(c) PROVE Replaced
  <2>1. stored' = stored
      BY <1>10 DEF SaveFails, provider, callVars
  <2> QED
      BY <2>1 DEF Replaced
<1>11. ASSUME NEW c \in Call, Release(c) PROVE Replaced
  <2>1. stored' = stored
      BY <1>11 DEF Release, provider, callVars
  <2> QED
      BY <2>1 DEF Replaced
<1>12. ASSUME NEW c \in Call, Abandon(c) PROVE Replaced
  <2>1. stored' = stored
      BY <1>12 DEF Abandon, provider, callVars
  <2> QED
      BY <2>1 DEF Replaced
<1>13. ASSUME NEW c \in Call, Heartbeat(c) PROVE Replaced
  <2>1. stored' = stored
      BY <1>13 DEF Heartbeat, provider, callVars
  <2> QED
      BY <2>1 DEF Replaced
<1>14. ASSUME NEW c \in Call, Abort(c) PROVE Replaced
  <2>1. stored' = stored
      BY <1>14 DEF Abort, provider, callVars
  <2> QED
      BY <2>1 DEF Replaced
<1>15. ASSUME NEW p \in Process, Kill(p) PROVE Replaced
  <2>1. stored' = stored
      BY <1>15 DEF Kill, provider, callVars
  <2> QED
      BY <2>1 DEF Replaced
<1>16. ASSUME LeaseRunsDown PROVE Replaced
  <2>1. stored' = stored
      BY <1>16 DEF LeaseRunsDown, provider, callVars
  <2> QED
      BY <2>1 DEF Replaced
<1>17. ASSUME ExpireCredential PROVE Replaced
  <2>1. stored' = stored
      BY <1>17 DEF ExpireCredential, provider, callVars
  <2> QED
      BY <2>1 DEF Replaced
<1>18. CASE UNCHANGED credentialVars
  <2>1. stored' = stored
      BY <1>18 DEF credentialVars
  <2> QED
      BY <2>1 DEF Replaced
<1> QED
    BY <1>1, <1>2, <1>3, <1>4, <1>5, <1>6, <1>7, <1>8, <1>9, <1>10, <1>11, <1>12, <1>13,
       <1>14, <1>15, <1>16, <1>17, <1>18 DEF CredentialNext, Proceed

LEMMA CredentialStep == CredentialInv /\ [CredentialNext]_credentialVars => CredentialInv'
<1> SUFFICES ASSUME CredentialInv, [CredentialNext]_credentialVars PROVE CredentialInv'
    OBVIOUS
<1>1. CredentialTyped'
    BY TypedStep
<1>2. Lined'
    BY <1>1, LineStep, LinedStep
<1>3. Known' /\ Unsaved' /\ Displaced' /\ Current' /\ Once'
    BY KnownStep, UnsavedStep, DisplacedStep, CurrentStep, OnceStep
<1> QED
    BY <1>1, <1>2, <1>3 DEF CredentialInv

-----------------------------------------------------------------------------

(* The inductive invariant: who is in charge, what each call knows, and    *)
(* where a presented token is (chatgpt-authentication.ts:485-526,          *)
(* tenant-credentials.ts:344-510).                                         *)
THEOREM CredentialInvariant == CredentialSpec => []CredentialInv
<1>1. CredentialInit => CredentialInv
    BY InitCredential
<1>2. CredentialInv /\ [CredentialNext]_credentialVars => CredentialInv'
    BY CredentialStep
<1> QED
    BY <1>1, <1>2, PTL DEF CredentialSpec

(* For any number of processes, calls, deaths and leases that run out: a   *)
(* refresh token is presented once unless its refresh came to nothing or   *)
(* lost its lease, a refresh replaces the credential it was made of, and   *)
(* nobody works with a credential that was not saved                       *)
(* (tenant-credentials.ts:405-453, chatgpt-authentication.ts:515-526).     *)
THEOREM CredentialIsSoundAlways == CredentialSpec => CredentialIsSound
<1>1. CredentialInv => CredentialTypeOK
    BY DEF CredentialInv, CredentialTyped, Lined, CredentialTypeOK
<1>2. CredentialInv => RefreshedOnce
  <2> SUFFICES ASSUME CredentialTyped, Once, NEW n \in 1..issued, presented[n] > 1
              PROVE  n \in slipped
      BY DEF CredentialInv, RefreshedOnce
  <2>1. n \in Credential
      BY CredentialConstants DEF CredentialTyped, Credential
  <2>2. presented[n] \in Nat
      BY <2>1 DEF CredentialTyped
  <2>3. presented[n] > 0 /\ presented[n] # 1
      BY <2>2
  <2> QED
      BY <2>1, <2>3 DEF Once
<1>3. CredentialInv => AuthorizedMeansSaved
    BY DEF CredentialInv, Known, Outcome, AuthorizedMeansSaved
<1>4. CredentialInv /\ [CredentialNext]_credentialVars =>
        [\A c \in Call :
           stored' # stored /\ step[c] = "saving" /\ step'[c] = "releasing" /\ seen[c] # 0
           => stored = seen[c]]_credentialVars
    BY SaveReplacesItsOwn DEF Replaced
<1>5. CredentialSpec => []CredentialInv
    BY CredentialInvariant
<1> QED
    BY <1>1, <1>2, <1>3, <1>4, <1>5, PTL DEF CredentialSpec, CredentialIsSound,
       RefreshReplacesItsOwn

===============================================================================
