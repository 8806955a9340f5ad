----------------------------- MODULE ScribeWaves -----------------------------
(***************************************************************************)
(* The Scribe's durable clock: the inbox of observations, the Batches cut  *)
(* from it in waves, the attempts at each Batch, and the one drain that    *)
(* runs them (scribe/inbox.ts, durable-clock.ts, coalescer.ts).            *)
(*                                                                         *)
(* An offer is admitted durably and then wakes a debounced drain. The      *)
(* drain claims waves until there is none; it runs the Batches of a wave   *)
(* side by side, each with up to Tries attempts. An attempt asks a model,  *)
(* which records Attestations through its tools; what the Batch has        *)
(* recorded is admitted to the Brain before the attempt completes. Any     *)
(* step may fail and the process may die between any two of them.          *)
(***************************************************************************)
EXTENDS Naturals, Sequences, FiniteSets, SequencesExt, TLC

CONSTANTS
  Observation,      \* immutable evidence ids
  OccurredAt,       \* when each occurred; 0 is an unknown time
  WaveBatches,      \* Batches in a wave: 4
  WaveObservations, \* observations a wave takes up: 50
  Tries,            \* attempts at a Batch in one drain: 3
  MaxDrains,        \* bound: drains waiting for their turn
  MaxMishaps        \* bound: attempts and writes that fail, and deaths of the process

ASSUME WavesAssumption ==
  /\ \A o \in Observation : OccurredAt[o] \in Nat
  /\ WaveBatches \in Nat \ {0} /\ WaveObservations \in Nat \ {0} /\ Tries \in Nat \ {0}

VARIABLES
  log,       \* scribe_observations, in observation_sequence
  batches,   \* scribe_batches, in order of creation
  attempts,  \* scribe_attempts
  claims,    \* attempts under which Attestations were recorded
  deltas,    \* Knowledge Deltas admitted to the Brain
  mailbox,   \* an offer waits for the debounce
  started,   \* the coalescer's router runs
  queue,     \* drains waiting for the permit
  lane,      \* the tasks of the running wave: Batch -> where its task stands
  tries,     \* failed attempts of each task of the wave
  draining,  \* a drain holds the permit
  turns,     \* attempts whose model turn runs with the Scribe's tools
  mishaps,   \* failures and deaths so far
  storeFailed \* a write of the inbox has failed

store == <<log, batches, attempts>>
graph == <<claims, deltas>>
clock == <<mailbox, started, queue>>
wave == <<lane, tries, draining>>
scribeBounds == <<mishaps, storeFailed>>
scribeVars == <<store, graph, clock, wave, turns, scribeBounds>>

Nobody == 0
NoTask == <<>>

\* Nothing was ever offered, and no drain waits.
ScribeBlank ==
  /\ log = <<>> /\ batches = <<>> /\ attempts = <<>>
  /\ claims = {} /\ deltas = {}
  /\ mailbox = FALSE /\ started = FALSE
  /\ lane = NoTask /\ tries = NoTask /\ draining = FALSE
  /\ turns = {}
  /\ mishaps = 0 /\ storeFailed = FALSE

\* The process starts with a drain.
ScribeInit == ScribeBlank /\ queue = 1

-----------------------------------------------------------------------------
(* Reading the inbox. *)

Batched == UNION {Range(batches[i].rows) : i \in DOMAIN batches}
Pending == Range(log) \ Batched

\* What is known to have occurred first comes first; an unknown time comes last.
Precedes(o, p) ==
  LET unknown(q) == IF OccurredAt[q] = 0 THEN 1 ELSE 0
      at(q) == CHOOSE k \in DOMAIN log : log[k] = q
  IN \/ unknown(o) < unknown(p)
     \/ unknown(o) = unknown(p) /\ OccurredAt[o] < OccurredAt[p]
     \/ unknown(o) = unknown(p) /\ OccurredAt[o] = OccurredAt[p] /\ at(o) < at(p)

\* The pending observations in order, by the number of those before each.
Before(o) == {p \in Pending : Precedes(p, o)}
TakenUp == IF Cardinality(Pending) < WaveObservations THEN Cardinality(Pending) ELSE WaveObservations
NextRows == [k \in 1..TakenUp |-> CHOOSE o \in Pending : Cardinality(Before(o)) = k - 1]

Claimable(i) == ~batches[i].done /\ batches[i].active = Nobody
Reopened ==
  LET open == {i \in DOMAIN batches : Claimable(i)}
  IN {i \in open : Cardinality({j \in open : j < i}) < WaveBatches}

\* "rows" cut in at most "slots" contiguous pieces of one size.
Split(rows, slots) ==
  LET count == IF slots < Len(rows) THEN slots ELSE Len(rows)
      size == (Len(rows) + count - 1) \div count
      piece(k) == SubSeq(rows, (k - 1) * size + 1, IF k * size < Len(rows) THEN k * size ELSE Len(rows))
  IN IF count = 0 THEN <<>> ELSE [k \in 1 .. ((Len(rows) + size - 1) \div size) |-> piece(k)]

Fresh(rows) == [rows |-> rows, active |-> Nobody, done |-> FALSE]

-----------------------------------------------------------------------------
(* The coalescer: offers, and the drains they cause. *)

\* An observation that was admitted before is ignored, but still wakes the clock.
Offer(o) ==
  /\ started \/ queue < MaxDrains
  /\ log' = IF o \in Range(log) THEN log ELSE Append(log, o)
  /\ mailbox' = TRUE
  /\ started' = TRUE
  /\ queue' = IF started THEN queue ELSE queue + 1
  /\ UNCHANGED <<batches, attempts, graph, wave, turns, scribeBounds>>

Flush ==
  /\ mailbox /\ queue < MaxDrains
  /\ mailbox' = FALSE /\ queue' = queue + 1
  /\ UNCHANGED <<store, graph, started, wave, turns, scribeBounds>>

DrainStarts ==
  /\ queue > 0 /\ ~draining
  /\ queue' = queue - 1 /\ draining' = TRUE
  /\ UNCHANGED <<store, graph, mailbox, started, lane, tries, turns, scribeBounds>>

ClaimWave ==
  /\ draining /\ lane = NoTask
  /\ LET slots == WaveBatches - Cardinality(Reopened)
         new == IF slots > 0 THEN Split(NextRows, slots) ELSE <<>>
         tasks == Reopened \cup {Len(batches) + k : k \in DOMAIN new}
     IN /\ batches' = batches \o [k \in DOMAIN new |-> Fresh(new[k])]
        /\ lane' = [i \in tasks |-> "begin"]
        /\ tries' = [i \in tasks |-> 0]
        /\ draining' = (tasks # {})
  /\ UNCHANGED <<log, attempts, graph, clock, turns, scribeBounds>>

\* A mistake: a drain runs one wave.
SettlesForGood ==
  /\ lane # NoTask /\ \A i \in DOMAIN lane : lane[i] \in {"settled", "failed"}
  /\ draining' = FALSE
  /\ lane' = NoTask /\ tries' = NoTask
  /\ UNCHANGED <<store, graph, clock, turns, scribeBounds>>

\* The first failure of the wave ends the drain; otherwise it claims again.
WaveSettles ==
  /\ lane # NoTask /\ \A i \in DOMAIN lane : lane[i] \in {"settled", "failed"}
  /\ draining' = \A i \in DOMAIN lane : lane[i] = "settled"
  /\ lane' = NoTask /\ tries' = NoTask
  /\ UNCHANGED <<store, graph, clock, turns, scribeBounds>>

-----------------------------------------------------------------------------
(* One Batch of the wave: attempt(). *)

Mishap == mishaps < MaxMishaps /\ mishaps' = mishaps + 1

At(i, point) == i \in DOMAIN lane /\ lane[i] = point
Go(i, point) == lane' = [lane EXCEPT ![i] = point]
Attempt(i) == batches[i].active

Begin(i) ==
  /\ At(i, "begin") /\ Claimable(i)
  /\ attempts' = Append(attempts, [batch |-> i, status |-> "active"])
  /\ batches' = [batches EXCEPT ![i].active = Len(attempts) + 1]
  /\ turns' = turns \cup {Len(attempts) + 1}
  /\ Go(i, "asked")
  /\ UNCHANGED <<log, graph, clock, tries, draining, scribeBounds>>

Waited(a) == \E i \in DOMAIN lane : lane[i] = "asked" /\ Attempt(i) = a

\* A tool call of a running turn. A turn may outlive the call that waited for
\* it, and is then followed up to its first late record.
Attest(a) ==
  /\ a \in turns
  /\ claims' = claims \cup {a}
  /\ turns' = IF Waited(a) THEN turns ELSE turns \ {a}
  /\ UNCHANGED <<store, deltas, clock, wave, scribeBounds>>

Answer(i) ==
  /\ At(i, "asked")
  /\ turns' = turns \ {Attempt(i)}
  /\ Go(i, "answered")
  /\ UNCHANGED <<store, graph, clock, tries, draining, scribeBounds>>

\* scribeProposalDelta: everything recorded under the Batch, by any attempt.
Proposal(i) == {a \in claims : attempts[a].batch = i}
Told(i) == IF Proposal(i) = {} THEN deltas ELSE deltas \cup {[batch |-> i, from |-> Proposal(i)]}

Tell(i) ==
  /\ At(i, "answered")
  /\ deltas' = Told(i)
  /\ Go(i, "told")
  /\ UNCHANGED <<store, claims, clock, tries, draining, turns, scribeBounds>>

Complete(i) ==
  /\ At(i, "told")
  /\ attempts' = [attempts EXCEPT ![Attempt(i)].status = "completed"]
  /\ batches' = [batches EXCEPT ![i].active = Nobody, ![i].done = TRUE]
  /\ Go(i, "settled")
  /\ UNCHANGED <<log, graph, clock, tries, draining, turns, scribeBounds>>

\* failAttempt, and the loop around it.
Retry(i) ==
  /\ attempts' = [attempts EXCEPT ![Attempt(i)].status = "failed"]
  /\ batches' = [batches EXCEPT ![i].active = Nobody]
  /\ tries' = [tries EXCEPT ![i] = @ + 1]
  /\ Go(i, IF tries[i] + 1 < Tries THEN "begin" ELSE "failed")

\* The dispatch rejects: the turn failed, or only the wait for it did.
AskFails(i) ==
  /\ At(i, "asked") /\ Mishap
  /\ \/ turns' = turns \ {Attempt(i)}
     \/ Attempt(i) \notin claims /\ turns' = turns
  /\ Retry(i)
  /\ UNCHANGED <<log, graph, clock, draining, storeFailed>>

\* The Brain's inbox refuses the delta, or takes it and cannot be woken.
TellFails(i) ==
  /\ At(i, "answered") /\ Proposal(i) # {} /\ Mishap
  /\ deltas' \in {deltas, Told(i)}
  /\ Retry(i)
  /\ UNCHANGED <<log, claims, clock, draining, turns, storeFailed>>

\* The write that begins or fails an attempt throws: the task is over, the
\* attempt stays as it is. A completion that throws is one more failed try.
StoreFails(i) ==
  /\ Mishap /\ storeFailed' = TRUE
  /\ \/ At(i, "told") /\ Retry(i) /\ UNCHANGED turns
     \/ /\ i \in DOMAIN lane /\ lane[i] \in {"begin", "asked", "answered", "told"}
        /\ Go(i, "failed")
        /\ UNCHANGED <<attempts, batches, tries, turns>>
  /\ UNCHANGED <<log, graph, clock, draining>>

-----------------------------------------------------------------------------
(* The process dies. The next one interrupts what was active, and drains.   *)
(* Flue runs an interrupted turn again; its context died with the process,  *)
(* so it is given no tool.                                                 *)

\* A mistake: an interrupted turn keeps its tools.
KeepsTools == turns
Recovered == {}

Interrupted == [a \in DOMAIN attempts |->
                  IF attempts[a].status = "active" THEN [attempts[a] EXCEPT !.status = "interrupted"]
                  ELSE attempts[a]]
ReleasedBatches == [i \in DOMAIN batches |-> [batches[i] EXCEPT !.active = Nobody]]

Die ==
  /\ Mishap
  /\ attempts' = Interrupted /\ batches' = ReleasedBatches
  /\ mailbox' = FALSE /\ started' = FALSE /\ queue' = 1
  /\ lane' = NoTask /\ tries' = NoTask /\ draining' = FALSE
  /\ turns' = Recovered
  /\ UNCHANGED <<log, graph, storeFailed>>

Task(i) == Begin(i) \/ Answer(i) \/ Tell(i) \/ Complete(i)
Trouble(i) == AskFails(i) \/ TellFails(i) \/ StoreFails(i)

ScribeNext ==
  \/ \E o \in Observation : Offer(o)
  \/ Flush \/ DrainStarts \/ ClaimWave \/ WaveSettles
  \/ \E i \in DOMAIN batches : Task(i) \/ Trouble(i)
  \/ \E a \in turns : Attest(a)
  \/ Die

\* The debounce fires, the permit is handed on, and every call returns.
ScribeFairness ==
  /\ WF_scribeVars(Flush) /\ WF_scribeVars(DrainStarts)
  /\ WF_scribeVars(ClaimWave) /\ WF_scribeVars(WaveSettles)
  /\ WF_scribeVars(\E i \in DOMAIN batches : Task(i))

ScribeSpec == ScribeInit /\ [][ScribeNext]_scribeVars /\ ScribeFairness

-----------------------------------------------------------------------------
(* Properties. *)

\* The types of the state, as the inbox's schema gives them.
ScribeTypeOK ==
  /\ log \in Seq(Observation)
  /\ batches \in Seq([rows : Seq(Observation), active : Nat, done : BOOLEAN])
  /\ attempts \in Seq([batch : Nat, status : {"active", "completed", "failed", "interrupted"}])
  /\ claims \subseteq DOMAIN attempts /\ turns \subseteq DOMAIN attempts
  /\ deltas \subseteq [batch : Nat, from : SUBSET Nat]
  /\ DOMAIN lane \subseteq DOMAIN batches /\ DOMAIN tries = DOMAIN lane
  /\ mailbox \in BOOLEAN /\ started \in BOOLEAN /\ draining \in BOOLEAN /\ queue \in Nat

\* An observation is in at most one Batch, however many waves were cut while
\* others were outstanding, and a Batch holds observations of the inbox only
\* (claimWave, beginAttempt and recovery never move a row).
OneBatchEach ==
  /\ \A i, j \in DOMAIN batches : i # j => Range(batches[i].rows) \cap Range(batches[j].rows) = {}
  /\ \A i \in DOMAIN batches : batches[i].rows # <<>> /\ IsInjective(batches[i].rows)
  /\ Batched \subseteq Range(log)

\* A Batch's active attempt is the one attempt recorded as active, a task waits
\* only for the attempt of its own Batch, and a completed Batch has exactly one
\* completed attempt: failing, completing and recovering agree on both tables.
AttemptsAgree ==
  \A i \in DOMAIN batches :
    LET with(status) == {a \in DOMAIN attempts : attempts[a].batch = i /\ attempts[a].status = status}
    IN /\ with("active") = (IF batches[i].active = Nobody THEN {} ELSE {batches[i].active})
       /\ Cardinality(with("completed")) = (IF batches[i].done THEN 1 ELSE 0)
       /\ batches[i].done => batches[i].active = Nobody
       /\ i \in DOMAIN lane /\ lane[i] \in {"asked", "answered", "told"} => batches[i].active # Nobody

\* The Brain has been told of everything a completed attempt recorded: a crash
\* or an error between the model's answer and the completion loses no claim.
ReportedBeforeDone ==
  \A a \in claims : attempts[a].status = "completed" =>
    \E d \in deltas : d.batch = attempts[a].batch /\ a \in d.from

\* A wave takes what occurred first: of what it leaves pending nothing is known
\* to have occurred before an observation it batches; what has no time waits.
KnownBefore(p, o) == OccurredAt[p] # 0 /\ (OccurredAt[o] = 0 \/ OccurredAt[p] < OccurredAt[o])
ChronologicalClaims ==
  [][\A o \in Batched' \ Batched, p \in Pending' : ~KnownBefore(p, o)]_scribeVars

\* Attestations are recorded under the attempt of a Batch that is not finished
\* or by a turn whose attempt failed in this process; never by an attempt that
\* completed and never by one a dead process left behind.
NoLateClaims ==
  [][\A a \in claims' \ claims : attempts[a].status \in {"active", "failed"}]_scribeVars

\* Where the code gives an observation up for now. A Batch has failed all its
\* tries; or a write that failed left an attempt active, and only a new process
\* releases it; or it ended the last drain, and only a later offer starts one.
Failures(i) == {a \in DOMAIN attempts : attempts[a].batch = i /\ attempts[a].status = "failed"}
GivenUp(o) ==
  \/ \E i \in DOMAIN batches : ~batches[i].done /\ Cardinality(Failures(i)) >= Tries
  \/ \E i \in DOMAIN batches \ DOMAIN lane : o \in Range(batches[i].rows) /\ batches[i].active # Nobody
  \/ storeFailed /\ ~draining /\ queue = 0 /\ ~mailbox

\* Every admitted observation reaches a completed Batch, across failures and
\* deaths, unless the code gives it up; in particular an offer that arrives
\* while a drain claims its last wave is not overlooked.
EveryObservationExtracted ==
  \A o \in Observation :
    o \in Range(log) ~> \/ \E i \in DOMAIN batches : batches[i].done /\ o \in Range(batches[i].rows)
                        \/ GivenUp(o)

(* The ledger of waves and attempts, in one property.                      *)
WavesAreExact ==
  /\ [](ScribeTypeOK /\ OneBatchEach /\ AttemptsAgree /\ ReportedBeforeDone)
  /\ ChronologicalClaims
  /\ NoLateClaims
=============================================================================
