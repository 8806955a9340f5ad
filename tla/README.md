# A TLA+ model of the WhatsApp and GitHub agent

The program is one Node process that gives WhatsApp group chats and GitHub
repositories a shared agent. Language models decide *what* to say or do; the
code decides *when* they run, *what* may be recorded, and *what must happen
exactly once although the process can die at any instant*. This directory
models the second half: the durable protocols, their interleavings and their
recovery, and the operator's commands that touch the same files. TLC checks the
models on small instances; TLAPS proves the most important results for all
values of the constants.

Paths below are relative to `src/`: `engine` is `src/packages/engine/src`,
`agents` is `src/packages/agents/src`, `installation` is
`src/packages/installation/src`, `host` is `src/apps/runtime/src/host`, `cli`
is `src/apps/cli/src`.


## 1. Inventory

### The system in one picture

```
 WhatsApp ──► managed chat inbox ──► coalescer ──► Speaker (one Flue session per chat)
                  │ archive            │                │ escalate_intent      ▲ Directive
                  ▼                    ▼                ▼                      │
        historical replay ──► Scribe inbox ──► ... ──► BRAIN UP-INBOX ─────────┴─► Brain (one session)
                                   │ Scribe      delta ▲   ▲    ▲               │ launch    │ attest
                                   └───────────────────┘   │    └── result ── Specialist runs │
 GitHub webhook ──► ingress ───────────────────────────────┘                    │            ▼
                                       proactive clock ─► up-inbox     coder, reviewer     Graph
 GitHub issues ◄── filing and mutation Effects ◄── Brain          (sandboxes, pull requests)

 operator ──► CLI: init, config, repair, start, doctor ──► managed directory, keys, configuration
```

Two SQLite databases matter: the application's own and Flue's, the agent
framework. They commit separately. Flue keeps one serial *lane* of submissions
per agent session and resumes every lane as soon as the process starts; it
never resumes a workflow *run*.

### Components

| Component | State it keeps | Operations | Interacts with | Modelled in |
|---|---|---|---|---|
| Brain up-inbox (`engine/brain/inbox.ts`) | inputs, Batches, Effects, launches, results, wakes | admit, claim, mark dispatched, record, complete, reserve, accept, settle, schedule, clock | everything that feeds or runs the Brain | `BrainInbox` |
| Brain wake (`agents/brain/dispatch.ts`), agent and tools (`agents/brain/*`), Intent escalation | one semaphore permit | `wakeBrain`; tools over the up-inbox; boot recovery of pending Effects | up-inbox, Flue, Speakers, GitHub, Specialists | `BrainLoop`, `IssueOperations` |
| Runtime host (`host/whatsapp-runtime.ts`, `app.ts`) | the gates `brainReady` and the configured runtimes, fibers | boot sequence, clock, reload, canary, finalizers | all | `BrainLoop` and the others' boots |
| Directive ledger (`engine/surfaces/delivery.ts`) | `surface_deliveries`, `directive_outcomes` | claim, settle, settleWithoutSay, failWithoutSay | Speaker tools, activity reporter | `DirectiveDelivery` |
| Dispatch correlator, activity reporter | maps of active, early and seen dispatches (volatile) | accepted, ingest, replay, evict | Flue events, ledger, smoke canary | `TurnTracking`, `DirectiveDelivery` |
| WhatsApp account, port (`installation/whatsapp-account.ts`, `whatsapp-port.ts`) | the session, the batch chain, expected echoes, pending authentication | authenticate, send, archive, wait, stop | provider, archive, Brain's boot | `WhatsAppAccount`, `EchoMatching` |
| Specialist delegation (`agents/capabilities/delegation`) | launch and result rows; Flue's run records | launch, find, invoke, accept, deliver result, reconcile, recover | up-inbox, Flue | `SpecialistDelegation` |
| Managed chat inbox, relay, archive (`engine/intake`) | conversation events, Windows, receipts, the projection | append, commit Window, admit, mark, project | provider, coalescer | `ChatIntake`, `ArchiveProjection` |
| Coalescer (`engine/coalescer`) | one fiber and queue per chat | debounce, ceiling, immediate flush | inbox, Speaker dispatch | `ChatIntake`, `DebounceActor` |
| Scribe inbox, coalescer, durable clock | observations, waves, attempts | offer, claim, dispatch, acknowledge, drain | inbox, up-inbox | `ScribeWaves` |
| Historical replay | mode, phase and cursors per chat | enable, snapshot, next batch, advance, fail, disable | Scribe, archive | `HistoricalReplay` |
| GitHub ingress (`engine/github`) | delivery rows | claim, authorise, admit, settle, reconcile | up-inbox, operations | `GitHubIngress` |
| GitHub operations, filing, mutation; uncertain work | operation rows | begin, write, observe, complete; diagnose, retry, accept, abandon | GitHub, operator | `IssueOperations` |
| Surface registry, chat gate | Surfaces and bindings | boot, reload, activate direct, retire | intake, prompts | `SurfaceRegistry` |
| Graph belief store (`engine/graph`) | the log of Attestations, the Belief Projection | attest, rule, merge, rebuild | Scribe, Brain | `GraphStore` |
| Coder, Reviewer | registry, repair budget, branches and reviews | sandboxed runs, publication, submission | Git, sandbox, Brain | `CoderPublication`, `RepairBudget`, `ReviewSubmission` |
| Credentials and model authentication | the rotating credential, its lease | authenticate, authorize, refresh, save | model provider, tenant database | `ModelCredential` |
| Installation, schema, migration; operator CLI | the managed directory, locks, configuration, keys | init, adopt, repair, config, start | operator, runtime | `Installation`, `ManagedConfiguration` |
| Inputs and identities, diagnostics and logging, sandboxes, test support | none | formatting, reports, adapters | all | not modelled |

`PROJECT.json` lists each with its sources, its status and the reason for it.

### What is hard, and what correct means

* **Up-inbox.** Inputs arrive from six callers in any order while one Batch is
  open. Correct: one open Batch at a time; a Batch never changes; inputs are
  taken once, oldest first; nothing is settled while it owes an Effect; a
  Batch is never fed what it asked for itself; sweeps coalesce; wakes fire when
  due and not after their cancellation; GitHub is written only for a
  conversation.
* **Wake, boot and turns.** A wake is volatile, coalesced and gated; a receipt
  is recorded after Flue accepted the submission; the boot order decides which
  tools a resumed turn finds. Correct: every input is eventually settled; a
  Batch is submitted twice only because of a crash or a failed dispatch; a
  second submission changes nothing.
* **Directives and turns.** The send to WhatsApp cannot be undone or queried,
  the process may die around it, the turn's settlement races the send's
  outcome, and observations of a turn come before its receipt. Correct: said at
  most once; the outcome is honest and final; every Directive gets one; a turn
  is announced and judged once, and called silent only if nothing was heard.
* **Specialists.** A run is admitted in another database than its launch.
  Correct: one run for one launch over retries and crashes; one result, the
  first, and an honest one; every launch is reported.
* **Intake, Scribe, replay.** At-least-once delivery made into exactly-once
  Windows and waves over a crash; handoff from history to live. Correct: a chat
  is heard in order without a gap or a repetition; an observation is in one
  Batch and reported to the Brain before it is done; a cursor never passes what
  was not extracted; the archive says what the newest fact says.
* **GitHub.** Webhooks are redelivered and reordered; a write may have happened
  although its answer was lost. Correct: one write per identity, a ledger that
  never claims what is not so, each delivery admitted or settled in the end.
* **Surfaces.** Boots and reloads retire and bind while the Brain opens direct
  chats for a Prompt. Correct: nobody is spoken to whose chat is not configured
  or was not opened for an accepted Prompt; the gate and the Surfaces agree.
* **Graph.** Beliefs are extended claim by claim and rebuilt after merges and
  rulings. Correct: both give what the log says; shared evidence is not counted
  twice; the Brain has the last word.
* **Coder and Reviewer.** Runs take minutes, and people push, close and rename
  meanwhile. Correct: what is published was verified; others' commits survive;
  the budget holds; one review per head, an approval that was earned.
* **Credentials.** A refresh token is good for one exchange and a lease may run
  out while the provider answers. Correct: presented once; its successor saved
  before it is used and never overwritten by an older one; every call answered.
* **Directory and configuration.** Commands of several processes meet in the
  file system only and may die at each step. Correct: the tree is whole, the
  former one survives, one command at a time, and a started runtime has its keys.


## 2. Plan

The modules were written in order of how much of the system depends on them:
the Brain's store and loop, Directives and Specialists; then intake, Scribe and
replay; GitHub in and out; the operator's files; the Graph, the Coder and the
Reviewer; credentials, turns, the account and the Surfaces. All of them are
there. What could follow:

* the lists of repositories that a reload replaces with the chats;
* reconnections of the WhatsApp session inside one process;
* a store of the tenant's credentials under rollback, which section 7 describes
  in words.


## 3. Modules and the code

Every state-changing method is one action, or one action per stretch between
two awaits. Actions have the names of the code's functions where TLA+ allows
it, and the `map` in `PROJECT.json` gives the lines of every definition.

### The Brain

**BrainInbox** (`engine/brain/inbox.ts`). Every method of the store runs in one
synchronous SQLite transaction of the one process, so one method is one atomic
action and a call that throws is a stutter. All state is durable, so a crash
needs no action. Variables are columns: `admittedAt` and `assigned` are
`admitted_at` and `batch_id` of the input tables; `scheduled` and `cancelled`
the Scheduled Wake rows; `created`, `dispatched` and `settled` the Batch rows;
`effect` the status of each Effect; `launch` and `runOf` the launch rows.
Content-addressed ids are represented by the tuples they hash
(`Wake == Batch \X Reason \X Due`), which is what makes the reuse of an
identity visible.

**BrainFrontier**, the abstract promise: an input is absent, ready, claimed,
consumed or withdrawn; at most `Limit` are claimed, together, and they are
consumed together before any other. `BrainInbox!PhaseOf` is the refinement
mapping.

**BrainLoop** (`agents/brain/dispatch.ts`, `tools.ts`, `agent.ts`,
`effects-runtime.ts`, `host/whatsapp-runtime.ts`) `EXTENDS BrainInbox` and adds
what is around the store: queued and running `wakeBrain` calls (`wakes`,
`waking`), the Flue lane and turn, the boot phases, the snapshot of pending
prompts the boot recovers, and crashes. `Begin`, `WakeClaims`, `FlueAdmits` and
`WakeMarks` are the four pieces of `wakeBrain` between its awaits. A call that
throws fails the runtime only if the boot sequence awaits it. Of the Effects a
turn records there are prompts and silence; the writes to GitHub are
`IssueOperations`. A turn schedules Wakes and moves them (`TurnSchedules`). The
turn is diligent: it ends when its Batch is settled or its tools throw. A model
that gives up early is a wedge of its own, which the code leaves to the model's
instructions, and no property here could exclude it.

### What the Brain acts upon

**DirectiveDelivery** (`engine/surfaces/delivery.ts`,
`agents/capabilities/directive-delivery`, `agents/speaker`,
`host/whatsapp-runtime.ts`). From `prompt_speaker` to the Directive Outcome.
`status` and `dispatchOf` are the Effect row, `delivery` and `outcome` the
ledger's two tables, `archived` the archive; `lane` and `turn` are Flue's;
`sending` follows one `say` from the claim through the provider and the archive
to `settle`; `active`, `early` and `seen` are the correlator's maps.
`StartRuntime` is the synchronous start of the runtime: the lookup is installed,
which replays buffered events, *before* the subscription exists. `Lose`
remembers the Directives for which that, a crash or a failed runtime means that
nobody hears the turn's terminal event.

**TurnTracking** (`engine/dispatch/dispatch-correlator.ts`,
`agents/speaker/activity-reporter.ts`, the smoke canary of the host). A
`tracker` is the state of both: contexts, early observations and settled turns,
each bounded by `MaxTracked`; its field `told` is what subscribers heard. The same
correlator as in `DirectiveDelivery`, but with its bounds, its eviction and
every kind of observation, for the turns of Windows. The two loops of the code,
over the buffered observations of a turn and over the buffered turns, are
recursive functions (`ReplayEarly`, `RecoverWith`).

**SpecialistDelegation** (`agents/capabilities/delegation`,
`host/whatsapp-runtime.ts`). One Work per reserved launch. `call` follows
`acceptSpecialistLaunch`, search, invoke, accept, for each of its two callers,
the tool and the boot's recovery; `delivering` is `deliverTerminalResult`
between the settled run and its admission; `reconciling` and `readRun` are the
boot's reconciliation with its await in the middle. Flue's run records survive a
crash as `active`.

**GraphStore** (`engine/graph/store.ts`). `attestations` is the log, `index` the
memory, `beliefs`, `edges` and `names` the projected rows. `AttestEntity` and
`AttestRelation` extend both claim by claim, `AttestRuling` rebuilds both from
the log, `OpenAgain` is a restart. The fold over the whole log, `BeliefsOf`, is
the definition the increments are compared with, and is itself translated from
`rebuild`.

**SurfaceRegistry** (`engine/surfaces/registry.ts`, `engine/coalescer/chat-gate.ts`,
`host/authorization-reload.ts`, `whatsapp-runtime.ts`, `app.ts`,
`agents/brain/tools.ts`). `managed` is the file, `binding` the Surface rows of
each account, `current` the gate's set in the process; a reload is two steps,
the read and the application. `OpenDirect`, `DirectRecorded` and `DirectRefused`
are the transactions of a Prompt to a person.

### Intake and Scribe

**ChatIntake** (`engine/intake/managed-chat-inbox.ts`, `admission-relay.ts`,
`conversation-event.ts`, `conversation-archive.ts`, `engine/coalescer/coalescer.ts`,
`whatsapp.ts`, `agents/speaker/dispatch.ts`). An event is a message, a mention,
an update by somebody else, a mutation the bot sends, or history. `Deliver` and
`Redeliver` are the provider's callbacks; `TakeLive`, `TakeBacklog`, `Cut` and
`CutRefused` one actor per chat; `Replay` what the boot finds; `RelayStep` the
relay. `halted` are the fail-stopped chats. **ChatFeed** is
its abstract promise: the oldest unread events of a chat, in Windows, each
settled once.

**DebounceActor** (`engine/coalescer/debounce-actor.ts`) has the time that
`ChatIntake` leaves out: quiet time, ceiling, cap, urgency, end of stream, in
discrete time with punctual timers.

**ArchiveProjection** (`conversation-archive.ts`) rebuilds a message from all
its facts at each append; facts arrive in any order and some carry no time.

**WhatsAppAccount** and **EchoMatching** (`installation/whatsapp-account.ts`).
Callers who join one pending authentication, the chain of batches, the waits for
the first batch and the initial archive, the canary's message, and stop; and the
matching of a send's change with its echo by fingerprint. `confused` is history:
the scopes to which one of the archive's two known mistakes happened (section 7).

**ScribeWaves** (`engine/scribe/inbox.ts`, `agents/scribe/durable-clock.ts`,
`coalescer.ts`). `log` are the observations, `batches` and `attempts` the rows;
`Begin`, `Answer`, `Tell` and `Complete` one attempt; `AskFails`, `TellFails`
and `StoreFails` its failures; `Die` the process.

**HistoricalReplay** (`engine/intake/historical-replay.ts`,
`src/apps/runtime/src/workflows/historical-replay.ts`, the boot). `scanner` is
the row of a chat with its two marks and its cursor; `TakeBatch`, `Feed`,
`Drain`, `Checkpoint`, `Advance` the workflow; `OtherDrain` a drain that is not
the workflow's; `DispatchWindow` the live slice.

### GitHub

**IssueOperations** (`engine/github/operation-store.ts`,
`agents/brain/issue-filing.ts`, `issue-mutation.ts`,
`agents/capabilities/issue-management`, `installation/github-issue-repository.ts`,
`uncertain-work.ts`). `ops` is the ledger, `hits`, `marks` and `holds` what
GitHub has, `flying` the requests whose answer nobody has; `Lands` lets one of
them take effect late. A caller is the turn's tool or the boot's recovery. Each
retry of the operator's doctor is a fresh identity.

**GitHubIngress** (`engine/github/ingress.ts`, `ingress-store.ts`,
`ingress-runtime.ts`, `up-inbox.ts`, `channels/github.ts`) `EXTENDS
IssueOperations`, whose ledger a pull request reads to name the issues it
closes. `rows` is the ledger of deliveries, `answer` what GitHub was told,
`handling` the handler between its awaits.

**CoderPublication** (`agents/capabilities/coder`): `stage` of each run, the
branch and its commits, the pull requests, the registry, the host's one
directory of the issue, and what humans do meanwhile. The author of the pull
request may edit the verified tree (`Retouch`): only its prompt forbids it.
**RepairBudget** (`repair-tool.ts`, `registry.ts`, `continuation.ts`): a review's reservation and launch in two databases, the
budget, the demotion and its note. **ReviewSubmission**
(`agents/capabilities/reviewer`): each run's judgement and its submission, which
is single per head within a process and found by its marker across processes.

### Files and credentials

**Installation** (`installation/installation.ts`, `migration.ts`,
`cli/lifecycle.ts`, `cli/program.ts`, `cli/setup/first-run.ts`). `root`,
`legacy` and `staged` are trees, each the set of its parts; every invocation of
the CLI is a process, and every call that changes the file system a step.

**ManagedConfiguration** (`managed-config-store.ts`, `configuration.ts`,
`migration.ts`, `cli/program.ts`, `cli/model-configuration.ts`). The files that
`config` writes and `start` reads, file by file, with errors that come after the
replacement took place, and the rollback.

**ModelCredential** (`engine/model/chatgpt-authentication.ts`,
`installation/tenant-credentials.ts`). `step` follows a call through the chain,
the lease, the exchange and the save; `lease`, `stored`, `usable` and `expired`
are the store's and the provider's. Kill and abort may come at any step.

### Suites

The modules share few variables, so one MC module extends several of them and a
variable `part`, chosen at the start, says which one moves; the others rest in a
state in which none of their fair actions is enabled, so that their fairness
asks nothing. A run thus explores the union of its parts and each property is
checked of all. A part may narrow its instance (how many reloads, which
invocations), but never forbids an action that fairness demands. The parts of
each suite are described at the head of its MC module. Components that do share
state are composed for real: `BrainLoop` on `BrainInbox`, `GitHubIngress` on
`IssueOperations`, `WhatsAppAccount` on `EchoMatching`.

Properties of one kind and one component are stated one by one, each with its
comment, and checked as one conjunction (`WavesAreExact`,
`OperationsAreTrue`, ...), so that a trace is the trace of the component.

### Faulty variants

Next to some operators stands a faulty variant, named for its fault
(`RetireAll`, `FindNothing`, `PushForced`). No specification
uses them. Each is a plausible bug: put in place of the operator, it makes TLC
report the property listed with it under `mutants` in `PROJECT.json`. They show
that the properties can fail.


## 4. Runs

Seven runs pass.

| Run | Parts and instance | Shows |
|---|---|---|
| `brain_inbox` | *work*: 2 Batches, an Intent, an event, sweeps at 2 instants, one job with 2 runs, a prompt, a filing, a creating and an editing mutation, `Limit` 2. *wakes*: 2 Batches, sweeps and Scheduled Wakes only, 2 due times, clock to 2. *turns*: 3 turns in 2 chats, correlator of 2 entries, a mishap | settlement, provenance and comment invariants, one sweep, immutability and order of Batches, wakes on schedule, the refinement of `BrainFrontier`; and what the operator is told of turns |
| `brain_loop` | *brain*: an Intent, 2 sweeps, 3 Batches, 1 crash, 1 failing dispatch, 2 Effects, Surface may retire. *repair*, *fresh*, *twins*: one or two Coder runs, 4 commits, 2 pull requests, 2 moves of humans, a death. *budget*: 3 reviews, 2 calls of the tool, 1 death. *review*: 2 runs, 2 heads, 1 death. *surfaces*: 2 accounts, a group and a person, 2 boots, 2 edits of the file, 2 reloads in flight | what the process may never do: a Batch submitted again without a crash or failure, a second turn with an effect, unverified or clobbering pushes, an overdrawn budget, two reviews of a head or an unearned approval, participation nobody granted |
| `brain_progress` | *brain*: a Delta, an event, a sweep, 1 crash, 1 failing dispatch; or a Delta, a sweep and a Scheduled Wake, due at once, that turns schedule, cancel and ask for again, with a crash or a failing dispatch. *file*, *tenant*: 2 calls of one process or of two, 3 credentials, a lease of 2 heartbeats, 1 death, 1 abort | every ready input is settled, unless it is a Wake cancelled before its claim, a Batch is wedged or the runtime failed for good; the credential is refreshed once and saved; every call is answered |
| `work` | *directive*: 1 Directive, 2 dispatches, 2 crashes, a runtime that may fail. *launch*: 1 Work, 3 runs, 2 crashes, 1 exception. *evidence*, *rulings*, *merges*: logs of 4, 5 and 6 Attestations about up to 3 Entities, a restart | at most one send, honest and final outcomes, every Directive resolved unless its event was lost; honest and final results, one run per launch, every launch reported; incremental and complete fold of the Graph agree, evidence counts once, rulings prevail |
| `intake` | *intake*: a message, a mention, an update and a reaction of the bot, `Capacity` 2, 2 troubles (crash, repetition, failing store), a reload. *debounce*: window 2, cap of waiting 3, 4 elements. *archive*: 6 facts about 2 messages. *account*: 2 callers, 2 batches. *changes*: 4 changes of one mark, 2 of them the bot's | nothing forgotten, fail-stops with a cause, order, the refinement of `ChatFeed`, every event read and every Window settled; nobody starved; the projection follows time; the account reports what is so |
| `scribe` | *waves*: 2 observations, 1 mishap. *tries*: 1 observation, 2 mishaps, so that all tries fail. *wide*: 3 events in 2 chats. *long*: 1 chat through 4 turns of fate | each observation in one Batch and told before done, late claims do not count, nothing skipped at the handoff, chats live together, everything accepted is fed |
| `edges` | *writes*: 1 Effect of any kind, 1 operator retry, 3 fates. *webhooks*: 1 delivery of any content, 3 fates. *correlation*: a filing and a pull request that may refer to it. *directory*: 3 invocations, 1 death, 1 removal of a lock. *sessions*, *start*: 2 sessions of `config`, or one and a start, 1 breakage | one write per identity and a true ledger; deliveries accounted for and settled; the directory whole and one command's; keys fit the configuration |

Five runs end in a counterexample, on purpose (section 7): `brain_wedge`,
`delegation_interrupted`, `intake_reaction`, `scribe_replay`, `github_deferral`.

**Why the bounds are enough.** `Limit` 2 with three or more inputs makes a claim
leave inputs behind; two Batches show one behind the other, and three let a
Batch be claimed by a graph read after a settlement. Two due times are needed to
reschedule there and back; for progress one due time is enough, because a Wake
replaced by itself is cancelled without a successor. One crash and one failing dispatch reach every
recovery path of the Brain; two crashes also reach the recovery of a recovery,
and two dispatches the duplicate turn. Three runs let one Work be run by two
racing callers and once more. `Capacity` 2 lets a Window be full, refused and
followed by another. Two mishaps with two tries exhaust the tries. Four turns of
fate let a chat go live, be disabled, resumed and interrupted again. Three fates
let an answer be lost, the process die, and another hand interfere. Three
invocations are a stale lock, who breaks it, and who comes beside. Three
credentials are one refresh that saved and one that slipped.

Every bound is a constant of its module and named there: `MaxTime`, `Due`,
`MaxWakes` (queued wakes saturate: the next one does all the work of those
behind it), `MaxSubs`, `MaxCrashes`, `MaxFaults`, `MaxDeaths`, `MaxTracked`
(which is the code's, made small), `MaxMishaps`, `MaxTroubles`, `MaxEvents`,
`MaxReloads`, `MaxClock`, `MaxElements`, `MaxTurns`, `MaxDrains`, `MaxFates`,
`MaxRetries`, `MaxOverlaps`, `MaxInvocations`, `MaxKills`, `MaxUnlinks`,
`MaxBreaks`, `MaxLog`, `MaxOpens`, `MaxIssued`, `MaxAborts`, `MaxCommits`,
`MaxPrs`, `MaxRounds`, `MaxHumans`, `MaxRunDeaths`, `MaxBudget`, `MaxNotes`,
`MaxToolDeaths`, `MaxHeads`, `MaxReviewDeaths`, `MaxFiles`, `MaxReads`,
`MaxStarts`, and the pools of ids.

**Larger instances.** The safety properties were also explored on instances too
large for a regular run. Exhaustively: two Directives with one crash (540,000
states), one Directive with three dispatches (1.6 million), two Works with two
runs (337,000), four credentials, three edits of the chats' file (577,000). By
simulation, from millions to tens of millions of states each: four observations
with five mishaps, four archived events with seven turns of fate, six events in
two chats, more callers and changes of the account, five invocations of the CLI,
three sessions of `config`, three Coder runs, four dispatches, a log of nine
Attestations, three chats for the Surfaces. None of them showed a violation.

`CHECK_DEADLOCK FALSE` stands in the runs with a process: a runtime that has
failed really stops, and a system whose bounded crashes, faults and inputs are
used up has nothing left to do. Symmetry is used over Batch ids and only in
`brain_inbox`, which checks no liveness.


## 5. Fairness

Nobody is assumed to send, ask, launch, edit or retry, no process to die, and no
provider call to succeed. What is assumed:

* `BrainLoop`: the wake steps, the boot steps, the turn steps and the clock. The
  event loop resumes a promise that can continue, Flue works off its lane and
  gives every turn a time limit, and `setInterval` fires.
* `DirectiveDelivery`: dispatching, sending, the turn and the boot. A turn may
  fail in the middle of a provider call, which is what Flue's one-hour limit does.
* `SpecialistDelegation`: calls that are under way, the end of live runs, the
  delivery of their results, and the boot.
* `ChatIntake`: a fiber that can go on does: an element in its queue is taken,
  the timer of a buffer fires, a dispatch returns or throws.
* `ScribeWaves`: the debounce fires, the permit is handed on, every call returns.
* `HistoricalReplay`: the runtime is started again, boots, runs its workflow and
  dispatches Windows; the Brain works through its backlog.
* `IssueOperations`: a request ends with an answer or the client's timeout, a
  read ends, the process is started again and its recovery goes on.
* `GitHubIngress`: GitHub, or who tends it, repeats a delivery that was refused;
  the calls of a handler end; a dead runtime is started again and wires its inbox.
* `ModelCredential`: a call goes on, and time does, so a lease runs out.

All of it is weak fairness. Where a restart is assumed, the property is about
what the restarted process does; the program's own README leaves supervision to
systemd or another process manager (`README.md:172`).


## 6. Proofs

Eight proof modules; each `EXTENDS` the modules of the components it is about
and covers one or several of them. All theorems hold for any values of the
constants that the named `ASSUME`s allow: types and lower bounds of the
constants, that `None`, `Nobody` and their like are none of the values they
stand beside, `InboxDisjoint` (rows of different tables are different) and
`InboxFinite` (`IsFiniteSet(Input)`, needed only for the cardinality of a
claim). TLC evaluates the assumptions on every run.

Every proof has the same shape. A property is seldom inductive, so there is an
inductive invariant (`...Inv`) that adds what the code relies on silently; TLC
checked it before it was proved; one lemma says that the initial states satisfy
it, one per action, and under it a step per conjunct that the action can
disturb; the property is a consequence.

### BrainProofs

`BrainInbox`. `TypeCorrect`, and `BrainInvariant`: the inductive invariant is
`TypeOK /\ Ownership /\ OneOpenBatch /\ SettledBatchesClean /\ NoSelfFeeding /\
OneOutstandingSweep /\ WritesHaveProvenance /\ EditsOwnComments`. `Ownership` is
the strengthening: none of the others is inductive alone. `NoSelfFeeding` needs
to know that a Batch that asks for work was dispatched, hence created, so no
later claim can be the claim that created it; `SettledBatchesClean` needs that
an Effect belongs to a dispatched Batch; `OneOutstandingSweep` needs that a
claimed sweep's Batch exists. From it follow `OneOpenBatchAlways`,
`SettledBatchesCleanAlways`, `NoSelfFeedingAlways`, `OneOutstandingSweepAlways`,
`WriteProvenanceAlways`, and the action properties `BatchesAreImmutable`,
`ClaimsDoNotOvertake`, `WakesFireOnSchedule`. `InboxImplementsFrontier` is
`Spec => Frontier!Spec`: every action maps to one abstract step or a stutter. A
claim maps to `Claim` of the chosen inputs and needs `OneOpenBatch`; a
settlement maps to `Consume` and needs that the settled Batch is the open one
and holds *all* claimed inputs.

`BrainLoop` carries this over to the composed system, for any number of queued
wakes, crashes and faults. `LoopImplementsStore` is `LoopSpec => Spec`: every
step of a wake, a turn, the boot or a crash is one transaction of the store or
leaves it alone. `LoopInvariant` and `LoopTypeCorrect`: `LoopInv == BrainInv /\
LoopTypeOK` is inductive. `DuplicatesAreBounded`: the strengthening is
`Submissions`. A Batch is `Unsubmitted` while it has no receipt and either the
wake in flight has not reached Flue or no wake holds it and this process can
still start one; such a Batch was submitted at most `crashes + faults` times.
The single permit, and the receipt written before it is released, are what the
argument needs. `SettledBatchesStayFrozen` follows from `SettledBatchesClean`.

`ModelCredential`, in the same module. The invariant (`CredentialInvariant`) is `CredentialTyped /\ Lined /\ Known /\
Unsaved /\ Displaced /\ Current /\ Once`. The argument is about the call in
charge, the one whose process and whose lease let it work. There is one at most
(`OneInCharge`); what it has read is what the store holds (`Current`); a call
that lost its lease works with a credential that has slipped (`Displaced`); and
a token that was presented and has not slipped is no longer in the store, or
held by the call in charge (`Once`). `CredentialIsSoundAlways` concludes that a
token that nobody failed over was presented once, that authorized means saved,
and that a save replaces the credential it was derived from.

### WorkProofs

`DirectiveDelivery`. The invariant (`DeliveryInvariant`) is `TypeOK /\ Attempt
/\ AtMostOneSend /\ HonestOutcome`. `Attempt` says what each stage of a `say`
knows: before the claim and after a refused call nothing was sent, after an
acknowledgement exactly one message was, and after the archive append it is
archived. `AtMostOneSend` is inductive only with it, because a second claim is
refused by a row that exists, not by the count of sends. From it follow
`TypeCorrect`, `DeliveryIsHonestAlways`, and `OutcomesAreFinal`: behind an
Outcome `failed` or `settled_without_say` no attempt is under way, so none can
settle it again.

`SpecialistDelegation`. The invariant (`DelegationInvariant`) is
`DelegationTypeOK /\ Bookkeeping /\ HonestResult /\ OneCaller /\ OneRunPerLaunch`.
`Bookkeeping` relates what the process holds to Flue's records, above all that a
status read before an await is still true after it if it was `completed`.
`OneCaller` says that, unless callers of one Work overlapped, a search that
found no run stays true until the invocation. From it follow
`DelegationTypeCorrect`, `ResultsAreHonestAlways`, and `FirstResultStandsAlways`.

`GraphStore`. `GraphInvariant` and `BeliefsAreEarnedAlways`. The invariant
(`GraphInv`) is `BeliefsFollowLog` and a log in which rulings refer to earlier
Attestations (`Logged`): the projection the store keeps is always the fold over
the whole log, so everything else is a fact about that fold. The effort is in the
step of a claim, which extends the projection where a merge or a ruling makes it
again: a claim of an Entity or of a relation changes no ruling and no merge
(`MergesKept`) and joins the group of one Entity or one edge
(`IndexWithEntity`, `IndexWithRelation`), hence no other belief changes
(`BeliefKept`). `IndependentSupport` compares two recursive
definitions: the pieces of support, which the accumulator joins claim by claim in
the order of the log, and the classes of claims connected by shared evidence,
which mention no order. `PiecesAre` and `ConnectedIs` show by induction, with a
set in place of the predicate, that each piece holds the evidence of one class,
and `PiecesCount` that there are as many of the one as of the other.
`BrainHasTheLastWord` rests on `ChosenIs`: ranks have a greatest element, and it
has the greatest authority. Assumption: `GraphConstants`, of which the proof needs
that the ids of Entities are finitely many: a chain of merges or of shared
evidence is followed for as many steps as there are Entities or claims.

### IntakeProofs

`ChatIntake`. `IntakeLossless` is the conjunction of what the intake promises
(`IntakeIsLossless`), and `IntakeImplementsFeed` the refinement of `ChatFeed`.
The invariant (`IntakeInvariant`) says where an event may be. `Rows`, `Placed`
and `Turns` describe the tables, the queues and the dispatches. `OnItsWay`: a
row that no Window holds is in the backlog, in the queue or in the buffer of its
chat. `Tidy`: in a chat without a repeated update or a mutation of the bot it is
there in the order of its number, which is why `createWindow` refuses no draft
without a cause (`FailStopHasCause`). `Occasions`: the copies of an event on
their way and the admissions of its Window are together no more than the reasons
for them. `InOrder`: a Window that was not heard is still to be replayed, or is
the one its chat's actor is about. The refinement keeps the rows and maps
`status` to an outcome: creating a Window reads the oldest unread events of a
chat, settling one gives it its outcome once, and every other step is a stutter.
Assumption: `IntakeConstants`.

`DebounceActor`. `DebounceOnTime`: the flush comes when the quiet time or the
ceiling ends and not before, with the true reason. Assumption:
`DebounceConstants`.

`ArchiveProjection`. `ProjectionFollowsTimeAlways`. The invariant
(`ArchiveInv`) adds that each row number is given once and none exceeds the
count of rows. A rebuild applies the sorted updates one after another, a
recursive function over the numbers of the updates: `StepsExist` constructs it,
`RankedIs` shows that the sort leaves no fact out and keeps the order, and
`AppliedIs` says by induction on the updates what is shown after each.
Assumption: `ArchiveConstants`.

### ScribeProofs

`ScribeWaves`. `WavesAreExactAlways` is the whole ledger: `OneBatchEach`,
`AttemptsAgree`, `ReportedBeforeDone`, and the action properties
`ChronologicalClaims` and `NoLateClaims`. The invariant (`WavesInvariant`) says
that the tables of Batches and attempts name each other (`Linked`), that a task
which has told the Brain has told it of what its attempt recorded (`Heard`), and
that a running turn's attempt is active or has failed (`TurnsAreOpen`). A claim
sorts the pending observations, takes the first of them and cuts them into
pieces. The model numbers them by the count of those before each:
`RanksAreExact` shows that the numbers of a finite set in a total order are
exactly those from 0 up, so `NextRows` holds nobody twice and leaves nobody
earlier behind (`NextRowsAre`); `SplitIs` shows that the pieces are not empty,
share no row and leave none out. Assumption: `WavesAssumption`.

`HistoricalReplay`. `HandoffIsExactAlways` is `NothingSkipped` with
`CheckpointAfterExtraction` and `LiveTogether`. The invariant
(`ReplayInvariant`) adds to the types where marks and cursors lie (`Placed`) and
what a run holds (`BatchHeld`): a batch is closed under what is earlier in the
same chat, and it is fed before it is drained and extracted before the cursor
moves. That the cursor may jump to the latest row of a batch rests on this: what
lies between the old cursor and the new one is in the batch. A scanner that
fails, is retried or disabled under a running workflow keeps the marks
`Unskipped` speaks of. Assumption: `ReplayAssumption`.

### SurfaceProofs

`SurfaceRegistry`. `ParticipationIsGrantedAlways`. That a Prompt keeps its
Surface needs what the operator grants (`OperatorGrants`): a configured Surface
that he has not taken away is one of a managed chat of the paired account, and
what a reload in flight or a starting process still holds beyond the managed
chats he has taken away. As long as no reload is stale, such a Surface is in
every reading that may still be applied (`FreshReads`), and there is one such
reading (`OneRead`). Assumption: `SurfaceConstants`.

`WhatsAppAccount` on `EchoMatching`. `AccountIsTrueAlways`. `ChainHolds` says
which batch is the chain's first one while the archive has not settled, and
`OneOwner` that one caller runs what the others wait for. For the archive,
`SendsPrecede` says that the sends of a scope come before its last change or are
that change, and `Awaited` that nothing of its scope was reported since an
expected echo was sent. A change that is taken for an echo has then the newest
archived value already, unless a later send had replaced it: the attempt to
prove the property without this exception is how the second mistake of section 7
was found, which values too few had hidden from TLC. Assumptions:
`AccountConstants`, `EchoConstants`.

`TurnTracking`. `TurnInvariant` and `TurnsAreToldAlways`. What the operator
hears of a turn is decided by maps that were filled in another order than the
one in which things happened, so the invariant says of every turn how the maps
fit what Flue has done with it (`TurnStands`): what is buffered of a turn that
has not ended is at most its start; a turn the process was told of is active
until it ends or was evicted; who has a verdict has ended; and what the
evictions lost is in `evicted` and `missed`. That speech is ascribed to the
right turn needs that a chat's key is its running turn (`KeysStand`). A receipt
that comes late replays a start, which sets this key: that it cannot take the
key from a turn that runs needs that Flue runs a chat's turns in the order in
which they were dispatched (`QueuesStand`) and that the one whose receipt is out
is the last (`LastComing`). While the lookup is not installed, the running turn
of a chat is the last of its turns in the buffer (`Starting`), so the recovery
ends with its key. The canary waits only for a verdict that is still to come
(`CanaryWaits`).

The replay of one turn and the recovery of all are recursive functions. Of the
first it is proved that at most two observations are held, so it is unfolded
(`ReplayIs`); of the second, that a run of the recovery exists (`Iterated`, by
induction with a set), and that the turns recovered so far stand while the
others wait (`OneRecovered`, `RecoveryEnds`). `AcceptStands`, `IngestBegun` and
`IngestEnded` are the three entries of the correlator, each one lemma: a
receipt, a start, an end. Assumption: `TurnConstants`.

### GitHubProofs

`IssueOperations`. The invariant (`OperationsInvariant`) is `OperationsStand`.
It adds `Caused` (what is on GitHub has a request that caused it), `Unsent` (an
identity that is not in the ledger was never sent), `Remembered` (a caller that
has read a completion is right about it) and `Replaces` (the doctor sends
replacements only) to `SentOnce`, `OutcomeTrue`, `LedgerTrue` and
`OneOpenIdentity`. That an identity is sent once rests on `Unsent`: it is begun
in the ledger before the request leaves, whoever dies afterwards.
`OperationsAreTrueAlways` proves these and the action property `SettledForGood`
together.

`GitHubIngress`, composed with it. `IngressInvariant` and
`IngressIsFaithfulAlways`. A pull request refers to issues that were filed
(`LinkedIsFiled`), and its handler names them or they were given up
(`HandlerKnows`); a delivery that GitHub believes taken was launched or admitted,
unless repetitions overlapped (`TakenIsSettled`). The case that matters is the filing whose answer was lost:
when nothing is pending, a filing that took effect is completed or given up,
because the ledger knows it (`Unsent`) and did not call it failed
(`LedgerTrue`). Assumptions: `OperationsAssumption`, `IngressAssumption`,
`HumanAssumption`.

### CodingProofs

`ReviewSubmission`. The invariant (`ReviewInvariant`) is `ReviewTyped /\
Informed /\ Carried /\ Fresh /\ OneReviewPerHead /\ ApprovalEarned`. That a head
is reviewed once rests on `Fresh`: between a search that found nothing and the
creation nothing else can post one, because each head has one submission, and
one run carries it out (`Carried`). `Informed` is what a run knows while it
submits, which earns an approval. `ReviewsAreEarnedAlways`.

`RepairBudget`. The invariant (`BudgetInvariant`) is `BudgetTyped /\ Backed /\
Counted /\ ReservationsStand /\ OneNote`. `Backed` says what the stage of a call
knows of the rows in the two databases, and that a review is owned by one call
at a time: a reservation that is given back is one for which nothing was
launched. `BudgetIsKeptAlways`.

`CoderPublication`. `CoderInvariant` and `PublicationIsSoundAlways`, an
invariant and two action properties. `HistoryTyped` and `PullsStand` describe
the commits and the pull requests. That a commit holds what was verified rests
on `Alone` (two runs at once have both lost the directory) and `OwnTree` (one
that has not finds in it what it left there: what was verified, or that
`Retouched` by its own author); who has committed does not code
again (`Authored`). That a repair keeps to its pull request rests on `Held`,
that a ready one has passed on `Judged`. That a push drops nobody's commits is
about `Ancestors`, a recursive function: `UpTo` is induction over the commits
with a set in place of the predicate (`WFMin` of the library takes one), and
`AncestorsClosed` and `AncestorsKept` follow by it. Assumption:
`CoderConstants`.

### InstallationProofs

`Installation`. `DirectoryInvariant` and `DirectoryIsKeptAlways`. The setup lock
names the one command in the protected section (`SetupLocked`), so each of its
steps knows what the tree it prepares already has (`Prepares`). The instance
lock excludes less: whoever is past it owns the file or is a rival
(`InstanceLocked`), because another goes on to write only where it saw no living
owner. A repair has seen every start that began before it (`SwapSeen`).
Assumptions: `InstallationBounds`, `InstallationMarks`.

`ManagedConfiguration`. `ConfigurationInvariant` and
`KeysFitConfigurationAlways`. The files go one way only (`Progress`): the token
is retired once, an App is replaced and never removed, a key is overwritten and
never deleted. So what a session read before still fits when it writes the next
file (`Knows`), and only a session that nobody disturbed owes a restoration
(`Restoring`). Assumption: `ConfigurationBounds`.

### Model-checked only

Liveness (`LoopProgress`, `EveryCallAnswered`, `DirectiveResolved`,
`EveryLaunchReported`, `IntakeProgress`, `EveryObservationExtracted`,
`EveryAcceptedEventFed`, `RecoverySettles`, `DeliveredIsSettled`) is out of this
prover's reach, as is `ENABLED`.

Every safety property that a passing run checks is proved. No module uses a
RECURSIVE operator.

## 7. Where code and text disagree

Five runs end in a counterexample. Each checks one sentence of the repository.

| Run | The sentence | What the code does |
|---|---|---|
| `brain_wedge` | waking is gated so that a Batch is never dispatched before its tools exist (`host/whatsapp-runtime.ts:356`) | the Scribe's wake is not gated; the Batch keeps its receipt, and no wake dispatches it again |
| `delegation_interrupted` | an active record at boot "is a genuine interrupt" (`:593`) | a resumed turn may launch work before reconciliation, which then reports a live run as interrupted |
| `intake_reaction` | "Every accepted live message belongs to exactly one Window." (`CONTEXT.md:141`) | the bot's own reaction, edit or revocation becomes a pending row that nobody queues; the next Window is refused, and the chat is fail-stopped until a restart |
| `scribe_replay` | replay is "complete only after both extraction and the resulting Brain backlog have caught up" (`docs/adr/0001-global-scribe-clock.md:11`) | the workflow waits for the Deltas of its own drain; when another drain extracted what it fed, it waits for none |
| `github_deferral` | "a deferral, never a drop" (`engine/github/ingress.ts:500`) | a delivery repeated while the first attempt is handled is answered 200; when the first then defers, nothing delivers it again |

None of them is repaired in the model. The positive properties name what they
leave out: `Wedged`, the failed runtime and `Withdrawn` in `LoopProgress` (a Wake
that is due and admitted, and then cancelled by a turn before a Batch takes it,
is never settled), `Retouched` in `PublishedIsVerified`, `lost` in
`DirectiveResolved`, `missed` and `raced` in `EveryLaunchReported` and
`OneRunPerLaunch`, `halted` in `IntakeProgress`, `cut` in
`EveryAcceptedEventFed`, `overlapped` in `DeliveredIsSettled`.

The models show more of the kind without a run of their own.

*Brain and Directives.*
* A wake rescheduled to an identity used before finds the old, cancelled row by
  `INSERT OR IGNORE`, and no wake is live; `CONTEXT.md:82` says a reschedule
  "creates a replacement".
* The boot awaits one wake outside any handler (`whatsapp-runtime.ts:603`), and
  a dispatch that throws there fails the runtime; by the comment at `:367` such
  a failure is not fatal.
* Events buffered before `startWhatsAppRuntime` are replayed at `:413`, before
  the subscription at `:427`: a turn that settled without Saying leaves no
  Outcome, against `docs/SYSTEM-ARCHITECTURE.md:295`.
* A launch bound to a dead run after reconciliation has passed (`:599`) is
  silent, against the no-drop rule of `docs/SYSTEM-ARCHITECTURE.md:509`.
* A prompt whose delivery failed stays pending; retried in other words it is a
  second Effect.
* Speech heard before the receipt, after an eviction or in an earlier process
  leaves its turn told as silent; a dispatch evicted from the memory of settled
  turns can be announced again, against "exactly once per dispatch" in
  `dispatch-correlator.ts:13`. Lost receipts leave a turn untold.

*Surfaces.*
* A process that dies between binding a direct chat and recording its Prompt
  leaves an active binding without a Prompt Effect, against the comment at
  `agents/brain/tools.ts:133` (`interrupted`).
* A SIGHUP between the handler's registration and the start of WhatsApp is lost
  (`app.ts:279`), and two overlapping reloads may be applied in the wrong order
  (`stale`).

*Intake, account, Scribe.*
* `whatsapp-account.ts:68` promises that the initial archive resolves after
  *every* queued batch; line 226 resolves it after whichever batch follows the
  link. A batch append that throws breaks the chain for later batches. `stop`
  leaves callers that wait for authentication without an answer. The canary
  fails when its echo is archived first. A change of the same mark by another
  device between a send and its resolution is dated wrong. And a send does not
  withdraw what is expected of its scope (`:314`), only an update does: after
  sends of A and B, one whose echo of A never came, a change back to A by
  another device is taken for that echo and the archive goes on to say B. The
  test at `tests/whatsapp/account.test.ts:432` "matches only bounded
  same-account mutation echoes" tries an update in between, never a send
  (`confused`).
* After three failed tries the Scribe's drain stops until the next offer or
  boot (`GivenUp`), and an attempt whose failure could not be written stays
  active until the next boot. A Delta may be admitted twice.
* A chat's event whose Window waits when the chat is disabled at boot is never
  fed (`cut`).

*GitHub.*
* The doctor's retry also proceeds when the diagnosis could not be read, or when
  the mark lies beyond the records it looks at: the Effect may be made again
  under a new identity, against `CONTEXT.md:266`, "A lost response is never
  grounds to repeat a mutation."
* The doctor marks an operation of a live process uncertain by opening the
  ledger, and may record a comment as failed that is made afterwards.
* An update reads a body and writes it back, over an edit made in between. The
  boot's list of pending Effects may be stale by the time it is carried out. A
  review is launched again on each redelivery after a deferral.
* Two Coder runs of one issue share the local directory `issue-N` and mix their
  edits; `PublishedIsVerified` speaks of runs that did not cross. The author of
  the pull request runs with the Coder's profile in the same writable sandbox
  (`coder/workflow.ts:387`), and the tool publishes the tree it finds
  (`coder/tool.ts:74`): that no edit follows the last verdict rests on the
  prompt (`coder/workflow.ts:172`, `coder/SKILL.md:32`) alone, and
  `PublishedIsVerified` admits the edits of that author. "Nothing was
  mutated" (`coder/tool.ts:93`) is wrong when the second verification fails
  after the push. A pull request closed after the last look gets a substitute,
  against `coder/workflow.ts:394`. A run that dies between the pull request and
  its registration leaves it unregistered. A death between reservation and
  launch leaves a review a duplicate for good. Two demotions at once may write
  two notes.

*Files and credentials.*
* `repair` after a change of port probes the new one and swaps the store under
  the live runtime. An instance lock that is still empty is taken for a stale
  one; the port then refuses the second runtime. Releasing the setup lock
  removes whichever lock is there. The promotion of a replacement store is not
  atomic, and two repairs one after the other drop a freshly paired session.
* `config` writes back a snapshot that is minutes old: a change by another
  session is lost. A failed switch of providers leaves the other one's key, and
  the next start refuses. Two first starts may write different webhook secrets;
  a token file left by a crash makes the next `config` collect the Apps again.
* The file store of the credential serialises one process only. A tenant's abort
  after the exchange throws the successor away; a lease that runs out after the
  save reports a saved refresh as failed; a rollback of a tenant's credentials
  restores its snapshot without the lease.

*Graph.*
* An Entity overruled and attested again comes back without its edges until the
  next ruling or restart. When the Brain confirmed two values, the Scribe's next
  repetition decides. Single ownership and acyclicity are checked at attestation
  only. A COMMIT that fails leaves the memory ahead of the log.


## 8. What is not modelled

* Wording, rendering and evidence: `engine/inputs.ts`, prompts, digests,
  footers, and evidence ids that no guard reads. The models' choices, beyond
  "any tool, in any order, any number of times".
* External services: provider, GitHub, sandbox, Git, OAuth and Flue. What the
  code assumes of them is in the actions that call them. Two reads from GitHub
  in a row are one step.
* One-shot migrations of old schemas (Brain inbox, Scribe backfills, operation
  ledger, Graph projection, credential files) and validation of stored rows.
* Brain inbox: work milestones, which are notes no guard reads.
* Account: reconnections inside one process, QR and pairing callbacks, the
  candidates offered for configuration; history is imported on the first link.
* Correlator: the age limit of a day and the limit of early events of one turn.
* Graph: provenance and support lists, Confidence of relations, rounding, reads.
* GitHub: read tools, the rotation of a bounded diagnosis, the reuse of a
  delivery's identifier for another event.
* Installation: the tenant database's storage, `--data-dir`, permissions, the
  commands `auth`, `doctor`, `status` and `smoke`, which only report. Credentials:
  device login, encryption, deletion, the GitHub Apps' tokens.
* Surfaces: the lists of repositories a reload also replaces; the batch and
  evidence a Prompt must cite.
* Diagnostics, health, logging, sandboxes' adapters, test support and scripts:
  no state that another component races with.
* Ties of `admitted_at` are broken arbitrarily, which allows every order the
  code's tie-break could give; a clock that runs backwards is left out.
* Two runtimes on one installation: the instance lock and the port refuse the
  second, which `Installation` shows.
