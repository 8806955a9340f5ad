------------------------- MODULE SpecialistDelegation -------------------------
(***************************************************************************)
(* A Specialist launch from its reservation to its result: the launch tool *)
(* of the Brain (capabilities/delegation/tools.ts), the Flue workflow run, *)
(* the bridge that returns its result (bridge.ts), and the two passes of   *)
(* the boot sequence over the launches a dead process left behind          *)
(* (host/whatsapp-runtime.ts).                                             *)
(*                                                                         *)
(* The launch and result rows are those of BrainInbox, where Batches and   *)
(* provenance are; here a Work is one reserved launch. Flue keeps its run  *)
(* records in a database of its own, with the id of the Work in the input  *)
(* of a run, and never resumes a run. It writes the terminal record of a   *)
(* run before anyone who waited for the run can read it. The search for an *)
(* admitted run reads page after page; it is one step here, since only     *)
(* runs of the Work itself matter to it.                                   *)
(*                                                                         *)
(* The Brain is one serial agent, so one tool call at a time launches one  *)
(* Work; the boot sequence does not wait for it. SearchActive, LastResult  *)
(* and ReconcileOnlyEnded are faulty variants that nothing uses.           *)
(***************************************************************************)
EXTENDS Naturals

CONSTANTS
  Work,       \* Specialist launches, under their brain-work id
  Run,        \* Flue run ids (bounds the runs)
  MaxDeaths,  \* bounds the crashes of the process
  MaxFaults,  \* bounds the invocations that throw
  Nothing     \* no value

ASSUME DelegationConstants ==
  /\ MaxDeaths \in Nat
  /\ MaxFaults \in Nat
  /\ Nothing \notin Work \cup Run

VARIABLES
  \* the application database
  launch,     \* status of each brain_specialist_launches row
  runOf,      \* its run_id
  result,     \* status of the brain_specialist_results row of each Work
  \* Flue
  record,     \* status of each run record
  workOf,     \* the Work in the input of each run
  \* the process
  bootPhase,      \* how far the boot sequence has come
  reconciling,\* accepted launches reconcileSpecialistWorkAtBoot has still to look at
  readRun,    \* the one it is looking at, with the status it read
  recovering, \* pending launches recoverPendingSpecialistLaunches has still to accept
  calls,       \* progress of acceptSpecialistLaunch for each Work and caller
  live,       \* runs that execute in this process
  delivering, \* runs whose deliverTerminalResult waits for the run record
  \* history
  raced,      \* Works that two callers tried to accept at once
  missed,     \* Works whose bound run had ended, or died, before it was bound
  deaths,
  faults

rows     == <<launch, runOf, result>>
runs     == <<record, workOf>>
bootVars == <<bootPhase, reconciling, readRun, recovering>>
history  == <<raced, missed>>
bounds   == <<deaths, faults>>
delegationVars == <<rows, runs, bootVars, calls, live, delivering, history, bounds>>

Caller == {"tool", "boot"}
Idle   == [at |-> "idle", run |-> Nothing]
At(stage, r) == [at |-> stage, run |-> r]

DelegationInitAt(stage) ==
  /\ launch = [w \in Work |-> "absent"]
  /\ runOf = [w \in Work |-> Nothing]
  /\ result = [w \in Work |-> "none"]
  /\ record = [r \in Run |-> "absent"]
  /\ workOf = [r \in Run |-> Nothing]
  /\ bootPhase = stage
  /\ reconciling = {}
  /\ readRun = [work |-> Nothing, status |-> Nothing]
  /\ recovering = {}
  /\ calls = [c \in Work \X Caller |-> Idle]
  /\ live = {}
  /\ delivering = {}
  /\ raced = {}
  /\ missed = {}
  /\ deaths = 0
  /\ faults = 0
DelegationInit == DelegationInitAt("starting")

(* The delegation runtime is configured and the store it holds is open.    *)
Configured == bootPhase \in {"configured", "reconciling", "recovering", "ready"}

Calling(w) == \E c \in Caller : calls[<<w, c>>] # Idle
RunsOf(w)  == {r \in Run : workOf[r] = w}

-----------------------------------------------------------------------------
(* Launching: reserve, find or invoke, accept.                             *)

(* launchSpecialistWork of a Brain turn. A launch that is bound returns at *)
(* once.                                                                   *)
LaunchTool(w) ==
  /\ Configured
  /\ calls[<<w, "tool">>] = Idle
  /\ runOf[w] = Nothing
  /\ launch' = [launch EXCEPT ![w] = "pending"]
  /\ calls' = [calls EXCEPT ![<<w, "tool">>] = At("searching", Nothing)]
  /\ raced' = IF Calling(w) THEN raced \cup {w} ELSE raced
  /\ UNCHANGED <<runOf, result, runs, bootVars, live, delivering, missed, bounds>>

(* findAdmittedSpecialistRun looks for any run of the Work, ended or not,  *)
(* of this process or an earlier one.                                      *)
Found(w, c, candidates) ==
  /\ calls[<<w, c>>].at = "searching"
  /\ IF candidates = {}
     THEN calls' = [calls EXCEPT ![<<w, c>>] = At("invoking", Nothing)]
     ELSE \E r \in candidates : calls' = [calls EXCEPT ![<<w, c>>] = At("found", r)]
  /\ UNCHANGED <<rows, runs, bootVars, live, delivering, history, bounds>>
SearchActive(w, c) == Found(w, c, {r \in RunsOf(w) : record[r] = "active"} \cap live)
Search(w, c)       == Found(w, c, RunsOf(w))

(* invoke: Flue admits a run, which starts to execute in this process.     *)
Invoke(w, c, r) ==
  /\ calls[<<w, c>>].at = "invoking"
  /\ record[r] = "absent"
  /\ record' = [record EXCEPT ![r] = "active"]
  /\ workOf' = [workOf EXCEPT ![r] = w]
  /\ live' = live \cup {r}
  /\ calls' = [calls EXCEPT ![<<w, c>>] = At("found", r)]
  /\ UNCHANGED <<rows, bootVars, delivering, history, bounds>>

(* An exception in the boot sequence fails the runtime and closes the      *)
(* store; in a tool call it is the answer of the tool.                     *)
Raise(c) ==
  IF c = "boot"
  THEN /\ bootPhase' = "failed"
       /\ reconciling' = {}
       /\ recovering' = {}
       /\ readRun' = [work |-> Nothing, status |-> Nothing]
  ELSE UNCHANGED bootVars

(* invoke throws, before the run was admitted or after it.                 *)
InvokeThrows(w, c) ==
  /\ faults < MaxFaults
  /\ faults' = faults + 1
  /\ \/ calls[<<w, c>>].at = "invoking"
     \/ calls[<<w, c>>].at = "found" /\ calls[<<w, c>>].run \in live
  /\ calls' = [calls EXCEPT ![<<w, c>>] = Idle]
  /\ Raise(c)
  /\ UNCHANGED <<rows, runs, live, delivering, history, deaths>>

(* markSpecialistLaunchAccepted; it throws when the launch is bound to     *)
(* another run, or the store is closed.                                    *)
Accept(w, c) ==
  LET r == calls[<<w, c>>].run
  IN  /\ calls[<<w, c>>].at = "found"
      /\ calls' = [calls EXCEPT ![<<w, c>>] = Idle]
      /\ IF bootPhase # "failed" /\ runOf[w] \in {Nothing, r}
         THEN /\ launch' = [launch EXCEPT ![w] = "accepted"]
              /\ runOf' = [runOf EXCEPT ![w] = r]
              /\ missed' = IF runOf[w] = Nothing /\ r \notin live THEN missed \cup {w} ELSE missed
              /\ UNCHANGED bootVars
         ELSE UNCHANGED <<launch, runOf, missed>> /\ Raise(c)
      /\ UNCHANGED <<result, runs, live, delivering, raced, bounds>>

-----------------------------------------------------------------------------
(* Results.                                                                *)

(* admitRunResult: a Work has one result, the first.                       *)
LastResult(w, status) == result' = [result EXCEPT ![w] = status]
AdmitRunResult(w, status) ==
  result' = [result EXCEPT ![w] = IF @ = "none" THEN status ELSE @]

(* A run ends, completed or not. deliverAfterExecution looks for the       *)
(* launch that is bound to the run, and gives up when there is none.       *)
RunEnds(r, status) ==
  /\ r \in live
  /\ live' = live \ {r}
  /\ record' = [record EXCEPT ![r] = status]
  /\ delivering' = IF bootPhase # "failed" /\ \E w \in Work : runOf[w] = r
                   THEN delivering \cup {r} ELSE delivering
  /\ UNCHANGED <<rows, workOf, bootVars, calls, history, bounds>>

(* deliverTerminalResult, after it has read the record.                    *)
DeliverTerminalResult(r) ==
  /\ r \in delivering
  /\ delivering' = delivering \ {r}
  /\ \E w \in Work :
       /\ runOf[w] = r
       /\ IF bootPhase = "failed" THEN UNCHANGED result
          ELSE AdmitRunResult(w, IF record[r] = "completed" THEN "ok" ELSE "interrupted")
  /\ UNCHANGED <<launch, runOf, runs, bootVars, calls, live, history, bounds>>

-----------------------------------------------------------------------------
(* The boot sequence.                                                      *)

(* WhatsApp is authenticated: the tools of the Brain, whose lane Flue has  *)
(* resumed, work from here on.                                             *)
ConfigureDelegation ==
  /\ bootPhase = "starting"
  /\ bootPhase' = "configured"
  /\ UNCHANGED <<rows, runs, reconciling, readRun, recovering, calls, live, delivering, history, bounds>>

(* reconcileSpecialistWorkAtBoot reads the accepted launches without a     *)
(* result, then takes them one after the other: read the record, admit.    *)
ReconcileOnlyEnded ==
  /\ bootPhase = "configured"
  /\ bootPhase' = "reconciling"
  /\ reconciling' = {w \in Work : launch[w] = "accepted" /\ result[w] = "none"
                                                       /\ record[runOf[w]] # "active"}
  /\ UNCHANGED <<rows, runs, readRun, recovering, calls, live, delivering, history, bounds>>
BeginReconcile ==
  /\ bootPhase = "configured"
  /\ bootPhase' = "reconciling"
  /\ reconciling' = {w \in Work : launch[w] = "accepted" /\ result[w] = "none"}
  /\ UNCHANGED <<rows, runs, readRun, recovering, calls, live, delivering, history, bounds>>
ReadRunRecord(w) ==
  /\ bootPhase = "reconciling"
  /\ readRun.work = Nothing
  /\ w \in reconciling
  /\ reconciling' = reconciling \ {w}
  /\ readRun' = [work |-> w, status |-> record[runOf[w]]]
  /\ UNCHANGED <<rows, runs, bootPhase, recovering, calls, live, delivering, history, bounds>>
AdmitReconciled ==
  /\ bootPhase = "reconciling"
  /\ readRun.work # Nothing
  /\ AdmitRunResult(readRun.work, IF readRun.status = "completed" THEN "ok" ELSE "interrupted")
  /\ readRun' = [work |-> Nothing, status |-> Nothing]
  /\ UNCHANGED <<launch, runOf, runs, bootPhase, reconciling, recovering, calls, live, delivering, history, bounds>>

(* recoverPendingSpecialistLaunches reads the pending launches, then       *)
(* accepts them one after the other.                                       *)
BeginRecover ==
  /\ bootPhase = "reconciling"
  /\ reconciling = {}
  /\ readRun.work = Nothing
  /\ bootPhase' = "recovering"
  /\ recovering' = {w \in Work : launch[w] = "pending"}
  /\ UNCHANGED <<rows, runs, reconciling, readRun, calls, live, delivering, history, bounds>>
RecoverLaunch(w) ==
  /\ bootPhase = "recovering"
  /\ w \in recovering
  /\ \A v \in Work : calls[<<v, "boot">>] = Idle
  /\ recovering' = recovering \ {w}
  /\ calls' = [calls EXCEPT ![<<w, "boot">>] = At("searching", Nothing)]
  /\ raced' = IF Calling(w) THEN raced \cup {w} ELSE raced
  /\ UNCHANGED <<rows, runs, bootPhase, reconciling, readRun, live, delivering, missed, bounds>>
Ready ==
  /\ bootPhase = "recovering"
  /\ recovering = {}
  /\ \A v \in Work : calls[<<v, "boot">>] = Idle
  /\ bootPhase' = "ready"
  /\ UNCHANGED <<rows, runs, reconciling, readRun, recovering, calls, live, delivering, history, bounds>>

(* Nothing catches what a read of Flue's records or the wake after an      *)
(* admission throws here.                                                  *)
BootThrows ==
  /\ faults < MaxFaults
  /\ faults' = faults + 1
  /\ bootPhase \in {"reconciling", "recovering"}
  /\ \A v \in Work : calls[<<v, "boot">>] = Idle
  /\ Raise("boot")
  /\ UNCHANGED <<rows, runs, calls, live, delivering, history, deaths>>

(* The process dies with everything that executes in it. The records of    *)
(* its runs stay active.                                                   *)
DelegationCrash ==
  /\ deaths < MaxDeaths
  /\ deaths' = deaths + 1
  /\ bootPhase' = "starting"
  /\ reconciling' = {}
  /\ readRun' = [work |-> Nothing, status |-> Nothing]
  /\ recovering' = {}
  /\ calls' = [c \in Work \X Caller |-> Idle]
  /\ live' = {}
  /\ delivering' = {}
  /\ missed' = {}
  /\ UNCHANGED <<rows, runs, raced, faults>>

Calls ==
  \E w \in Work, c \in Caller :
    \/ Search(w, c)
    \/ \E r \in Run : Invoke(w, c, r)
    \/ Accept(w, c)

Results ==
  \E r \in Run :
    \/ \E status \in {"completed", "errored"} : RunEnds(r, status)
    \/ DeliverTerminalResult(r)

Boot ==
  \/ ConfigureDelegation
  \/ BeginReconcile
  \/ \E w \in Work : ReadRunRecord(w) \/ RecoverLaunch(w)
  \/ AdmitReconciled
  \/ BeginRecover
  \/ Ready

DelegationNext ==
  \/ \E w \in Work : LaunchTool(w)
  \/ Calls
  \/ \E w \in Work, c \in Caller : InvokeThrows(w, c)
  \/ BootThrows
  \/ Results
  \/ Boot
  \/ DelegationCrash

(* Calls and the boot sequence go on, and a run ends: its shell commands   *)
(* and its model calls have time limits. No tool call has to come.         *)
DelegationFairness ==
  /\ WF_delegationVars(Calls)
  /\ WF_delegationVars(Results)
  /\ WF_delegationVars(Boot)

DelegationSpec == DelegationInit /\ [][DelegationNext]_delegationVars /\ DelegationFairness

-----------------------------------------------------------------------------
(* Properties.                                                             *)

(* Rows and records have their types; a launch is accepted exactly when it *)
(* is bound, to a run of its own, and only an accepted launch has a result.*)
DelegationTypeOK ==
  /\ launch \in [Work -> {"absent", "pending", "accepted"}]
  /\ runOf \in [Work -> Run \cup {Nothing}]
  /\ result \in [Work -> {"none", "ok", "interrupted"}]
  /\ record \in [Run -> {"absent", "active", "completed", "errored"}]
  /\ workOf \in [Run -> Work \cup {Nothing}]
  /\ bootPhase \in {"starting", "configured", "reconciling", "recovering", "ready", "failed"}
  /\ reconciling \subseteq Work
  /\ readRun \in [work : Work \cup {Nothing}, status : {Nothing, "active", "completed", "errored"}]
  /\ recovering \subseteq Work
  /\ calls \in [Work \X Caller ->
                 [at : {"idle", "searching", "invoking", "found"}, run : Run \cup {Nothing}]]
  /\ live \subseteq Run
  /\ delivering \subseteq Run
  /\ \A w \in Work : launch[w] = "accepted" <=> runOf[w] # Nothing
  /\ \A w \in Work : runOf[w] # Nothing => workOf[runOf[w]] = w
  /\ \A w \in Work : result[w] # "none" => launch[w] = "accepted"

(* A result says ok only for a completed run, the one the launch is bound  *)
(* to, even when a second run of the same Work exists.                     *)
HonestResult ==
  \A w \in Work : result[w] = "ok" => record[runOf[w]] = "completed"

(* The Brain is told one result of a Work: a late delivery, or the boot    *)
(* after it, never replaces the first.                                     *)
FirstResultStands ==
  [][\A w \in Work : result[w] # "none" => result'[w] = result[w]]_delegationVars

(* Reserve, crash, retry, recover: as long as no two callers tried at once *)
(* a Work has one run only, however often it was retried.                  *)
OneRunPerLaunch ==
  \A w \in Work \ raced : \A q, r \in RunsOf(w) : q = r

(* A live run never outlives its bookkeeping: every accepted launch gets a *)
(* result, from its run or from a boot, unless it was bound to a run that  *)
(* had ended or died before, or the runtime stays failed.                  *)
EveryLaunchReported ==
  \A w \in Work :
    [](launch[w] = "accepted" =>
         <>(result[w] # "none" \/ w \in missed \/ [](bootPhase = "failed")))

(* The comment on the boot order: reconciliation comes first, so that an   *)
(* active record is a genuine interrupt, and live work is never reported   *)
(* as interrupted. But a resumed turn of the Brain launches before it.     *)
InterruptedMeansDead ==
  \A w \in Work : result[w] = "interrupted" => runOf[w] \notin live

(* Both together: a Work is one run, and its result is that run's.         *)
ResultsAreHonest == HonestResult /\ OneRunPerLaunch
=============================================================================
