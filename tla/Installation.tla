----------------------------- MODULE Installation -----------------------------
(***************************************************************************)
(* The managed data directory and the commands of the CLI that create it,  *)
(* move it, repair it and run upon it. Every command is a process of its   *)
(* own; they meet only in the file system: the root, the former default    *)
(* directory ("legacy"), the trees staged beside the root, the setup lock  *)
(* (a directory) and the instance lock (a file within the root).           *)
(*                                                                         *)
(* Invocations are processes, numbered in the order in which they start.   *)
(* A process may die at any step. The operator removes a setup lock only   *)
(* when the process that made it is gone, as its message asks for.         *)
(*                                                                         *)
(* Abstracted: a tree is the set of its parts, a file is whole or absent,  *)
(* modes and the content of files are those the code writes. Credentials   *)
(* kept in a tenant's database and --data-dir are left out.                *)
(***************************************************************************)
EXTENDS Naturals, FiniteSets

CONSTANTS
  MaxInvocations,  \* bound: processes started
  MaxKills,     \* bound: processes that die
  MaxUnlinks,   \* bound: times the phone unlinks the device
  NoDirectory,       \* there is no such directory
  Nobody,       \* nobody holds the lock
  Unwritten     \* what runtime.lock holds between its creation and its first write

ASSUME InstallationBounds == {MaxInvocations, MaxKills, MaxUnlinks} \subseteq Nat

Invocation == 1 .. MaxInvocations

VARIABLES
  root,         \* the managed data directory, a tree or NoDirectory
  legacy,       \* the former default directory
  home,         \* where the former one was at first: nowhere, on the same file
                \* system as the root ("beside") or on another ("apart")
  staged,       \* per command, the tree it prepares beside the root
  setupLock,    \* the command that made the lock directory, or Nobody
  runtimeLock,  \* the pid in runtime.lock; Unwritten as created; Nobody: no file
  task,         \* per command, what it was asked to do
  at,           \* per command, the next step of it
  moved,        \* runtimes that listen on a port the configuration no longer names
  kills, unlinks

(* What is remembered for the properties.                                  *)
VARIABLES
  torn,         \* repairs that ended between removing the store and putting the new one
  rivals,       \* starts that looked at the instance lock during another's write
  crossing      \* starts under way, and runtimes not where the configuration says,
                \* when a repair looked whether a runtime runs

installationVars == <<root, legacy, home, staged, setupLock, runtimeLock, task, at,
                      moved, kills, unlinks, torn, rivals, crossing>>
remembered == <<torn, rivals, crossing>>
installationBounds == <<kills, unlinks>>

-----------------------------------------------------------------------------

Piece == {"frame", "config", "apps", "model", "store"}

(* A tree: the parts it has, whether its store is a linked session, whether *)
(* its database records that it was adopted, and whether it began as the    *)
(* legacy directory.                                                        *)
Tree == [has : SUBSET Piece, linked : BOOLEAN, recorded : BOOLEAN, former : BOOLEAN]

(* An absent directory is no tree, and neither mark of a lock a process.   *)
ASSUME InstallationMarks ==
  /\ NoDirectory \notin Tree
  /\ {Nobody, Unwritten} \cap Invocation = {} /\ Nobody # Unwritten

EmptyTree == [has |-> {}, linked |-> FALSE, recorded |-> FALSE, former |-> FALSE]
Whole(t) == t.has = Piece

(* Component-owned paths do not count: the store and the credentials.      *)
Sound(t) == {"frame", "config"} \subseteq t.has

Inspected ==
  IF root = NoDirectory THEN "absent"
  ELSE IF setupLock = Nobody /\ Sound(root) THEN "ready" ELSE "incomplete"

SessionIs(t) == IF "store" \in t.has /\ t.linked THEN "paired" ELSE "re-pair-required"

Alive(c) == at[c] \notin {"idle", "ended", "dead"}

Proceed(c, p) == at' = [at EXCEPT ![c] = p]

InstallationInit ==
  /\ root = NoDirectory
  /\ home \in {"none", "beside", "apart"}
  /\ legacy = IF home = "none" THEN NoDirectory
              ELSE [has |-> Piece, linked |-> TRUE, recorded |-> FALSE, former |-> TRUE]
  /\ staged = [c \in Invocation |-> NoDirectory]
  /\ setupLock = Nobody /\ runtimeLock = Nobody /\ moved = {}
  /\ task = [c \in Invocation |-> "none"]
  /\ at = [c \in Invocation |-> "idle"]
  /\ kills = 0 /\ unlinks = 0
  /\ torn = {} /\ rivals = {} /\ crossing = {}

files == <<root, legacy, home, staged>>
locks == <<setupLock, runtimeLock, moved>>

Invoke(c, t) ==
  /\ at[c] = "idle"
  /\ \A b \in Invocation : b < c => at[b] # "idle"
  /\ task' = [task EXCEPT ![c] = t]
  /\ Proceed(c, "settle")
  /\ UNCHANGED <<files, locks, installationBounds, remembered>>

-----------------------------------------------------------------------------
(* The adoption of the legacy directory, before every command.             *)

Agreed == legacy = NoDirectory \/ (root # NoDirectory /\ root.recorded)
Clash == legacy # NoDirectory /\ root # NoDirectory /\ ~root.recorded

AfterSettled(c, otherwise) ==
  CASE Agreed -> Proceed(c, "begin") [] Clash -> Proceed(c, "ended") [] OTHER -> Proceed(c, otherwise)

Settle(c) ==
  /\ at[c] = "settle"
  /\ AfterSettled(c, "adoptLock")
  /\ UNCHANGED <<files, locks, task, installationBounds, remembered>>

(* The directory is made at once or the command fails.                     *)
AcquireSetupLock(c, from, to) ==
  /\ at[c] = from
  /\ IF setupLock = Nobody
       THEN setupLock' = c /\ Proceed(c, to)
       ELSE Proceed(c, "ended") /\ UNCHANGED setupLock
  /\ UNCHANGED <<files, runtimeLock, moved, task, installationBounds>>

(* A release removes whatever lock there is.                               *)
ReleaseSetupLock == setupLock' = Nobody

(* Agreed again under the lock, the legacy runtime probed, and what dead  *)
(* migrations left swept away. The probe may refuse.                       *)
AdoptCheck(c) ==
  /\ at[c] = "adoptCheck"
  /\ \/ /\ ~Agreed /\ ~Clash
        /\ Proceed(c, "move")
        /\ staged' = [b \in Invocation |-> IF staged[b] # NoDirectory /\ staged[b].former
                                          THEN NoDirectory ELSE staged[b]]
        /\ UNCHANGED setupLock
     \/ /\ Agreed \/ Clash
        /\ IF Agreed THEN Proceed(c, "begin") ELSE Proceed(c, "ended")
        /\ ReleaseSetupLock /\ UNCHANGED staged
     \/ Proceed(c, "ended") /\ ReleaseSetupLock /\ UNCHANGED staged
  /\ UNCHANGED <<root, legacy, home, runtimeLock, moved, task, installationBounds, remembered>>

MoveLegacy(c) ==
  /\ at[c] = "move"
  /\ IF home = "apart"
       THEN /\ staged' = [staged EXCEPT ![c] = [EmptyTree EXCEPT !.former = TRUE]]
            /\ Proceed(c, "copy") /\ UNCHANGED <<root, legacy>>
       ELSE /\ root' = legacy /\ legacy' = NoDirectory
            /\ Proceed(c, "record") /\ UNCHANGED staged
  /\ UNCHANGED <<home, locks, task, installationBounds, remembered>>

Record(c) ==
  /\ at[c] = "record"
  /\ root' = [root EXCEPT !.recorded = TRUE]
  /\ Proceed(c, "adopted")
  /\ UNCHANGED <<legacy, home, staged, locks, task, installationBounds, remembered>>

CopyTree(c) ==
  /\ at[c] = "copy"
  /\ IF staged[c].has = legacy.has
       THEN Proceed(c, "recordCopy") /\ UNCHANGED staged
       ELSE /\ \E p \in legacy.has \ staged[c].has :
                 staged' = [staged EXCEPT ![c].has = @ \cup {p},
                                          ![c].linked = legacy.linked]
            /\ UNCHANGED at
  /\ UNCHANGED <<root, legacy, home, locks, task, installationBounds, remembered>>

(* Recorded before it is promoted.                                         *)
RecordCopy(c) ==
  /\ at[c] = "recordCopy"
  /\ staged' = [staged EXCEPT ![c].recorded = TRUE]
  /\ Proceed(c, "promoteCopy")
  /\ UNCHANGED <<root, legacy, home, locks, task, installationBounds, remembered>>

(* A directory is renamed onto nothing.                                    *)
RenameOver(c, to, otherwise) ==
  /\ IF root = NoDirectory
       THEN /\ root' = staged[c]
            /\ staged' = [staged EXCEPT ![c] = NoDirectory]
            /\ Proceed(c, to)
       ELSE Proceed(c, otherwise) /\ UNCHANGED <<root, staged>>

PromoteCopy(c) ==
  /\ at[c] = "promoteCopy"
  /\ RenameOver(c, "adopted", "unwind")
  /\ UNCHANGED <<legacy, home, locks, task, installationBounds, remembered>>

Adopted(c) ==
  /\ at[c] = "adopted"
  /\ ReleaseSetupLock
  /\ Proceed(c, "begin")
  /\ UNCHANGED <<files, runtimeLock, moved, task, installationBounds, remembered>>

-----------------------------------------------------------------------------
(* init: everything is prepared beside the root and promoted at the end.   *)

InitInspect(c) ==
  /\ at[c] = "begin" /\ task[c] = "init"
  /\ IF Inspected = "absent" THEN Proceed(c, "initLock") ELSE Proceed(c, "ended")
  /\ UNCHANGED <<files, locks, task, installationBounds, remembered>>

CreateStaging(c) ==
  /\ at[c] = "stage"
  /\ IF root = NoDirectory
       THEN staged' = [staged EXCEPT ![c] = [EmptyTree EXCEPT !.has = {"frame"}]] /\ Proceed(c, "prepare")
       ELSE Proceed(c, "unwind") /\ UNCHANGED staged
  /\ UNCHANGED <<root, legacy, home, locks, task, installationBounds, remembered>>

(* The model's authentication, the pairing and the choice of chat and      *)
(* repository. A provider whose key was not pasted has no credential.      *)
Prepare(c) ==
  /\ at[c] = "prepare"
  /\ \E got \in {{"store"}, {"store", "model"}} :
       staged' = [staged EXCEPT ![c].has = @ \cup got, ![c].linked = TRUE]
  /\ Proceed(c, "write")
  /\ UNCHANGED <<root, legacy, home, locks, task, installationBounds, remembered>>

WriteConfiguration(c) ==
  /\ at[c] = "write"
  /\ IF "config" \in staged[c].has
       THEN staged' = [staged EXCEPT ![c].has = @ \cup {"apps"}] /\ Proceed(c, "verify")
       ELSE staged' = [staged EXCEPT ![c].has = @ \cup {"config"}] /\ UNCHANGED at
  /\ UNCHANGED <<root, legacy, home, locks, task, installationBounds, remembered>>

Verified(t) == Sound(t) /\ "model" \in t.has

VerifyStaging(c) ==
  /\ at[c] = "verify"
  /\ IF Verified(staged[c]) THEN Proceed(c, "promote") ELSE Proceed(c, "unwind")
  /\ UNCHANGED <<files, locks, task, installationBounds, remembered>>

PromoteStaging(c) ==
  /\ at[c] = "promote"
  /\ RenameOver(c, "unwind", "unwind")
  /\ UNCHANGED <<legacy, home, locks, task, installationBounds, remembered>>

(* An error or the operator's refusal anywhere above, and the end of init  *)
(* and of repair: the staged tree is removed, then the lock.               *)
Protected == {"move", "record", "copy", "recordCopy", "promoteCopy",
              "stage", "prepare", "write", "verify", "promote", "stageStore", "pair", "remove", "put"}

Tears(c) == torn' = IF at[c] = "put" THEN torn \cup {c} ELSE torn

Fail(c) ==
  /\ at[c] \in Protected
  /\ Proceed(c, "unwind")
  /\ Tears(c)
  /\ UNCHANGED <<files, locks, task, installationBounds, rivals, crossing>>

Unwind(c) ==
  /\ at[c] = "unwind"
  /\ staged' = [staged EXCEPT ![c] = NoDirectory]
  /\ Proceed(c, "release")
  /\ UNCHANGED <<root, legacy, home, locks, task, installationBounds, remembered>>

ReleaseSetup(c) ==
  /\ at[c] = "release"
  /\ ReleaseSetupLock
  /\ Proceed(c, "ended")
  /\ UNCHANGED <<files, runtimeLock, moved, task, installationBounds, remembered>>

-----------------------------------------------------------------------------
(* repair whatsapp: the store is paired anew beside the root, and takes    *)
(* the place of the old one in two steps.                                  *)

Starting(c) == task[c] = "start" /\ at[c] \in {"inspect", "session", "create", "readOwner", "writePid", "boot"}
Runs(c) == at[c] = "running"

RepairInspect(c) ==
  /\ at[c] = "begin" /\ task[c] = "repair"
  /\ IF Inspected = "ready" /\ SessionIs(root) = "re-pair-required"
       THEN Proceed(c, "probe") ELSE Proceed(c, "ended")
  /\ UNCHANGED <<files, locks, task, installationBounds, remembered>>

(* A runtime that serves answers at the port that the configuration names. *)
Serves(b) == Runs(b) /\ b \notin moved

RepairProbe(c) ==
  /\ at[c] = "probe"
  /\ IF \E b \in Invocation : Serves(b)
       THEN Proceed(c, "ended") /\ UNCHANGED crossing
       ELSE /\ Proceed(c, "repairLock")
            /\ crossing' = crossing \cup {b \in Invocation : Starting(b) \/ Runs(b)}
  /\ UNCHANGED <<files, locks, task, installationBounds, torn, rivals>>

StageStore(c) ==
  /\ at[c] = "stageStore"
  /\ staged' = [staged EXCEPT ![c] = EmptyTree]
  /\ Proceed(c, "pair")
  /\ UNCHANGED <<root, legacy, home, locks, task, installationBounds, remembered>>

(* The new account must see the managed chat, else Fail.                   *)
Pair(c) ==
  /\ at[c] = "pair"
  /\ staged' = [staged EXCEPT ![c].has = {"store"}, ![c].linked = TRUE]
  /\ Proceed(c, "remove")
  /\ UNCHANGED <<root, legacy, home, locks, task, installationBounds, remembered>>

RemoveStore(c) ==
  /\ at[c] = "remove"
  /\ root' = [root EXCEPT !.has = @ \ {"store"}]
  /\ Proceed(c, "put")
  /\ UNCHANGED <<legacy, home, staged, locks, task, installationBounds, remembered>>

PutStore(c) ==
  /\ at[c] = "put"
  /\ IF "store" \in root.has
       THEN UNCHANGED root
       ELSE root' = [root EXCEPT !.has = @ \cup staged[c].has, !.linked = staged[c].linked]
  /\ Proceed(c, "unwind")
  /\ UNCHANGED <<legacy, home, staged, locks, task, installationBounds, remembered>>

-----------------------------------------------------------------------------
(* start: the setup lock is looked at before the tree. The instance lock   *)
(* is a file created first and written after.                              *)

(* Faulty variant: the setup lock is not looked at.                        *)
LooksAway == TRUE

LooksFree == setupLock = Nobody

StartLooks(c) ==
  /\ at[c] = "begin" /\ task[c] = "start"
  /\ IF LooksFree THEN Proceed(c, "inspect") ELSE Proceed(c, "ended")
  /\ crossing' = IF \E b \in Invocation : at[b] = "repairLock" THEN crossing \cup {c} ELSE crossing
  /\ UNCHANGED <<files, locks, task, installationBounds, torn, rivals>>

StartInspect(c) ==
  /\ at[c] = "inspect"
  /\ IF root # NoDirectory /\ Sound(root) THEN Proceed(c, "session") ELSE Proceed(c, "ended")
  /\ UNCHANGED <<files, locks, task, installationBounds, remembered>>

CheckServices(c) ==
  /\ at[c] = "session"
  /\ IF SessionIs(root) = "paired" THEN Proceed(c, "create") ELSE Proceed(c, "ended")
  /\ UNCHANGED <<files, locks, task, installationBounds, remembered>>

Writing == {b \in Invocation : at[b] = "writePid"}

CreateLock(c) ==
  /\ at[c] = "create"
  /\ IF runtimeLock = Nobody
       THEN runtimeLock' = Unwritten /\ Proceed(c, "writePid")
       ELSE UNCHANGED runtimeLock /\ Proceed(c, "readOwner")
  /\ UNCHANGED <<files, setupLock, moved, task, installationBounds, remembered>>

(* A pid that does not run, or no pid, is taken for a lock left behind.    *)
ReadOwner(c) ==
  /\ at[c] = "readOwner"
  /\ IF runtimeLock \in Invocation /\ Alive(runtimeLock) THEN Proceed(c, "ended") ELSE Proceed(c, "writePid")
  /\ rivals' = IF Writing = {} THEN rivals ELSE rivals \cup Writing \cup {c}
  /\ UNCHANGED <<files, locks, task, installationBounds, torn, crossing>>

WritePid(c) ==
  /\ at[c] = "writePid"
  /\ runtimeLock' = c
  /\ Proceed(c, "boot")
  /\ UNCHANGED <<files, setupLock, moved, task, installationBounds, remembered>>

(* The configuration, the credentials and the port; or an error.           *)
Boot(c) ==
  /\ at[c] = "boot"
  /\ \/ /\ {"config", "apps"} \subseteq root.has
        /\ ~ \E b \in Invocation : Serves(b)
        /\ Proceed(c, "running")
     \/ Proceed(c, "ended")
  /\ UNCHANGED <<files, locks, task, installationBounds, remembered>>

(* Stopped by a signal: the file stays.                                    *)
Stop(c) ==
  /\ at[c] = "running"
  /\ Proceed(c, "ended")
  /\ UNCHANGED <<files, locks, task, installationBounds, remembered>>

-----------------------------------------------------------------------------

Die(c) ==
  /\ Alive(c) /\ kills < MaxKills
  /\ kills' = kills + 1
  /\ Proceed(c, "dead")
  /\ Tears(c)
  /\ UNCHANGED <<files, locks, task, unlinks, rivals, crossing>>

ClearLock ==
  /\ setupLock # Nobody /\ ~Alive(setupLock)
  /\ setupLock' = Nobody
  /\ UNCHANGED <<files, runtimeLock, moved, task, at, installationBounds, remembered>>

(* config --port beside a runtime, which goes on at its port.              *)
ChangePort ==
  /\ Inspected = "ready"
  /\ moved' = moved \cup {c \in Invocation : Runs(c)}
  /\ moved' # moved
  /\ UNCHANGED <<files, setupLock, runtimeLock, task, at, installationBounds, remembered>>

Unlink ==
  /\ root # NoDirectory /\ root.linked /\ unlinks < MaxUnlinks
  /\ unlinks' = unlinks + 1
  /\ root' = [root EXCEPT !.linked = FALSE]
  /\ UNCHANGED <<legacy, home, staged, locks, task, at, kills, remembered>>

InstallationStep(c) ==
  \/ \E t \in {"init", "repair", "start"} : Invoke(c, t)
  \/ Settle(c)
  \/ AcquireSetupLock(c, "adoptLock", "adoptCheck") /\ UNCHANGED remembered
  \/ AdoptCheck(c) \/ MoveLegacy(c) \/ Record(c)
  \/ CopyTree(c) \/ RecordCopy(c) \/ PromoteCopy(c) \/ Adopted(c)
  \/ InitInspect(c)
  \/ AcquireSetupLock(c, "initLock", "stage") /\ UNCHANGED remembered
  \/ CreateStaging(c) \/ Prepare(c) \/ WriteConfiguration(c)
  \/ VerifyStaging(c) \/ PromoteStaging(c) \/ Fail(c) \/ Unwind(c) \/ ReleaseSetup(c)
  \/ RepairInspect(c) \/ RepairProbe(c)
  \/ AcquireSetupLock(c, "repairLock", "stageStore") /\ UNCHANGED remembered
  \/ StageStore(c) \/ Pair(c) \/ RemoveStore(c) \/ PutStore(c)
  \/ StartLooks(c) \/ StartInspect(c) \/ CheckServices(c) \/ CreateLock(c) \/ ReadOwner(c)
  \/ WritePid(c) \/ Boot(c) \/ Stop(c) \/ Die(c)

InstallationNext == (\E c \in Invocation : InstallationStep(c)) \/ ClearLock \/ ChangePort \/ Unlink

InstallationSpec == InstallationInit /\ [][InstallationNext]_installationVars
-----------------------------------------------------------------------------
(* Correctness.                                                            *)

(* The section that the setup lock protects.                               *)
InSetup == Protected \cup {"adoptCheck", "adopted", "unwind", "release"}

(* Types; and a command that ended by itself leaves no tree beside the     *)
(* root (installation.ts:725, "finally").                                  *)
InstallationTypeOK ==
  /\ {root, legacy} \subseteq Tree \cup {NoDirectory}
  /\ home \in {"none", "beside", "apart"}
  /\ staged \in [Invocation -> Tree \cup {NoDirectory}]
  /\ setupLock \in Invocation \cup {Nobody}
  /\ runtimeLock \in Invocation \cup {Unwritten, Nobody}
  /\ kills \in 0 .. MaxKills /\ unlinks \in 0 .. MaxUnlinks
  /\ moved \cup torn \cup rivals \cup crossing \subseteq Invocation
  /\ \A c \in Invocation : at[c] \in {"idle", "settle", "begin", "ended", "running"} => staged[c] = NoDirectory

(* Whatever died, failed or ran beside: the root is absent or holds every  *)
(* part. Only the WhatsApp store may be missing, while a repair swaps it   *)
(* or after one ended there (installation.ts:590).                         *)
RootIsWhole ==
  root # NoDirectory =>
    /\ Piece \ {"store"} \subseteq root.has
    /\ "store" \notin root.has => torn # {} \/ \E c \in Invocation : at[c] = "put"

(* The former installation is whole where it was, or it is the root        *)
(* (migration.ts:168, "Atomic: same-filesystem rename, or staged copy").   *)
FormerSurvives ==
  home # "none" =>
    \/ legacy # NoDirectory /\ Whole(legacy)
    \/ root # NoDirectory /\ root.former /\ Piece \ {"store"} \subseteq root.has

(* No crash leaves two directories of which neither is known to be the     *)
(* installation, so that every later command is refused (migration.ts:209).*)
NeverStranded == ~Clash

(* One command at a time prepares or moves managed data, whoever removes   *)
(* the locks of the dead (migration.ts:171, "serialize on the managed      *)
(* setup lock").                                                           *)
OneSetup == \A b, c \in Invocation : at[b] \in InSetup /\ at[c] \in InSetup => b = c

(* Two runtimes use one data directory only if two starts took the         *)
(* instance lock at the same time: one of them looked at it while another  *)
(* was writing its pid (lifecycle.ts:46); and then the port refuses the    *)
(* second, unless the configuration has changed it.                        *)
OneRuntime ==
  \A b, c \in Invocation :
    b # c /\ {at[b], at[c]} \subseteq {"boot", "running"} =>
      /\ {b, c} \cap rivals # {}
      /\ Runs(b) /\ Runs(c) => {b, c} \cap moved # {}

(* A repair swaps the store of no running runtime (program.ts:667), but    *)
(* of one that was starting when the repair looked for it, or that serves  *)
(* a port the configuration no longer names.                               *)
NoSwapUnderRuntime ==
  (\E r \in Invocation : at[r] = "put") => \A c \in Invocation : Runs(c) => c \in crossing

(* The files of an installation.                                           *)
TreesSurvive == InstallationTypeOK /\ RootIsWhole /\ FormerSurvives /\ NeverStranded

(* The locks of an installation.                                           *)
OneAtATime == OneSetup /\ OneRuntime /\ NoSwapUnderRuntime

(* The managed directory stays whole, and one command's own.               *)
DirectoryIsKept == TreesSurvive /\ OneAtATime
=============================================================================
